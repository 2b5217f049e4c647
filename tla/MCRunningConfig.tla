--------------------------- MODULE MCRunningConfig ---------------------------
(* Up to two receivers, out of five that differ from the default in the    *)
(* port, the community, the type or the version; two users; a description  *)
(* that does and one that does not begin with the version of the switch.   *)
EXTENDS RunningConfig

CONSTANTS a, public, other, n1, n2, x, v1, v1x

Receiver(port, version, type) ==
  [address |-> a, port |-> port, version |-> version, type |-> type]

MCReceivers ==
  {Receiver(162, "v1", "trap"), Receiver(163, "v2c", "trap"), Receiver(162, "v2c", "inform"),
   Receiver(162, "v3", "trap"), Receiver(163, "v3", "inform")}

MCSecurities ==
  {[auth |-> "none", priv |-> "none"], [auth |-> "sha", priv |-> "none"],
   [auth |-> "md5", priv |-> "aes"]}

TrapTables ==
  {{}} \cup {{t} : t \in TrapRows({1}, {Operator})} \cup
  {{t, u} : t \in TrapRows({1}, {Operator}), u \in TrapRows({2}, {Operator})}

UserTables ==
  {{}} \cup {{u} : u \in UserRows({3})} \cup
  {{u, w} : u \in UserRows({3}), w \in UserRows({4})}

MCConfigurations ==
  {content \in [traps: TrapTables, users: UserTables,
                other_config: {[system_description |-> d, system_contact |-> c] :
                                 d \in {Unset, x, v1, v1x}, c \in {Unset, v1x}},
                snmp_communities: {{}, {other}}] : Configurable(content)}
=============================================================================
