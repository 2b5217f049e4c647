---------------------------- MODULE MCSnmpdConf ----------------------------
(* A small instance of SnmpdConf: one community, two users, two or three   *)
(* values of everything else.  The values of a column are interchangeable, *)
(* so the initial contents are fixed to the first ones (a symmetry         *)
(* reduction by hand: SYMMETRY is not sound with liveness); both users are *)
(* there, or none.                                                         *)
EXTENDS SnmpdConf

CONSTANTS c1, x, v1, v2, m1, m2, u1, u2

MCUserRows == {[auth |-> "none", priv |-> "none"], [auth |-> "md5", priv |-> "aes"]}

\* Nothing set, a description set (it hides the version), all but it set.
NothingSet == [k \in SnmpKeys |-> Unset]

MCOtherConfigs ==
  {NothingSet, [NothingSet EXCEPT !["system_description"] = x],
   [k \in SnmpKeys |-> IF k = "system_description" THEN Unset ELSE x]}

MCInit ==
  /\ Init
  /\ Latest.other_config = NothingSet
  /\ Latest.switch_version = v1
  /\ Latest.system_mac = m1
  /\ Latest.snmp_communities = {}
  /\ Latest.users \in {NoUsers, [u \in Users |-> [auth |-> "md5", priv |-> "aes"]]}

\* FairSpec from these contents.
MCSpec == MCInit /\ [][Next]_vars /\ WF_vars(Thread)
=============================================================================
