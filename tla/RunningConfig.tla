---------------------------- MODULE RunningConfig ----------------------------
(***************************************************************************)
(* "show running-config" for SNMP (vtysh_ovsdb_snmp_context.c): the lines  *)
(* it prints for a database, and what they configure when an operator      *)
(* enters them on a fresh switch.  The rows of a table come in any order;  *)
(* the flags of the function outlive the row they were computed for.       *)
(***************************************************************************)
EXTENDS SnmpCommands, SequencesExt

CONSTANTS
  Configurations,     \* the contents of the database to show
  ExtendsVersion,     \* values that begin with the text of switch_version
  DefaultCommunity,   \* DEFAULT_COMMUNITY_TYPE
  DefaultPort,        \* DEFAULT_TRAP_RECEIVER_UDP_PORT
  Absent              \* a keyword is not on the line

Operator == "operator"   \* the session that enters the lines
Uuids == Nat

\* What the commands of one session can configure: it counts the receivers it adds.
Configurable(content) ==
  /\ \A t \in content.traps : t \in TrapRows(Uuids, {Operator}) /\ t.name \in NamesFor(t.receiver)
  /\ \A t, u \in content.traps : t # u => t.receiver # u.receiver
  /\ \A t \in content.traps : t.receiver.address \notin BadAddresses
  /\ IsFiniteSet(content.traps) /\ Cardinality(content.traps) <= MAX_ALLOWED_SNMP_TRAPS + 1
  /\ \A u \in content.users : u \in UserRows(Uuids)
  /\ \A u, w \in content.users : u # w => u.name # w.name
  /\ \A t \in content.traps : t.receiver.version = "v3" => snmp_v3_user_exists(content, t.name)
  /\ content.other_config \in OtherConfigs
  /\ \A c \in content.snmp_communities : c \in CommunityNames
  /\ IsFiniteSet(content.snmp_communities)
  /\ Cardinality(content.snmp_communities) <= MAX_ALLOWED_SNMP_COMMUNITIES

ASSUME RunningConfigAssumption ==
  /\ ExtendsVersion \subseteq Values
  /\ DefaultCommunity \in CommunityNames
  /\ IsFiniteSet(SettingKeys)
  /\ \A r \in Receivers : r = [address |-> r.address, port |-> r.port, version |-> r.version, type |-> r.type]
  /\ Absent \notin UserNames \cup CommunityNames \cup {r.port : r \in Receivers}
  /\ Absent \notin {"none", "md5", "sha", "aes", "des"}
  /\ \A content \in Configurations : Configurable(content)

VARIABLES
  db,           \* the database that is shown
  traps_left,   \* rows the function has not come to
  users_left,
  flags,        \* its local variables
  lines,        \* what it has printed
  phase,        \* "system", "rows", "replay"
  entered,      \* number of lines entered on the fresh switch
  target        \* the database of that switch

vars == <<db, traps_left, users_left, flags, lines, phase, entered, target>>

-----------------------------------------------------------------------------
(* Lines.                                                                  *)

\* A setting is shown when it is set; the description, when it does not
\* begin with the version of the switch.
IsShown(key) ==
  /\ db.other_config[key] # Unset
  /\ key = "system_description" =>
       db.other_config[key] \notin ExtendsVersion \cup {switch_version}

SettingLines ==
  {[op |-> "set", key |-> k, value |-> db.other_config[k]] : k \in {x \in SettingKeys : IsShown(x)}}

CommunityLines == {[op |-> "community", name |-> c] : c \in db.snmp_communities}

\* Variant: the port's flag is the one of the row before.
FlagsLate(t) ==
  [community_not_default      |-> flags.community_not_default \/ t.name # DefaultCommunity,
   trap_rcvr_port_not_default |-> flags.trap_rcvr_port_not_default,
   is_v3                      |-> flags.is_v3 \/ t.receiver.version = "v3"]

\* The flags are set for a row and never cleared.
FlagsAt(t) ==
  [community_not_default      |-> flags.community_not_default \/ t.name # DefaultCommunity,
   trap_rcvr_port_not_default |-> flags.trap_rcvr_port_not_default \/ t.receiver.port # DefaultPort,
   is_v3                      |-> flags.is_v3 \/ t.receiver.version = "v3"]

HostLine(t, f) ==
  [op        |-> "host",
   address   |-> t.receiver.address,
   type      |-> t.receiver.type,
   version   |-> t.receiver.version,
   user      |-> IF f.is_v3 THEN t.name ELSE Absent,
   community |-> IF ~f.is_v3 /\ f.community_not_default THEN t.name ELSE Absent,
   port      |-> IF f.trap_rcvr_port_not_default THEN t.receiver.port ELSE Absent]

\* Variant: the protocols are left out when there is no privacy.
UserLineShort(u) ==
  [op |-> "user", name |-> u.name,
   auth |-> IF u.security.priv = "none" THEN Absent ELSE u.security.auth,
   priv |-> IF u.security.priv = "none" THEN Absent ELSE u.security.priv]

\* auth and priv are shown unless they are "none"; priv only with auth.
UserLine(u) ==
  [op |-> "user", name |-> u.name,
   auth |-> IF u.security.auth = "none" THEN Absent ELSE u.security.auth,
   priv |-> IF u.security.auth = "none" \/ u.security.priv = "none" THEN Absent
                                                                    ELSE u.security.priv]

-----------------------------------------------------------------------------
(* vtysh_config_context_snmp_clientcallback.                               *)

PrintSystem ==
  /\ phase = "system"
  /\ lines' = SetToSeq(SettingLines) \o SetToSeq(CommunityLines)
  /\ phase' = "rows"
  /\ UNCHANGED <<db, traps_left, users_left, flags, entered, target>>

PrintTrap ==
  /\ phase = "rows"
  /\ \E t \in traps_left :
       /\ traps_left' = traps_left \ {t}
       /\ flags' = FlagsAt(t)
       /\ lines' = Append(lines, HostLine(t, flags'))
  /\ UNCHANGED <<db, users_left, phase, entered, target>>

PrintUser ==
  /\ phase = "rows" /\ traps_left = {}
  /\ \E u \in users_left :
       /\ users_left' = users_left \ {u}
       /\ lines' = Append(lines, UserLine(u))
  /\ UNCHANGED <<db, traps_left, flags, phase, entered, target>>

Printed ==
  /\ phase = "rows" /\ traps_left = {} /\ users_left = {}
  /\ phase' = "replay"
  /\ UNCHANGED <<db, traps_left, users_left, flags, lines, entered, target>>

-----------------------------------------------------------------------------
(* The lines entered as commands.                                          *)

\* The host commands take "user" with version v3 and only with it.
IsHostCommand(l) == l.version = "v3" <=> l.user # Absent

Default(given, default) == IF given = Absent THEN default ELSE given

ReceiverOf(l) ==
  [address |-> l.address, port |-> Default(l.port, DefaultPort),
   version |-> l.version, type |-> l.type]

\* Variant: the community of the line is overlooked.
NameOfDefault(l) == IF l.user # Absent THEN l.user ELSE DefaultCommunity

NameOf(l) == IF l.user # Absent THEN l.user ELSE Default(l.community, DefaultCommunity)

SecurityOf(l) == [auth |-> Default(l.auth, "none"), priv |-> Default(l.priv, "none")]

\* The transaction of a line, and no change when the command is refused.
Effect(l, uuid) ==
  CASE l.op = "set" -> Setting(target, l.key, l.value)
    [] l.op = "community" ->
         IF CommunityRefused(target, l.name) THEN NoChange ELSE CommunityConfigured(target, l.name)
    [] l.op = "host" ->
         IF \/ ~IsHostCommand(l)
            \/ HostRefused(target, Cardinality(target.traps), ReceiverOf(l), NameOf(l))
           THEN NoChange
           ELSE HostConfigured(uuid, ReceiverOf(l), NameOf(l), Operator)
    [] l.op = "user" ->
         IF snmp_v3_user_exists(target, l.name) THEN NoChange
                                                ELSE UserConfigured(uuid, l.name, SecurityOf(l))

Enter ==
  /\ phase = "replay" /\ entered < Len(lines)
  /\ entered' = entered + 1
  /\ target' = Applied(Effect(lines[entered'], entered'), target)
  /\ UNCHANGED <<db, traps_left, users_left, flags, lines, phase>>

-----------------------------------------------------------------------------

Empty == [traps |-> {}, users |-> {}, other_config |-> [k \in SettingKeys |-> Unset],
          snmp_communities |-> {}]

Init ==
  /\ db \in Configurations
  /\ traps_left = db.traps
  /\ users_left = db.users
  /\ flags = [community_not_default |-> FALSE, trap_rcvr_port_not_default |-> FALSE,
              is_v3 |-> FALSE]
  /\ lines = <<>>
  /\ phase = "system"
  /\ entered = 0
  /\ target = Empty

Next == PrintSystem \/ PrintTrap \/ PrintUser \/ Printed \/ Enter

Spec == Init /\ [][Next]_vars

-----------------------------------------------------------------------------
(* Properties.                                                             *)

Replayed == phase = "replay" /\ entered = Len(lines)

Named(traps) == {<<t.receiver, t.name>> : t \in traps}

Secured(users) == {<<u.name, u.security>> : u \in users}

\* The lines never configure what the shown switch does not have, although
\* the flags carry over from row to row.
ReplayInventsNothing ==
  /\ Named(target.traps) \subseteq Named(db.traps)
  /\ Secured(target.users) \subseteq Secured(db.users)
  /\ target.snmp_communities \subseteq db.snmp_communities

\* Without receivers of version 3, every receiver comes back, whatever the
\* order of the rows.  (With one, it is refused, since users are printed
\* last, and the rows printed after it are no commands any more.)
ReceiversComeBack ==
  Replayed /\ (\A t \in db.traps : t.receiver.version # "v3")
    => Named(target.traps) = Named(db.traps)

\* Communities, users and settings always come back, a description that
\* begins with the version excepted.
RestComesBack ==
  Replayed =>
    /\ target.snmp_communities = db.snmp_communities
    /\ Secured(target.users) = Secured(db.users)
    /\ \A k \in SettingKeys :
         \/ k = "system_description" /\ db.other_config[k] \in ExtendsVersion \cup {switch_version}
         \/ target.other_config[k] = db.other_config[k]
=============================================================================
