------------------------ MODULE RunningConfig_proofs ------------------------
(***************************************************************************)
(* Proofs about RunningConfig for any database one session can configure   *)
(* and any order of its rows: what entering the shown lines gives back.    *)
(***************************************************************************)
EXTENDS RunningConfig, FiniteSetTheorems, TLAPS

NoVersion3 == \A t \in db.traps : t.receiver.version # "v3"

Flags == [community_not_default: BOOLEAN, trap_rcvr_port_not_default: BOOLEAN, is_v3: BOOLEAN]

\* Every line there may be.
Shown ==
  SettingLines \cup CommunityLines \cup {HostLine(t, f) : t \in db.traps, f \in Flags}
  \cup {UserLine(u) : u \in db.users}

Types ==
  /\ db \in Configurations
  /\ traps_left \subseteq db.traps /\ users_left \subseteq db.users
  /\ flags \in Flags
  /\ lines \in Seq(Shown)
  /\ phase \in {"system", "rows", "replay"}
  /\ entered \in 0 .. Len(lines)
  /\ phase = "system" => lines = <<>> /\ traps_left = db.traps /\ users_left = db.users
  /\ phase = "replay" => traps_left = {} /\ users_left = {}

\* A line that stands for the receiver, although flags of other rows shaped it:
\* what it leaves out is the default, and a community is not left out as a user.
IsHostLineOf(l, t) ==
  /\ l.op = "host"
  /\ l.address = t.receiver.address /\ l.type = t.receiver.type /\ l.version = t.receiver.version
  /\ l.port = t.receiver.port \/ (l.port = Absent /\ t.receiver.port = DefaultPort)
  /\ \/ l.user = t.name /\ l.community = Absent
     \/ /\ l.user = Absent /\ t.receiver.version # "v3"
        /\ l.community = t.name \/ (l.community = Absent /\ t.name = DefaultCommunity)
  /\ NoVersion3 => l.user = Absent

\* Every line is of a row the function has come to.
LinesAreOfRows ==
  \A i \in 1 .. Len(lines) :
    \/ lines[i] \in SettingLines \cup CommunityLines
    \/ \E t \in db.traps \ traps_left : IsHostLineOf(lines[i], t)
    \/ \E u \in db.users \ users_left : lines[i] = UserLine(u)

\* And every such row has a line.
RowsHaveLines ==
  /\ phase # "system" => \A l \in SettingLines \cup CommunityLines : \E i \in 1 .. Len(lines) : lines[i] = l
  /\ \A t \in db.traps \ traps_left : \E i \in 1 .. Len(lines) : IsHostLineOf(lines[i], t)
  /\ \A u \in db.users \ users_left : \E i \in 1 .. Len(lines) : lines[i] = UserLine(u)

FlagsAreOfRows == flags.is_v3 => ~NoVersion3

\* The switch the lines are entered on has what the entered lines say, and no more.
SettingsEntered ==
  /\ target.other_config \in OtherConfigs
  /\ \A k \in SettingKeys : target.other_config[k] \in {Unset, db.other_config[k]}
  /\ \A i \in 1 .. entered : lines[i].op = "set" =>
       target.other_config[lines[i].key] = db.other_config[lines[i].key]

CommunitiesEntered ==
  /\ target.snmp_communities \subseteq db.snmp_communities
  /\ \A i \in 1 .. entered : lines[i].op = "community" => lines[i].name \in target.snmp_communities

UsersEntered ==
  /\ Secured(target.users) \subseteq Secured(db.users)
  /\ \A u \in db.users : \A i \in 1 .. entered :
       lines[i] = UserLine(u) => <<u.name, u.security>> \in Secured(target.users)

TrapsEntered ==
  /\ Named(target.traps) \subseteq Named(db.traps)
  /\ \A x, y \in target.traps : x.receiver = y.receiver => x = y
  /\ IsFiniteSet(target.traps)
  /\ NoVersion3 => \A t \in db.traps : \A i \in 1 .. entered :
       IsHostLineOf(lines[i], t) => <<t.receiver, t.name>> \in Named(target.traps)

IInv ==
  /\ Types /\ LinesAreOfRows /\ RowsHaveLines /\ FlagsAreOfRows
  /\ SettingsEntered /\ CommunitiesEntered /\ UsersEntered /\ TrapsEntered

-----------------------------------------------------------------------------
(* The lines.                                                              *)

\* SetToSeq lists a finite set.
LEMMA Listed ==
  ASSUME NEW S, IsFiniteSet(S)
  PROVE  /\ SetToSeq(S) \in Seq(S)
         /\ \A x \in S : \E i \in 1 .. Len(SetToSeq(S)) : SetToSeq(S)[i] = x
<1>1. Cardinality(S) \in Nat
  BY FS_CardinalityType
<1>2. \E f \in [1 .. Cardinality(S) -> S] : IsInjective(f)
  <2>1. ExistsBijection(1 .. Cardinality(S), S)
    BY FS_CardinalityType
  <2>2. PICK f \in Bijection(1 .. Cardinality(S), S) : TRUE
    BY <2>1 DEF ExistsBijection
  <2>3. f \in [1 .. Cardinality(S) -> S] /\ IsInjective(f)
    BY <2>2 DEF Bijection, Injection, IsInjective
  <2>4. QED
    BY <2>3
<1>. DEFINE s == SetToSeq(S)
<1>3. s \in [1 .. Cardinality(S) -> S] /\ IsInjective(s)
  BY <1>2 DEF SetToSeq
<1>. HIDE DEF s
<1>4. s \in Seq(S) /\ Len(s) = Cardinality(S)
  BY <1>1, <1>3
<1>5. \A x \in S : \E i \in 1 .. Cardinality(S) : s[i] = x
  <2>1. IsFiniteSet(1 .. Cardinality(S)) /\ Cardinality(1 .. Cardinality(S)) = Cardinality(S)
    BY <1>1, FS_Interval
  <2>2. s \in Injection(1 .. Cardinality(S), S)
    BY <1>3 DEF Injection, IsInjective
  <2>3. s \in Surjection(1 .. Cardinality(S), S)
    BY <2>1, <2>2, FS_Injection
  <2>4. QED
    BY <2>3 DEF Surjection
<1>6. QED
  BY <1>4, <1>5 DEF s

\* A line says whose it is.
LEMMA HostLineIsOf ==
  ASSUME NEW t \in db.traps, NEW f \in Flags, f = FlagsAt(t), flags \in Flags, FlagsAreOfRows
  PROVE  /\ IsHostLineOf(HostLine(t, f), t)
         /\ f.is_v3 => ~NoVersion3
<1>1. /\ f.is_v3 <=> (flags.is_v3 \/ t.receiver.version = "v3")
      /\ ~f.community_not_default => t.name = DefaultCommunity
      /\ ~f.trap_rcvr_port_not_default => t.receiver.port = DefaultPort
  BY DEF FlagsAt, Flags
<1>2. f.is_v3 => ~NoVersion3
  BY <1>1 DEF FlagsAreOfRows, NoVersion3
<1>3. QED
  BY <1>1, <1>2 DEF HostLine, IsHostLineOf

\* What the host command reads from a line is the receiver of its row and its name.
LEMMA HostLineRead ==
  ASSUME NEW l, NEW t, t.receiver \in Receivers, t.name \in UserNames \cup CommunityNames, IsHostLineOf(l, t)
  PROVE  /\ ReceiverOf(l) = t.receiver
         /\ IsHostCommand(l) => NameOf(l) = t.name
         /\ NoVersion3 /\ t.receiver.version # "v3" => IsHostCommand(l)
<1>1. Absent # t.name /\ Absent # t.receiver.port
  BY RunningConfigAssumption
<1>2. t.receiver = [address |-> t.receiver.address, port |-> t.receiver.port,
                    version |-> t.receiver.version, type |-> t.receiver.type]
  BY RunningConfigAssumption
<1>3. Default(l.port, DefaultPort) = t.receiver.port
  BY <1>1 DEF IsHostLineOf, Default
<1>4. ReceiverOf(l) = t.receiver
  BY <1>2, <1>3 DEF IsHostLineOf, ReceiverOf
<1>5. QED
  BY <1>1, <1>4 DEF IsHostLineOf, IsHostCommand, NameOf, Default

\* And from a user's line, its name and its protocols.
LEMMA UserLineRead ==
  ASSUME NEW u, u.security \in Securities
  PROVE  UserLine(u).op = "user" /\ UserLine(u).name = u.name /\ SecurityOf(UserLine(u)) = u.security
<1>1. /\ u.security = [auth |-> u.security.auth, priv |-> u.security.priv]
      /\ u.security.auth = "none" => u.security.priv = "none"
      /\ u.security.auth \in {"none", "md5", "sha"} /\ u.security.priv \in {"none", "aes", "des"}
  BY SnmpCommandsAssumption
<1>2. QED
  BY <1>1, RunningConfigAssumption DEF UserLine, SecurityOf, Default

-----------------------------------------------------------------------------
(* Printing.                                                               *)

LEMMA ShownFinite ==
  ASSUME Types
  PROVE  IsFiniteSet(SettingLines) /\ IsFiniteSet(CommunityLines)
<1>1. IsFiniteSet(SettingKeys) /\ IsFiniteSet(db.snmp_communities)
  BY RunningConfigAssumption DEF Types, Configurable
<1>2. IsFiniteSet({k \in SettingKeys : IsShown(k)})
  BY <1>1, FS_Subset
<1>3. IsFiniteSet(SettingLines)
  <2>. DEFINE keys == {k \in SettingKeys : IsShown(k)}
              f == [k \in keys |-> [op |-> "set", key |-> k, value |-> db.other_config[k]]]
  <2>1. f \in Surjection(keys, SettingLines)
    BY DEF SettingLines, Surjection
  <2>. HIDE DEF f
  <2>2. QED
    BY <1>2, <2>1, FS_Surjection
<1>4. IsFiniteSet(CommunityLines)
  <2>. DEFINE f == [n \in db.snmp_communities |-> [op |-> "community", name |-> n]]
  <2>1. f \in Surjection(db.snmp_communities, CommunityLines)
    BY DEF CommunityLines, Surjection
  <2>. HIDE DEF f
  <2>2. QED
    BY <1>1, <2>1, FS_Surjection
<1>5. QED
  BY <1>3, <1>4

\* The receivers of a configured database, and its users, are of the model's kinds.
LEMMA RowsAreTyped ==
  ASSUME Types
  PROVE  /\ \A t \in db.traps : /\ t.receiver \in Receivers /\ t.name \in UserNames \cup CommunityNames
                                /\ t.receiver.address \notin BadAddresses
         /\ \A t, u \in db.traps : t # u => t.receiver # u.receiver
         /\ IsFiniteSet(db.traps) /\ Cardinality(db.traps) <= MAX_ALLOWED_SNMP_TRAPS + 1
         /\ \A u \in db.users : u.name \in UserNames /\ u.security \in Securities
         /\ \A u, w \in db.users : u # w => u.name # w.name
         /\ db.other_config \in OtherConfigs
         /\ db.snmp_communities \subseteq CommunityNames
         /\ IsFiniteSet(db.snmp_communities)
         /\ Cardinality(db.snmp_communities) <= MAX_ALLOWED_SNMP_COMMUNITIES
BY RunningConfigAssumption DEF Types, Configurable, TrapRows, UserRows

LEMMA SystemPrinted ==
  ASSUME Types, LinesAreOfRows, RowsHaveLines, FlagsAreOfRows, PrintSystem
  PROVE  Types' /\ LinesAreOfRows' /\ RowsHaveLines'
<1>. DEFINE s == SetToSeq(SettingLines)
            q == SetToSeq(CommunityLines)
<1>1. /\ s \in Seq(SettingLines) /\ \A x \in SettingLines : \E i \in 1 .. Len(s) : s[i] = x
      /\ q \in Seq(CommunityLines) /\ \A x \in CommunityLines : \E i \in 1 .. Len(q) : q[i] = x
  BY ShownFinite, Listed
<1>2. /\ lines' = s \o q /\ UNCHANGED <<db, traps_left, users_left, flags, entered, target>> /\ phase' = "rows"
      /\ phase = "system"
  BY DEF PrintSystem
<1>. HIDE DEF s, q
<1>3. /\ lines' \in Seq(SettingLines \cup CommunityLines)
      /\ Len(lines') = Len(s) + Len(q) /\ Len(s) \in Nat /\ Len(q) \in Nat
      /\ \A i \in 1 .. Len(s) : lines'[i] = s[i]
      /\ \A i \in 1 .. Len(q) : lines'[Len(s) + i] = q[i]
  BY <1>1, <1>2
<1>4. \A i \in 1 .. Len(lines') : lines'[i] \in SettingLines \cup CommunityLines
  BY <1>3
<1>5. \A l \in SettingLines \cup CommunityLines : \E i \in 1 .. Len(lines') : lines'[i] = l
  <2>1. ASSUME NEW l \in SettingLines PROVE \E i \in 1 .. Len(lines') : lines'[i] = l
    <3>1. PICK j \in 1 .. Len(s) : s[j] = l
      BY <1>1, <2>1
    <3>2. j \in 1 .. Len(lines') /\ lines'[j] = l
      BY <1>3, <3>1
    <3>3. QED
      BY <3>2
  <2>2. ASSUME NEW l \in CommunityLines PROVE \E i \in 1 .. Len(lines') : lines'[i] = l
    <3>1. PICK j \in 1 .. Len(q) : q[j] = l
      BY <1>1, <2>2
    <3>2. Len(s) + j \in 1 .. Len(lines') /\ lines'[Len(s) + j] = l
      BY <1>3, <3>1
    <3>3. QED
      BY <3>2
  <2>3. QED
    BY <2>1, <2>2
<1>6. SettingLines' = SettingLines /\ CommunityLines' = CommunityLines /\ Shown' = Shown
  BY <1>2 DEF SettingLines, CommunityLines, IsShown, Shown
<1>7. Types'
  <2>1. lines' \in Seq(Shown)
    BY <1>3 DEF Shown
  <2>2. entered' \in 0 .. Len(lines')
    BY <1>2, <1>3 DEF Types
  <2>3. QED
    BY <1>2, <1>6, <2>1, <2>2 DEF Types
<1>8. LinesAreOfRows'
  BY <1>4, <1>6 DEF LinesAreOfRows
<1>9. RowsHaveLines'
  BY <1>2, <1>5, <1>6 DEF RowsHaveLines, Types
<1>10. QED
  BY <1>7, <1>8, <1>9

\* A line is appended, and the rows are the same but for one that is done.
LEMMA TrapPrinted ==
  ASSUME Types, LinesAreOfRows, RowsHaveLines, FlagsAreOfRows, PrintTrap
  PROVE  Types' /\ LinesAreOfRows' /\ RowsHaveLines' /\ FlagsAreOfRows'
<1>1. PICK t \in traps_left : PrintTrap!2!(t)
  BY DEF PrintTrap
<1>. DEFINE l == HostLine(t, FlagsAt(t))
<1>2. /\ t \in db.traps /\ traps_left' = traps_left \ {t} /\ flags' = FlagsAt(t) /\ lines' = Append(lines, l)
      /\ phase = "rows" /\ UNCHANGED <<db, users_left, phase, entered, target>>
  BY <1>1 DEF PrintTrap, Types
<1>3. flags' \in Flags
  BY <1>2 DEF FlagsAt, Flags, Types
<1>4. IsHostLineOf(l, t) /\ (flags'.is_v3 => ~NoVersion3)
  BY <1>2, <1>3, HostLineIsOf DEF Types
<1>5. l \in Shown
  BY <1>2, <1>3 DEF Shown
<1>. HIDE DEF l
<1>6. /\ lines' \in Seq(Shown) /\ Len(lines') = Len(lines) + 1 /\ Len(lines) \in Nat
      /\ lines'[Len(lines) + 1] = l /\ \A i \in 1 .. Len(lines) : lines'[i] = lines[i]
  BY <1>2, <1>5 DEF Types
<1>7. /\ SettingLines' = SettingLines /\ CommunityLines' = CommunityLines /\ Shown' = Shown
      /\ NoVersion3' = NoVersion3
  BY <1>2 DEF SettingLines, CommunityLines, IsShown, Shown, NoVersion3
<1>8. Types'
  BY <1>2, <1>3, <1>6, <1>7 DEF Types
<1>9. LinesAreOfRows'
  BY <1>2, <1>4, <1>6, <1>7 DEF LinesAreOfRows, IsHostLineOf
<1>10. RowsHaveLines'
  BY <1>2, <1>4, <1>6, <1>7 DEF RowsHaveLines, IsHostLineOf
<1>11. QED
  BY <1>4, <1>7, <1>8, <1>9, <1>10 DEF FlagsAreOfRows

LEMMA UserPrinted ==
  ASSUME Types, LinesAreOfRows, RowsHaveLines, FlagsAreOfRows, PrintUser
  PROVE  Types' /\ LinesAreOfRows' /\ RowsHaveLines' /\ FlagsAreOfRows'
<1>1. PICK u \in users_left : PrintUser!2!(u)
  BY DEF PrintUser
<1>. DEFINE l == UserLine(u)
<1>2. /\ u \in db.users /\ users_left' = users_left \ {u} /\ lines' = Append(lines, l)
      /\ phase = "rows" /\ UNCHANGED <<db, traps_left, flags, phase, entered, target>>
  BY <1>1 DEF PrintUser, Types
<1>3. l \in Shown
  BY <1>2 DEF Shown
<1>4. /\ lines' \in Seq(Shown) /\ Len(lines') = Len(lines) + 1 /\ Len(lines) \in Nat
      /\ lines'[Len(lines) + 1] = l /\ \A i \in 1 .. Len(lines) : lines'[i] = lines[i]
  BY <1>2, <1>3 DEF Types
<1>5. /\ SettingLines' = SettingLines /\ CommunityLines' = CommunityLines /\ Shown' = Shown
      /\ NoVersion3' = NoVersion3
  BY <1>2 DEF SettingLines, CommunityLines, IsShown, Shown, NoVersion3
<1>6. Types'
  BY <1>2, <1>4, <1>5 DEF Types
<1>7. LinesAreOfRows'
  BY <1>2, <1>4, <1>5 DEF LinesAreOfRows, IsHostLineOf
<1>8. RowsHaveLines'
  BY <1>2, <1>4, <1>5 DEF RowsHaveLines, IsHostLineOf
<1>9. QED
  BY <1>2, <1>5, <1>6, <1>7, <1>8 DEF FlagsAreOfRows

-----------------------------------------------------------------------------
(* Entering.                                                               *)

\* What is left alone by a line that is not of these columns.
Leaves(columns) == \A column \in columns : target'[column] = target[column]

LEMMA SystemLineRead ==
  /\ \A l \in SettingLines : l.op = "set" /\ l.key \in SettingKeys /\ l.value = db.other_config[l.key]
  /\ \A l \in CommunityLines : l.op = "community" /\ l.name \in db.snmp_communities
<1>1. ASSUME NEW l \in SettingLines
      PROVE  l.op = "set" /\ l.key \in SettingKeys /\ l.value = db.other_config[l.key]
  <2>1. PICK k \in {x \in SettingKeys : IsShown(x)} : l = [op |-> "set", key |-> k, value |-> db.other_config[k]]
    BY DEF SettingLines
  <2>2. QED
    BY <2>1
<1>2. ASSUME NEW l \in CommunityLines
      PROVE  l.op = "community" /\ l.name \in db.snmp_communities
  <2>1. PICK n \in db.snmp_communities : l = [op |-> "community", name |-> n]
    BY DEF CommunityLines
  <2>2. QED
    BY <2>1
<1>3. QED
  BY <1>1, <1>2

LEMMA SettingIsEntered ==
  ASSUME Types, SettingsEntered, Enter, NEW l, l = lines[entered + 1], l \in SettingLines
  PROVE  /\ Leaves({"traps", "users", "snmp_communities"})
         /\ l.op = "set" /\ l.key \in SettingKeys /\ l.value = db.other_config[l.key]
         /\ target'.other_config = [target.other_config EXCEPT ![l.key] = l.value]
<1>1. /\ l.op = "set" /\ l.key \in SettingKeys /\ l.value = db.other_config[l.key]
      /\ l.value \in Values \cup {Unset, switch_version}
  BY SystemLineRead, RowsAreTyped DEF OtherConfigs
<1>. DEFINE new == [target.other_config EXCEPT ![l.key] = l.value]
<1>2. new # Keep
  BY <1>1, SnmpCommandsAssumption DEF SettingsEntered, OtherConfigs
<1>. HIDE DEF new
<1>3. target' = Applied([NoChange EXCEPT !.other_config = new], target)
  BY <1>1 DEF Enter, Effect, Setting, new
<1>4. QED
  BY <1>1, <1>2, <1>3 DEF Applied, NoChange, Leaves, new

LEMMA CommunityIsEntered ==
  ASSUME Types, CommunitiesEntered, Enter, NEW l, l = lines[entered + 1], l \in CommunityLines
  PROVE  /\ Leaves({"traps", "users", "other_config"})
         /\ l.op = "community" /\ l.name \in db.snmp_communities
         /\ target'.snmp_communities = target.snmp_communities \cup {l.name}
<1>1. l.op = "community" /\ l.name \in db.snmp_communities
  BY SystemLineRead
<1>. DEFINE new == target.snmp_communities \cup {l.name}
<1>2. new # Keep
  BY <1>1, RowsAreTyped, SnmpCommandsAssumption DEF CommunitiesEntered
<1>3. CASE l.name \in target.snmp_communities
  <2>1. target' = Applied(NoChange, target)
    BY <1>1, <1>3 DEF Enter, Effect, CommunityRefused
  <2>2. QED
    BY <1>1, <1>3, <2>1 DEF Applied, NoChange, Leaves
<1>4. CASE l.name \notin target.snmp_communities
  <2>1. ~CommunityRefused(target, l.name)
    <3>1. IsFiniteSet(db.snmp_communities) /\ Cardinality(db.snmp_communities) <= MAX_ALLOWED_SNMP_COMMUNITIES
      BY RowsAreTyped
    <3>2. /\ Cardinality(target.snmp_communities) <= Cardinality(db.snmp_communities)
          /\ Cardinality(target.snmp_communities) # Cardinality(db.snmp_communities)
          /\ IsFiniteSet(target.snmp_communities)
      BY <1>1, <1>4, <3>1, FS_Subset DEF CommunitiesEntered
    <3>3. Cardinality(target.snmp_communities) \in Nat /\ Cardinality(db.snmp_communities) \in Nat
      BY <3>1, <3>2, FS_CardinalityType
    <3>4. QED
      BY <1>4, <3>1, <3>2, <3>3, SnmpCommandsAssumption DEF CommunityRefused
  <2>. HIDE DEF new
  <2>2. target' = Applied([NoChange EXCEPT !.snmp_communities = new], target)
    BY <1>1, <2>1 DEF Enter, Effect, CommunityConfigured, new
  <2>3. QED
    BY <1>1, <1>2, <2>2 DEF Applied, NoChange, Leaves, new
<1>5. QED
  BY <1>3, <1>4

LEMMA HostIsEntered ==
  ASSUME Types, Enter, NEW l, l = lines[entered + 1], NEW t \in db.traps, IsHostLineOf(l, t)
  PROVE  /\ Leaves({"users", "other_config", "snmp_communities"})
         /\ \/ /\ target'.traps = target.traps
               /\ \/ ~IsHostCommand(l)
                  \/ HostRefused(target, Cardinality(target.traps), t.receiver, t.name)
            \/ /\ ~HostRefused(target, Cardinality(target.traps), t.receiver, t.name)
               /\ \E x : /\ x.receiver = t.receiver /\ x.name = t.name
                         /\ target'.traps = target.traps \cup {x}
<1>1. /\ ReceiverOf(l) = t.receiver /\ l.op = "host"
      /\ IsHostCommand(l) => NameOf(l) = t.name
  BY HostLineRead, RowsAreTyped DEF IsHostLineOf
<1>. DEFINE refused == HostRefused(target, Cardinality(target.traps), t.receiver, t.name)
<1>2. CASE ~IsHostCommand(l) \/ refused
  <2>1. target' = Applied(NoChange, target)
    BY <1>1, <1>2 DEF Enter, Effect
  <2>2. QED
    BY <1>2, <2>1 DEF Applied, NoChange, Leaves
<1>3. CASE IsHostCommand(l) /\ ~refused
  <2>. DEFINE x == [uuid |-> entered + 1, receiver |-> t.receiver, name |-> t.name, by |-> Operator]
  <2>1. target' = Applied([NoChange EXCEPT !.traps = {x}], target)
    BY <1>1, <1>3 DEF Enter, Effect, HostConfigured
  <2>2. x.receiver = t.receiver /\ x.name = t.name
    OBVIOUS
  <2>. HIDE DEF x
  <2>3. Leaves({"users", "other_config", "snmp_communities"}) /\ target'.traps = target.traps \cup {x}
    BY <2>1 DEF Applied, NoChange, Leaves
  <2>4. QED
    BY <1>3, <2>2, <2>3
<1>4. QED
  BY <1>2, <1>3

LEMMA UserIsEntered ==
  ASSUME Types, Enter, NEW l, l = lines[entered + 1], NEW u \in db.users, l = UserLine(u)
  PROVE  /\ Leaves({"traps", "other_config", "snmp_communities"})
         /\ \/ target'.users = target.users /\ snmp_v3_user_exists(target, u.name)
            \/ \E x : /\ x.name = u.name /\ x.security = u.security
                      /\ target'.users = target.users \cup {x}
<1>1. l.op = "user" /\ l.name = u.name /\ SecurityOf(l) = u.security
  BY UserLineRead, RowsAreTyped
<1>2. CASE snmp_v3_user_exists(target, u.name)
  <2>1. target' = Applied(NoChange, target)
    BY <1>1, <1>2 DEF Enter, Effect
  <2>2. QED
    BY <1>2, <2>1 DEF Applied, NoChange, Leaves
<1>3. CASE ~snmp_v3_user_exists(target, u.name)
  <2>. DEFINE x == [uuid |-> entered + 1, name |-> u.name, security |-> u.security]
  <2>1. target' = Applied([NoChange EXCEPT !.users = {x}], target)
    BY <1>1, <1>3 DEF Enter, Effect, UserConfigured
  <2>2. x.name = u.name /\ x.security = u.security
    OBVIOUS
  <2>. HIDE DEF x
  <2>3. Leaves({"traps", "other_config", "snmp_communities"}) /\ target'.users = target.users \cup {x}
    BY <2>1 DEF Applied, NoChange, Leaves
  <2>4. QED
    BY <2>2, <2>3
<1>4. QED
  BY <1>2, <1>3

\* The row of the line that is entered.
LEMMA EnteredLine ==
  ASSUME Types, LinesAreOfRows, Enter, NEW l, l = lines[entered + 1]
  PROVE  /\ entered + 1 \in 1 .. Len(lines) /\ entered' = entered + 1
         /\ UNCHANGED <<db, traps_left, users_left, flags, lines, phase>>
         /\ \/ l \in SettingLines \/ l \in CommunityLines
            \/ \E t \in db.traps : IsHostLineOf(l, t)
            \/ \E u \in db.users : l = UserLine(u)
<1>1. Len(lines) \in Nat
  BY DEF Types
<1>2. entered + 1 \in 1 .. Len(lines)
  BY <1>1 DEF Enter, Types
<1>3. QED
  BY <1>2 DEF Enter, LinesAreOfRows

LEMMA SettingsEnteredKept ==
  ASSUME Types, LinesAreOfRows, SettingsEntered, CommunitiesEntered, Enter
  PROVE  SettingsEntered'
<1>. DEFINE l == lines[entered + 1]
<1>1. entered' = entered + 1 /\ entered \in Nat /\ db' = db /\ lines' = lines
  BY EnteredLine DEF Types
<1>2. CASE l \in SettingLines
  <2>1. /\ l.op = "set" /\ l.key \in SettingKeys /\ l.value = db.other_config[l.key]
        /\ target'.other_config = [target.other_config EXCEPT ![l.key] = l.value]
    BY <1>2, SettingIsEntered
  <2>2. DOMAIN target.other_config = SettingKeys /\ l.value \in Values \cup {Unset, switch_version}
    BY <2>1, RowsAreTyped DEF SettingsEntered, OtherConfigs
  <2>3. target'.other_config \in OtherConfigs
    BY <2>1, <2>2 DEF SettingsEntered, OtherConfigs
  <2>4. \A k \in SettingKeys : target'.other_config[k] = IF k = l.key THEN l.value ELSE target.other_config[k]
    BY <2>1, <2>2
  <2>5. ASSUME NEW i \in 1 .. entered + 1, lines[i].op = "set"
        PROVE  target'.other_config[lines[i].key] = db.other_config[lines[i].key]
    <3>1. CASE i = entered + 1
      BY <2>1, <2>4, <3>1
    <3>2. CASE i \in 1 .. entered
      <4>1. lines[i].key \in SettingKeys
        <5>1. lines[i] \in Shown
          BY <3>2 DEF Types
        <5>2. QED
          BY <2>5, <5>1 DEF Shown, SettingLines, CommunityLines, HostLine, UserLine
      <4>2. QED
        BY <2>1, <2>4, <2>5, <3>2, <4>1 DEF SettingsEntered
    <3>3. QED
      BY <1>1, <3>1, <3>2
  <2>6. QED
    BY <1>1, <2>1, <2>3, <2>4, <2>5 DEF SettingsEntered
<1>3. CASE l \notin SettingLines
  <2>1. target'.other_config = target.other_config /\ l.op # "set"
    <3>1. CASE l \in CommunityLines
      BY <3>1, CommunityIsEntered DEF Leaves
    <3>2. ASSUME NEW t \in db.traps, IsHostLineOf(l, t) PROVE <2>1
      BY <3>2, HostIsEntered DEF Leaves, IsHostLineOf
    <3>3. ASSUME NEW u \in db.users, l = UserLine(u) PROVE <2>1
      BY <3>3, UserIsEntered, UserLineRead, RowsAreTyped DEF Leaves
    <3>4. QED
      BY <1>3, <3>1, <3>2, <3>3, EnteredLine
  <2>2. QED
    BY <1>1, <2>1 DEF SettingsEntered
<1>4. QED
  BY <1>2, <1>3

LEMMA CommunitiesEnteredKept ==
  ASSUME Types, LinesAreOfRows, SettingsEntered, CommunitiesEntered, Enter
  PROVE  CommunitiesEntered'
<1>. DEFINE l == lines[entered + 1]
<1>1. entered' = entered + 1 /\ entered \in Nat /\ db' = db /\ lines' = lines
  BY EnteredLine DEF Types
<1>2. CASE l \in CommunityLines
  <2>1. l.op = "community" /\ l.name \in db.snmp_communities
        /\ target'.snmp_communities = target.snmp_communities \cup {l.name}
    BY <1>2, CommunityIsEntered
  <2>2. QED
    BY <1>1, <2>1 DEF CommunitiesEntered
<1>3. CASE l \notin CommunityLines
  <2>1. target'.snmp_communities = target.snmp_communities /\ l.op # "community"
    <3>1. CASE l \in SettingLines
      BY <3>1, SettingIsEntered DEF Leaves
    <3>2. ASSUME NEW t \in db.traps, IsHostLineOf(l, t) PROVE <2>1
      BY <3>2, HostIsEntered DEF Leaves, IsHostLineOf
    <3>3. ASSUME NEW u \in db.users, l = UserLine(u) PROVE <2>1
      BY <3>3, UserIsEntered, UserLineRead, RowsAreTyped DEF Leaves
    <3>4. QED
      BY <1>3, <3>1, <3>2, <3>3, EnteredLine
  <2>2. QED
    BY <1>1, <2>1 DEF CommunitiesEntered
<1>4. QED
  BY <1>2, <1>3

\* Rows named or secured alike.
LEMMA AlikeRows ==
  ASSUME NEW A, NEW B, NEW x \in A
  PROVE  /\ Named(A) \subseteq Named(B) => \E y \in B : y.receiver = x.receiver /\ y.name = x.name
         /\ Secured(A) \subseteq Secured(B) => \E y \in B : y.name = x.name /\ y.security = x.security
<1>1. ASSUME Named(A) \subseteq Named(B)
      PROVE  \E y \in B : y.receiver = x.receiver /\ y.name = x.name
  <2>1. <<x.receiver, x.name>> \in Named(B)
    BY <1>1 DEF Named
  <2>2. PICK y \in B : <<x.receiver, x.name>> = <<y.receiver, y.name>>
    BY <2>1 DEF Named
  <2>3. QED
    BY <2>2
<1>2. ASSUME Secured(A) \subseteq Secured(B)
      PROVE  \E y \in B : y.name = x.name /\ y.security = x.security
  <2>1. <<x.name, x.security>> \in Secured(B)
    BY <1>2 DEF Secured
  <2>2. PICK y \in B : <<x.name, x.security>> = <<y.name, y.security>>
    BY <2>1 DEF Secured
  <2>3. QED
    BY <2>2
<1>3. QED
  BY <1>1, <1>2

LEMMA UsersEnteredKept ==
  ASSUME Types, LinesAreOfRows, SettingsEntered, CommunitiesEntered, UsersEntered, Enter
  PROVE  UsersEntered'
<1>. DEFINE l == lines[entered + 1]
<1>1. entered' = entered + 1 /\ entered \in Nat /\ db' = db /\ lines' = lines
  BY EnteredLine DEF Types
<1>2. ASSUME NEW u \in db.users, l = UserLine(u) PROVE UsersEntered'
  <2>1. <<u.name, u.security>> \in Secured(db.users)
    BY <1>2 DEF Secured
  <2>2. Secured(target'.users) = Secured(target.users) \cup {<<u.name, u.security>>}
    <3>1. CASE target'.users = target.users /\ snmp_v3_user_exists(target, u.name)
      <4>1. PICK v \in target.users : v.name = u.name
        BY <3>1 DEF snmp_v3_user_exists
      <4>2. PICK w \in db.users : w.name = v.name /\ w.security = v.security
        BY <4>1, AlikeRows DEF UsersEntered
      <4>3. w = u
        BY <1>2, <4>1, <4>2, RowsAreTyped
      <4>4. <<u.name, u.security>> \in Secured(target.users)
        BY <4>1, <4>2, <4>3 DEF Secured
      <4>5. QED
        BY <3>1, <4>4
    <3>2. CASE \E x : x.name = u.name /\ x.security = u.security /\ target'.users = target.users \cup {x}
      BY <3>2 DEF Secured
    <3>3. QED
      BY <1>2, <3>1, <3>2, UserIsEntered
  <2>3. \A w \in db.users : UserLine(w) = UserLine(u) => w = u
    BY <1>2, UserLineRead, RowsAreTyped
  <2>4. QED
    BY <1>1, <1>2, <2>1, <2>2, <2>3 DEF UsersEntered
<1>3. CASE ~\E u \in db.users : l = UserLine(u)
  <2>1. target'.users = target.users
    <3>1. CASE l \in SettingLines
      BY <3>1, SettingIsEntered DEF Leaves
    <3>2. CASE l \in CommunityLines
      BY <3>2, CommunityIsEntered DEF Leaves
    <3>3. ASSUME NEW t \in db.traps, IsHostLineOf(l, t) PROVE <2>1
      BY <3>3, HostIsEntered DEF Leaves
    <3>4. QED
      BY <1>3, <3>1, <3>2, <3>3, EnteredLine
  <2>2. QED
    BY <1>1, <1>3, <2>1 DEF UsersEntered
<1>4. QED
  BY <1>2, <1>3

\* There is room for a receiver the fresh switch does not have yet.
LEMMA RoomIsLeft ==
  ASSUME Types, TrapsEntered, NEW t \in db.traps, \A x \in target.traps : x.receiver # t.receiver
  PROVE  Cardinality(target.traps) \in Nat /\ Cardinality(target.traps) <= MAX_ALLOWED_SNMP_TRAPS
<1>. DEFINE rest == db.traps \ {t}
            rowOf == [x \in target.traps |-> CHOOSE y \in rest : y.receiver = x.receiver]
<1>1. /\ IsFiniteSet(db.traps) /\ Cardinality(db.traps) \in Nat
      /\ Cardinality(db.traps) <= MAX_ALLOWED_SNMP_TRAPS + 1
  BY RowsAreTyped, FS_CardinalityType
<1>2. IsFiniteSet(rest) /\ Cardinality(rest) = Cardinality(db.traps) - 1
  BY <1>1, FS_RemoveElement
<1>3. ASSUME NEW x \in target.traps PROVE \E y \in rest : y.receiver = x.receiver
  <2>1. <<x.receiver, x.name>> \in Named(db.traps)
    BY DEF TrapsEntered, Named
  <2>2. PICK y \in db.traps : y.receiver = x.receiver
    BY <2>1 DEF Named
  <2>3. y # t
    BY <2>2
  <2>4. QED
    BY <2>2, <2>3
<1>4. \A x \in target.traps : rowOf[x] \in rest /\ rowOf[x].receiver = x.receiver
  BY <1>3
<1>5. rowOf \in [target.traps -> rest]
  BY <1>3
<1>. HIDE DEF rowOf
<1>6. rowOf \in Injection(target.traps, rest)
  BY <1>4, <1>5 DEF TrapsEntered, Injection, IsInjective
<1>7. IsFiniteSet(target.traps) /\ Cardinality(target.traps) <= Cardinality(rest)
  BY <1>2, <1>6, FS_Injection
<1>8. Cardinality(target.traps) \in Nat
  BY <1>7, FS_CardinalityType
<1>9. QED
  BY <1>1, <1>2, <1>7, <1>8, SnmpCommandsAssumption

LEMMA TrapsEnteredKept ==
  ASSUME Types, LinesAreOfRows, SettingsEntered, CommunitiesEntered, TrapsEntered, Enter
  PROVE  TrapsEntered'
<1>. DEFINE l == lines[entered + 1]
<1>1. entered' = entered + 1 /\ entered \in Nat /\ db' = db /\ lines' = lines /\ NoVersion3' = NoVersion3
  BY EnteredLine DEF Types, NoVersion3
<1>2. ASSUME NEW t \in db.traps, IsHostLineOf(l, t) PROVE TrapsEntered'
  <2>1. \A u \in db.traps : IsHostLineOf(l, u) => u = t
    BY <1>2, HostLineRead, RowsAreTyped
  <2>2. <<t.receiver, t.name>> \in Named(db.traps)
    BY <1>2 DEF Named
  <2>. DEFINE refused == HostRefused(target, Cardinality(target.traps), t.receiver, t.name)
  <2>3. CASE target'.traps = target.traps /\ (~IsHostCommand(l) \/ refused)
    <3>1. NoVersion3 => <<t.receiver, t.name>> \in Named(target.traps)
      <4>. SUFFICES ASSUME NoVersion3 PROVE <<t.receiver, t.name>> \in Named(target.traps)
        OBVIOUS
      <4>1. t.receiver.version # "v3" /\ t.receiver.address \notin BadAddresses
        BY <1>2, RowsAreTyped DEF NoVersion3
      <4>2. refused
        BY <1>2, <2>3, <4>1, HostLineRead, RowsAreTyped
      <4>3. \E x \in target.traps : x.receiver = t.receiver
        BY <1>2, <4>1, <4>2, RoomIsLeft, SnmpCommandsAssumption DEF HostRefused
      <4>4. PICK x \in target.traps : x.receiver = t.receiver
        BY <4>3
      <4>5. PICK y \in db.traps : y.receiver = x.receiver /\ y.name = x.name
        <5>1. Named(target.traps) \subseteq Named(db.traps)
          BY DEF TrapsEntered
        <5>2. QED
          BY <4>4, <5>1, AlikeRows
      <4>6. y = t
        BY <1>2, <4>4, <4>5, RowsAreTyped
      <4>7. QED
        BY <4>4, <4>5, <4>6 DEF Named
    <3>2. \A u \in db.traps : \A i \in 1 .. entered + 1 :
            NoVersion3 /\ IsHostLineOf(lines[i], u) => <<u.receiver, u.name>> \in Named(target.traps)
      <4>1. ASSUME NEW u \in db.traps, NEW i \in 1 .. entered + 1, NoVersion3, IsHostLineOf(lines[i], u)
            PROVE  <<u.receiver, u.name>> \in Named(target.traps)
        <5>1. CASE i = entered + 1
          BY <2>1, <3>1, <4>1, <5>1
        <5>2. CASE i \in 1 .. entered
          BY <4>1, <5>2 DEF TrapsEntered
        <5>3. QED
          BY <1>1, <5>1, <5>2
      <4>2. QED
        BY <4>1
    <3>3. QED
      BY <1>1, <2>3, <3>2 DEF TrapsEntered, IsHostLineOf
  <2>4. ASSUME ~refused, NEW x, x.receiver = t.receiver, x.name = t.name,
               target'.traps = target.traps \cup {x}
        PROVE  TrapsEntered'
    <3>1. \A y \in target.traps : y.receiver # t.receiver
      BY <2>4 DEF HostRefused
    <3>2. Named(target'.traps) = Named(target.traps) \cup {<<t.receiver, t.name>>}
      BY <2>4 DEF Named
    <3>3. IsFiniteSet(target'.traps)
      BY <2>4, FS_AddElement DEF TrapsEntered
    <3>4. \A y, z \in target'.traps : y.receiver = z.receiver => y = z
      BY <2>4, <3>1 DEF TrapsEntered
    <3>5. \A u \in db.traps : \A i \in 1 .. entered + 1 :
            NoVersion3 /\ IsHostLineOf(lines[i], u) => <<u.receiver, u.name>> \in Named(target'.traps)
      <4>1. ASSUME NEW u \in db.traps, NEW i \in 1 .. entered + 1, NoVersion3, IsHostLineOf(lines[i], u)
            PROVE  <<u.receiver, u.name>> \in Named(target'.traps)
        <5>1. CASE i = entered + 1
          BY <2>1, <3>2, <4>1, <5>1
        <5>2. CASE i \in 1 .. entered
          BY <3>2, <4>1, <5>2 DEF TrapsEntered
        <5>3. QED
          BY <1>1, <5>1, <5>2
      <4>2. QED
        BY <4>1
    <3>6. Named(target'.traps) \subseteq Named(db'.traps)
      BY <1>1, <2>2, <3>2 DEF TrapsEntered
    <3>7. QED
      BY <1>1, <3>3, <3>4, <3>5, <3>6 DEF TrapsEntered, IsHostLineOf
  <2>5. QED
    BY <1>2, <2>3, <2>4, HostIsEntered
<1>3. CASE ~\E t \in db.traps : IsHostLineOf(l, t)
  <2>1. target'.traps = target.traps
    <3>1. CASE l \in SettingLines
      BY <3>1, SettingIsEntered DEF Leaves
    <3>2. CASE l \in CommunityLines
      BY <3>2, CommunityIsEntered DEF Leaves
    <3>3. ASSUME NEW u \in db.users, l = UserLine(u) PROVE <2>1
      BY <3>3, UserIsEntered DEF Leaves
    <3>4. QED
      BY <1>3, <3>1, <3>2, <3>3, EnteredLine
  <2>2. QED
    BY <1>1, <1>3, <2>1 DEF TrapsEntered, IsHostLineOf
<1>4. QED
  BY <1>2, <1>3

-----------------------------------------------------------------------------
(* The invariant and the theorems.                                         *)

LEMMA InitIInv ==
  ASSUME Init
  PROVE  IInv
<1>1. Types
  BY DEF Init, Types, Flags
<1>2. \A k \in SettingKeys : Empty.other_config[k] = Unset
  BY DEF Empty
<1>3. SettingsEntered /\ CommunitiesEntered /\ UsersEntered /\ TrapsEntered
  BY <1>2, FS_EmptySet DEF Init, Empty, SettingsEntered, CommunitiesEntered, UsersEntered, TrapsEntered,
     OtherConfigs, Named, Secured
<1>4. LinesAreOfRows /\ RowsHaveLines /\ FlagsAreOfRows
  BY DEF Init, LinesAreOfRows, RowsHaveLines, FlagsAreOfRows
<1>5. QED
  BY <1>1, <1>3, <1>4 DEF IInv

\* Printing enters nothing, and the lines that are entered stay.
LEMMA NothingEntered ==
  ASSUME Types, SettingsEntered, CommunitiesEntered, UsersEntered, TrapsEntered,
         UNCHANGED <<db, entered, target>>, \A i \in 1 .. entered : lines'[i] = lines[i]
  PROVE  SettingsEntered' /\ CommunitiesEntered' /\ UsersEntered' /\ TrapsEntered'
BY DEF SettingsEntered, CommunitiesEntered, UsersEntered, TrapsEntered, NoVersion3, IsHostLineOf

LEMMA StepIInv ==
  ASSUME IInv, [Next]_vars
  PROVE  IInv'
<1>. USE DEF IInv
<1>1. CASE PrintSystem
  <2>1. entered = 0
    BY <1>1 DEF PrintSystem, Types
  <2>2. FlagsAreOfRows'
    BY <1>1 DEF PrintSystem, FlagsAreOfRows, NoVersion3
  <2>3. QED
    BY <1>1, <2>1, <2>2, SystemPrinted, NothingEntered DEF PrintSystem
<1>2. CASE PrintTrap
  <2>1. PICK t \in traps_left : lines' = Append(lines, HostLine(t, flags'))
    BY <1>2 DEF PrintTrap
  <2>2. \A i \in 1 .. entered : lines'[i] = lines[i]
    BY <2>1 DEF Types
  <2>3. QED
    BY <1>2, <2>2, TrapPrinted, NothingEntered DEF PrintTrap
<1>3. CASE PrintUser
  <2>1. PICK u \in users_left : lines' = Append(lines, UserLine(u))
    BY <1>3 DEF PrintUser
  <2>2. \A i \in 1 .. entered : lines'[i] = lines[i]
    BY <2>1 DEF Types
  <2>3. QED
    BY <1>3, <2>2, UserPrinted, NothingEntered DEF PrintUser
<1>4. CASE Printed \/ UNCHANGED vars
  <2>1. UNCHANGED <<db, traps_left, users_left, flags, lines, entered, target>>
    BY <1>4 DEF Printed, vars
  <2>2. SettingLines' = SettingLines /\ CommunityLines' = CommunityLines /\ Shown' = Shown
        /\ NoVersion3' = NoVersion3
    BY <2>1 DEF SettingLines, CommunityLines, IsShown, Shown, NoVersion3
  <2>3. Types'
    BY <1>4, <2>1, <2>2 DEF Types, Printed, vars
  <2>4. LinesAreOfRows' /\ RowsHaveLines' /\ FlagsAreOfRows'
    BY <1>4, <2>1, <2>2 DEF LinesAreOfRows, RowsHaveLines, FlagsAreOfRows, IsHostLineOf, Printed, vars
  <2>5. QED
    BY <2>1, <2>3, <2>4, NothingEntered
<1>5. CASE Enter
  <2>1. /\ entered + 1 \in 1 .. Len(lines) /\ entered' = entered + 1
        /\ UNCHANGED <<db, traps_left, users_left, flags, lines, phase>>
    BY <1>5, EnteredLine
  <2>2. SettingLines' = SettingLines /\ CommunityLines' = CommunityLines /\ Shown' = Shown
        /\ NoVersion3' = NoVersion3
    BY <2>1 DEF SettingLines, CommunityLines, IsShown, Shown, NoVersion3
  <2>3. Types'
    BY <2>1, <2>2 DEF Types
  <2>4. LinesAreOfRows' /\ RowsHaveLines' /\ FlagsAreOfRows'
    BY <2>1, <2>2 DEF LinesAreOfRows, RowsHaveLines, FlagsAreOfRows, IsHostLineOf
  <2>5. QED
    BY <1>5, <2>3, <2>4, SettingsEnteredKept, CommunitiesEnteredKept, UsersEnteredKept, TrapsEnteredKept
<1>6. QED
  BY <1>1, <1>2, <1>3, <1>4, <1>5 DEF Next

LEMMA AlwaysIInv == Spec => []IInv
BY InitIInv, StepIInv, PTL DEF Spec

\* For every database one session can configure and every order of its rows, a line
\* configures no receiver, user or community that the shown switch does not have:
\* a flag left over from another row makes a line no command, or one with the same
\* meaning.
THEOREM NothingIsInvented == Spec => []ReplayInventsNothing
<1>1. IInv => ReplayInventsNothing
  BY DEF IInv, TrapsEntered, UsersEntered, CommunitiesEntered, ReplayInventsNothing
<1>2. QED
  BY <1>1, AlwaysIInv, PTL

\* Any number of receivers up to the limit comes back from the shown lines when none
\* is of version 3.
THEOREM AllReceiversComeBack == Spec => []ReceiversComeBack
<1>1. ASSUME IInv, Replayed, NoVersion3 PROVE Named(target.traps) = Named(db.traps)
  <2>1. ASSUME NEW t \in db.traps PROVE <<t.receiver, t.name>> \in Named(target.traps)
    BY <1>1 DEF IInv, Types, Replayed, RowsHaveLines, TrapsEntered
  <2>2. Named(db.traps) \subseteq Named(target.traps)
    BY <2>1 DEF Named
  <2>3. QED
    BY <1>1, <2>2 DEF IInv, TrapsEntered
<1>2. IInv => ReceiversComeBack
  BY <1>1 DEF ReceiversComeBack, NoVersion3
<1>3. QED
  BY <1>2, AlwaysIInv, PTL

\* Communities, users and settings come back from the shown lines, whatever receivers
\* there are; the description only when it does not begin with the version.
THEOREM AllTheRestComesBack == Spec => []RestComesBack
<1>1. ASSUME IInv, Replayed
      PROVE  /\ target.snmp_communities = db.snmp_communities
             /\ Secured(target.users) = Secured(db.users)
             /\ \A k \in SettingKeys : IsShown(k) \/ db.other_config[k] = Unset =>
                  target.other_config[k] = db.other_config[k]
  <2>1. \A l \in SettingLines \cup CommunityLines : \E i \in 1 .. entered : lines[i] = l
    BY <1>1 DEF IInv, Replayed, RowsHaveLines
  <2>2. ASSUME NEW n \in db.snmp_communities PROVE n \in target.snmp_communities
    <3>1. [op |-> "community", name |-> n] \in CommunityLines
      BY DEF CommunityLines
    <3>2. PICK i \in 1 .. entered : lines[i] = [op |-> "community", name |-> n]
      BY <2>1, <3>1
    <3>3. lines[i].op = "community" /\ lines[i].name = n
      BY <3>2
    <3>4. QED
      BY <1>1, <3>3 DEF IInv, CommunitiesEntered
  <2>3. ASSUME NEW u \in db.users PROVE <<u.name, u.security>> \in Secured(target.users)
    BY <1>1 DEF IInv, Types, Replayed, RowsHaveLines, UsersEntered
  <2>4. Secured(db.users) \subseteq Secured(target.users)
    BY <2>3 DEF Secured
  <2>5. ASSUME NEW k \in SettingKeys, IsShown(k) PROVE target.other_config[k] = db.other_config[k]
    <3>. DEFINE l == [op |-> "set", key |-> k, value |-> db.other_config[k]]
    <3>1. l \in SettingLines
      BY <2>5 DEF SettingLines
    <3>2. PICK i \in 1 .. entered : lines[i] = l
      BY <2>1, <3>1
    <3>3. lines[i].op = "set" /\ lines[i].key = k
      BY <3>2
    <3>4. QED
      BY <1>1, <3>3 DEF IInv, SettingsEntered
  <2>6. ASSUME NEW k \in SettingKeys, db.other_config[k] = Unset
        PROVE  target.other_config[k] = db.other_config[k]
    BY <1>1, <2>6 DEF IInv, SettingsEntered
  <2>7. QED
    BY <1>1, <2>2, <2>4, <2>5, <2>6 DEF IInv, CommunitiesEntered, UsersEntered
<1>2. IInv => RestComesBack
  BY <1>1 DEF RestComesBack, IsShown
<1>3. QED
  BY <1>2, AlwaysIInv, PTL
=============================================================================
