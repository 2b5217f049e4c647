--------------------------- MODULE SnmpCli_proofs ---------------------------
(***************************************************************************)
(* Proofs about SnmpCli for any number of sessions, commands and limits:   *)
(* what a session's own checks are worth although its replica lags behind  *)
(* and its transactions are applied among those of the others.             *)
(***************************************************************************)
EXTENDS SnmpCli, FiniteSetTheorems, TLAPS

\* A transaction inserts one row at most, and a trap only of the session's own,
\* for a receiver its replica lacks and below the limit of its count.
InsertsOne(tx) ==
  \/ tx.traps = {} /\ tx.users = {}
  \/ tx.users = {} /\ \E t \in TrapRows(Uuids, Sessions) : tx.traps = {t}
  \/ tx.traps = {} /\ \E u \in UserRows(Uuids) : tx.users = {u}

Announced(s, tx) ==
  /\ InsertsOne(tx)
  /\ \A t \in tx.traps : /\ t.by = s
                         /\ trap_count[s] <= MAX_ALLOWED_SNMP_TRAPS
                         /\ \A u \in replica[s].traps : u.receiver # t.receiver

Within(communities) ==
  IsFiniteSet(communities) /\ Cardinality(communities) <= MAX_ALLOWED_SNMP_COMMUNITIES

\* What a session has inserted and may still change is in its replica.
OwnAreSeen == \A s \in Sessions : \A t \in db.traps : t.by = s => t \in replica[s].traps

Own(s) == {t \in db.traps : t.by = s}

Counted ==
  \A s \in Sessions : /\ IsFiniteSet(Own(s))
                      /\ Cardinality(Own(s)) <= trap_count[s]
                      /\ trap_count[s] <= MAX_ALLOWED_SNMP_TRAPS + 1

\* The limit holds wherever a set of communities is kept or on its way.
CommunitiesKept ==
  /\ Within(db.snmp_communities)
  /\ \A s \in Sessions : Within(replica[s].snmp_communities)
  /\ \A s \in Sessions : txn[s] # Nothing => txn[s].snmp_communities = Keep \/ Within(txn[s].snmp_communities)

TransactionsAnnounced == \A s \in Sessions : txn[s] # Nothing => Announced(s, txn[s])

\* Applied to the contents it was computed from, a transaction keeps them
\* consistent.
Harmless(content, tx) ==
  /\ \A t \in tx.traps, u \in content.traps : u.receiver # t.receiver
  /\ \A t \in tx.traps : t.receiver.version = "v3" =>
       \E u \in content.users : u.name = t.name /\ u.uuid \notin tx.deleted
  /\ \A u \in tx.users, v \in content.users : u.name # v.name
  /\ \A t \in content.traps, u \in content.users :
       t.uuid \notin tx.deleted /\ t.receiver.version = "v3" /\ u.name = t.name => u.uuid \notin tx.deleted

TransactionsHarmless == \A s \in Sessions : txn[s] # Nothing => Harmless(replica[s], txn[s])

UuidsOf(rows) == {t.uuid : t \in rows.traps} \cup {u.uuid : u \in rows.users}

\* A uuid names one user, and no trap as well.
Identified(content) ==
  /\ \A u, v \in content.users : u.uuid = v.uuid => u = v
  /\ \A t \in content.traps, u \in content.users : t.uuid # u.uuid

UuidsAreFresh ==
  /\ Identified(db) /\ \A s \in Sessions : Identified(replica[s])
  /\ UuidsOf(db) \subseteq 1 .. commands
  /\ \A s \in Sessions : txn[s] # Nothing =>
       UuidsOf(txn[s]) \subseteq 1 .. commands /\ UuidsOf(txn[s]) \cap UuidsOf(db) = {}
  /\ \A s, r \in Sessions : s # r /\ txn[s] # Nothing /\ txn[r] # Nothing =>
       UuidsOf(txn[s]) \cap UuidsOf(txn[r]) = {}

IInv ==
  /\ TypeOK /\ TransactionsAnnounced /\ OwnAreSeen /\ SameReceiverDifferentSessions
  /\ Counted /\ CommunitiesKept /\ UuidsAreFresh /\ TransactionsHarmless

-----------------------------------------------------------------------------
(* What the commands send.                                                 *)

LEMMA NothingChanges == NoChange \in Transactions
BY SnmpCommandsAssumption DEF NoChange, Transactions

LEMMA NextUuid ==
  ASSUME TypeOK, commands < MaxCommands
  PROVE  commands + 1 \in Uuids
BY SnmpCliAssumption DEF TypeOK, Uuids

\* A transaction that inserts nothing is announced.
LEMMA InsertsNothing ==
  ASSUME NEW s, NEW tx, tx.traps = {}, tx.users = {}
  PROVE  Announced(s, tx)
BY DEF Announced, InsertsOne

\* What every command has in common.
Proper(s, tx) ==
  /\ tx \in Transactions
  /\ Announced(s, tx)
  /\ Harmless(replica[s], tx)
  /\ tx.snmp_communities = Keep \/ Within(tx.snmp_communities)
  /\ UuidsOf(tx) \subseteq {commands + 1}

LEMMA HostConfig ==
  ASSUME TypeOK, commands < MaxCommands,
         NEW s \in Sessions, NEW r \in Receivers, NEW name \in NamesFor(r),
         ~HostRefused(replica[s], trap_count[s], r, name)
  PROVE  Proper(s, HostConfigured(commands + 1, r, name, s))
<1> DEFINE row == [uuid |-> commands + 1, receiver |-> r, name |-> name, by |-> s]
           tx == HostConfigured(commands + 1, r, name, s)
<1>1. row \in TrapRows(Uuids, Sessions)
  BY NextUuid DEF TrapRows, NamesFor
<1>2. tx \in Transactions /\ tx.traps = {row} /\ tx.users = {} /\ tx.deleted = {} /\ tx.snmp_communities = Keep
  BY <1>1, NothingChanges DEF HostConfigured, NoChange, Transactions
<1>3. trap_count[s] <= MAX_ALLOWED_SNMP_TRAPS
  BY SnmpCommandsAssumption DEF HostRefused, TypeOK
<1>4. \A u \in replica[s].traps : u.receiver # r
  BY DEF HostRefused
<1>5. r.version = "v3" => \E u \in replica[s].users : u.name = name
  BY DEF HostRefused, snmp_v3_user_exists
<1> HIDE DEF tx
<1>6. Announced(s, tx)
  BY <1>1, <1>2, <1>3, <1>4 DEF Announced, InsertsOne
<1>7. Harmless(replica[s], tx)
  BY <1>2, <1>4, <1>5 DEF Harmless
<1>8. UuidsOf(tx) \subseteq {commands + 1}
  BY <1>2 DEF UuidsOf
<1>9. QED
  BY <1>2, <1>6, <1>7, <1>8 DEF Proper, tx

LEMMA HostUnconfig ==
  ASSUME TypeOK, NEW s \in Sessions, NEW r \in Receivers, Identified(replica[s])
  PROVE  Proper(s, HostUnconfigured(replica[s], r))
<1> DEFINE tx == HostUnconfigured(replica[s], r)
<1>1. replica[s].traps \subseteq TrapRows(Uuids, Sessions \cup {Nobody})
  BY DEF TypeOK, Contents
<1>2. {t.uuid : t \in {x \in replica[s].traps : x.receiver = r}} \subseteq Uuids
  BY <1>1 DEF TrapRows
<1>3. /\ tx \in Transactions /\ tx.traps = {} /\ tx.users = {} /\ tx.snmp_communities = Keep
      /\ tx.deleted = {t.uuid : t \in {x \in replica[s].traps : x.receiver = r}}
  BY <1>2, NothingChanges DEF HostUnconfigured, NoChange, Transactions
<1> HIDE DEF tx
<1>4. Harmless(replica[s], tx)
  BY <1>3 DEF Harmless, Identified
<1>5. QED
  BY <1>3, <1>4, InsertsNothing DEF Proper, UuidsOf, tx

LEMMA Configure ==
  ASSUME TypeOK, NEW s \in Sessions, NEW key \in SettingKeys, NEW value \in Values \cup {Reset(key)}
  PROVE  Proper(s, Setting(replica[s], key, value))
<1> DEFINE tx == Setting(replica[s], key, value)
<1>1. [replica[s].other_config EXCEPT ![key] = value] \in OtherConfigs
  BY DEF TypeOK, Contents, OtherConfigs, Reset
<1>2. /\ tx \in Transactions /\ tx.traps = {} /\ tx.users = {} /\ tx.snmp_communities = Keep
      /\ tx.deleted = {}
  BY <1>1, NothingChanges DEF Setting, NoChange, Transactions
<1> HIDE DEF tx
<1>3. QED
  BY <1>2, InsertsNothing DEF Proper, Harmless, UuidsOf, tx

LEMMA CommunityConfig ==
  ASSUME TypeOK, NEW s \in Sessions, NEW c \in CommunityNames, Within(replica[s].snmp_communities),
         ~CommunityRefused(replica[s], c)
  PROVE  Proper(s, CommunityConfigured(replica[s], c))
<1> DEFINE tx == CommunityConfigured(replica[s], c)
           old == replica[s].snmp_communities
<1>1. old \cup {c} \in SUBSET CommunityNames
  BY DEF TypeOK, Contents
<1>2. /\ tx \in Transactions /\ tx.traps = {} /\ tx.users = {} /\ tx.snmp_communities = old \cup {c}
      /\ tx.deleted = {}
  BY <1>1, NothingChanges DEF CommunityConfigured, NoChange, Transactions
<1>3. Within(old \cup {c})
  <2>1. /\ IsFiniteSet(old) /\ c \notin old /\ Cardinality(old) <= MAX_ALLOWED_SNMP_COMMUNITIES
        /\ Cardinality(old) # MAX_ALLOWED_SNMP_COMMUNITIES
    BY DEF CommunityRefused, Within
  <2>2. Cardinality(old) \in Nat
    BY <2>1, FS_CardinalityType
  <2>3. IsFiniteSet(old \cup {c}) /\ Cardinality(old \cup {c}) = Cardinality(old) + 1
    BY <2>1, FS_AddElement
  <2>4. QED
    BY <2>1, <2>2, <2>3, SnmpCommandsAssumption DEF Within
<1> HIDE DEF tx
<1>4. QED
  BY <1>2, <1>3, InsertsNothing DEF Proper, Harmless, UuidsOf, tx

LEMMA CommunityRemove ==
  ASSUME TypeOK, NEW s \in Sessions, NEW c, Within(replica[s].snmp_communities)
  PROVE  Proper(s, CommunityRemoved(replica[s], c))
<1> DEFINE tx == CommunityRemoved(replica[s], c)
           old == replica[s].snmp_communities
<1>1. old \ {c} \in SUBSET CommunityNames
  BY DEF TypeOK, Contents
<1>2. /\ tx \in Transactions /\ tx.traps = {} /\ tx.users = {} /\ tx.snmp_communities = old \ {c}
      /\ tx.deleted = {}
  BY <1>1, NothingChanges DEF CommunityRemoved, NoChange, Transactions
<1>3. Within(old \ {c})
  <2>1. IsFiniteSet(old) /\ Cardinality(old) <= MAX_ALLOWED_SNMP_COMMUNITIES
    BY DEF Within
  <2>2. Cardinality(old) \in Nat
    BY <2>1, FS_CardinalityType
  <2>3. /\ IsFiniteSet(old \ {c})
        /\ Cardinality(old \ {c}) = IF c \in old THEN Cardinality(old) - 1 ELSE Cardinality(old)
    BY <2>1, FS_RemoveElement
  <2>4. QED
    BY <2>1, <2>2, <2>3, SnmpCommandsAssumption DEF Within
<1> HIDE DEF tx
<1>4. QED
  BY <1>2, <1>3, InsertsNothing DEF Proper, Harmless, UuidsOf, tx

LEMMA UserConfig ==
  ASSUME TypeOK, commands < MaxCommands, NEW s \in Sessions, NEW user \in UserNames, NEW security \in Securities,
         ~snmp_v3_user_exists(replica[s], user)
  PROVE  Proper(s, UserConfigured(commands + 1, user, security))
<1> DEFINE row == [uuid |-> commands + 1, name |-> user, security |-> security]
           tx == UserConfigured(commands + 1, user, security)
<1>1. row \in UserRows(Uuids)
  BY NextUuid DEF UserRows
<1>2. tx \in Transactions /\ tx.traps = {} /\ tx.users = {row} /\ tx.deleted = {} /\ tx.snmp_communities = Keep
  BY <1>1, NothingChanges DEF UserConfigured, NoChange, Transactions
<1>3. \A v \in replica[s].users : v.name # user
  BY DEF snmp_v3_user_exists
<1> HIDE DEF tx
<1>4. Announced(s, tx)
  BY <1>1, <1>2 DEF Announced, InsertsOne
<1>5. Harmless(replica[s], tx)
  BY <1>2, <1>3 DEF Harmless
<1>6. UuidsOf(tx) \subseteq {commands + 1}
  BY <1>2 DEF UuidsOf
<1>7. QED
  BY <1>2, <1>4, <1>5, <1>6 DEF Proper, tx

LEMMA UserUnconfig ==
  ASSUME TypeOK, NEW s \in Sessions, NEW user \in UserNames, Identified(replica[s]),
         ~UserIsReceiver(replica[s], user)
  PROVE  Proper(s, UserUnconfigured(replica[s], user))
<1> DEFINE tx == UserUnconfigured(replica[s], user)
           gone == {u.uuid : u \in {x \in replica[s].users : x.name = user}}
<1>1. replica[s].users \subseteq UserRows(Uuids)
  BY DEF TypeOK, Contents
<1>2. gone \subseteq Uuids
  BY <1>1 DEF UserRows
<1>3. tx \in Transactions /\ tx.traps = {} /\ tx.users = {} /\ tx.snmp_communities = Keep /\ tx.deleted = gone
  BY <1>2, NothingChanges DEF UserUnconfigured, NoChange, Transactions
<1> HIDE DEF tx
<1>4. \A t \in replica[s].traps : t.name # user
  BY DEF UserIsReceiver
<1>5. \A t \in replica[s].traps, u \in replica[s].users : u.name = t.name => u.uuid \notin gone
  BY <1>4 DEF Identified
<1>6. Harmless(replica[s], tx)
  BY <1>3, <1>5 DEF Harmless
<1>7. QED
  BY <1>3, <1>6, InsertsNothing DEF Proper, UuidsOf, tx

\* Every command sends a proper transaction.
LEMMA CommandSends ==
  ASSUME TypeOK, CommunitiesKept, UuidsAreFresh, NEW s \in Sessions, Command(s)
  PROVE  \E tx : Proper(s, tx) /\ Send(s, tx) /\ Idle(s)
<1>0. Within(replica[s].snmp_communities) /\ Identified(replica[s])
  BY DEF CommunitiesKept, UuidsAreFresh
<1>1. CASE snmp_server_host_config(s)
  BY <1>1, HostConfig DEF snmp_server_host_config, Send
<1>2. CASE snmp_server_host_unconfig(s)
  BY <1>0, <1>2, HostUnconfig DEF snmp_server_host_unconfig
<1>3. CASE \E key : configure(s, key)
  BY <1>3, Configure DEF configure
<1>4. CASE configure_community_name(s)
  BY <1>0, <1>4, CommunityConfig DEF configure_community_name
<1>5. CASE remove_community_name(s)
  BY <1>0, <1>5, CommunityRemove DEF remove_community_name
<1>6. CASE configure_snmpv3_user(s)
  BY <1>6, UserConfig DEF configure_snmpv3_user, Send
<1>7. CASE unconfigure_snmpv3_user(s)
  BY <1>0, <1>7, UserUnconfig DEF unconfigure_snmpv3_user
<1>8. QED
  BY <1>1, <1>2, <1>3, <1>4, <1>5, <1>6, <1>7
     DEF Command, configure_snmp_agent_port, configure_snmp_system_description,
         configure_system_contact, configure_system_location

-----------------------------------------------------------------------------
(* Transactions that are applied, and rows that lose their author.         *)

LEMMA AppliedFields ==
  ASSUME NEW c, NEW tx
  PROVE  /\ Applied(tx, c).traps = {t \in c.traps : t.uuid \notin tx.deleted} \cup tx.traps
         /\ Applied(tx, c).users = {u \in c.users : u.uuid \notin tx.deleted} \cup tx.users
         /\ Applied(tx, c).snmp_communities =
              IF tx.snmp_communities = Keep THEN c.snmp_communities ELSE tx.snmp_communities
BY DEF Applied

LEMMA AppliedType ==
  ASSUME NEW c \in Contents, NEW tx \in Transactions
  PROVE  Applied(tx, c) \in Contents
<1>1. tx.traps \subseteq TrapRows(Uuids, Sessions \cup {Nobody})
  BY DEF Transactions, TrapRows
<1>2. QED
  BY <1>1 DEF Applied, Contents, Transactions

LEMMA DisownedFields ==
  ASSUME NEW c \in Contents, NEW s
  PROVE  /\ Disowned(c, s).traps = {IF t.by = s THEN [t EXCEPT !.by = Nobody] ELSE t : t \in c.traps}
         /\ Disowned(c, s).users = c.users
         /\ Disowned(c, s).snmp_communities = c.snmp_communities
BY DEF Disowned, Contents

LEMMA DisownedType ==
  ASSUME NEW c \in Contents, NEW s
  PROVE  Disowned(c, s) \in Contents
<1> DEFINE Row(t) == IF t.by = s THEN [t EXCEPT !.by = Nobody] ELSE t
<1>1. ASSUME NEW t \in c.traps
      PROVE  Row(t) \in TrapRows(Uuids, Sessions \cup {Nobody})
  BY DEF Contents, TrapRows
<1>2. Disowned(c, s).traps \subseteq TrapRows(Uuids, Sessions \cup {Nobody})
  <2>1. Disowned(c, s).traps = {Row(t) : t \in c.traps}
    BY DisownedFields
  <2> HIDE DEF Row
  <2>2. QED
    BY <1>1, <2>1
<1>3. /\ Disowned(c, s) = [c EXCEPT !.traps = Disowned(c, s).traps]
      /\ c \in [traps: SUBSET TrapRows(Uuids, Sessions \cup {Nobody}), users: SUBSET UserRows(Uuids),
                other_config: OtherConfigs, snmp_communities: SUBSET CommunityNames]
  BY DEF Disowned, Contents
<1>4. QED
  BY <1>2, <1>3 DEF Contents

\* The rows of the other sessions stay; of the others all but the author does.
LEMMA DisownedRows ==
  ASSUME NEW c \in Contents, NEW s
  PROVE  /\ \A t \in Disowned(c, s).traps : \E o \in c.traps :
              /\ o.uuid = t.uuid /\ o.receiver = t.receiver /\ o.name = t.name
              /\ (t = o /\ t.by # s) \/ t.by = Nobody
         /\ \A t \in c.traps : t.by # s => t \in Disowned(c, s).traps
<1> DEFINE Row(o) == IF o.by = s THEN [o EXCEPT !.by = Nobody] ELSE o
<1>1. c.traps \subseteq TrapRows(Uuids, Sessions \cup {Nobody})
  BY DEF Contents
<1>2. ASSUME NEW o \in c.traps
      PROVE  /\ o.uuid = Row(o).uuid /\ o.receiver = Row(o).receiver /\ o.name = Row(o).name
             /\ \/ Row(o) = o /\ Row(o).by # s
                \/ Row(o).by = Nobody
             /\ o.by # s => Row(o) = o
  BY <1>1, <1>2 DEF TrapRows
<1>3. Disowned(c, s).traps = {Row(o) : o \in c.traps}
  BY DisownedFields
<1> HIDE DEF Row
<1>4. QED
  BY <1>2, <1>3

-----------------------------------------------------------------------------
(* The types.                                                              *)

\* What a pending transaction adds to the count.
LEMMA CountedTraps ==
  ASSUME NEW s, NEW tx, Announced(s, tx)
  PROVE  /\ IsFiniteSet(tx.traps)
         /\ \/ tx.traps = {} /\ Cardinality(tx.traps) = 0
            \/ Cardinality(tx.traps) = 1 /\ \E t : tx.traps = {t}
<1>1. tx.traps = {} \/ \E t : tx.traps = {t}
  BY DEF Announced, InsertsOne
<1>2. CASE tx.traps = {}
  BY <1>2, FS_EmptySet
<1>3. CASE \E t : tx.traps = {t}
  BY <1>3, FS_Singleton
<1>4. QED
  BY <1>1, <1>2, <1>3

LEMMA TypesKept ==
  ASSUME IInv, [Next]_vars
  PROVE  TypeOK'
<1> USE DEF IInv
<1>1. ASSUME NEW s \in Sessions, Command(s)
      PROVE  TypeOK'
  <2>1. PICK tx : Proper(s, tx) /\ Send(s, tx)
    BY <1>1, CommandSends
  <2>2. txn' \in [Sessions -> Transactions \cup {Nothing}]
    BY <2>1 DEF Proper, Send, TypeOK
  <2>3. commands' \in 0 .. MaxCommands
    BY <2>1, SnmpCliAssumption DEF Send, TypeOK
  <2>4. QED
    BY <2>1, <2>2, <2>3 DEF Send, TypeOK
<1>2. ASSUME NEW s \in Sessions, Committed(s)
      PROVE  TypeOK'
  <2>1. txn[s] \in Transactions /\ Announced(s, txn[s])
    BY <1>2 DEF Committed, TypeOK, TransactionsAnnounced
  <2>2. db' \in Contents
    BY <1>2, <2>1, AppliedType DEF Committed, TypeOK
  <2>3. trap_count' \in [Sessions -> Nat]
    <3>1. trap_count[s] + Cardinality(txn[s].traps) \in Nat
      BY <2>1, CountedTraps DEF TypeOK
    <3>2. QED
      BY <1>2, <3>1 DEF Committed, TypeOK
  <2>4. QED
    BY <1>2, <2>2, <2>3 DEF Committed, TypeOK
<1>3. ASSUME NEW s \in Sessions, Failed(s) \/ Refresh(s)
      PROVE  TypeOK'
  BY <1>3 DEF Failed, Refresh, TypeOK
<1>4. ASSUME NEW s \in Sessions, Reopen(s)
      PROVE  TypeOK'
  <2>1. db' \in Contents
    BY <1>4, DisownedType DEF Reopen, TypeOK
  <2>2. \A r \in Sessions : Disowned(replica[r], s) \in Contents
    BY DisownedType DEF TypeOK
  <2>3. replica' \in [Sessions -> Contents]
    BY <1>4, <2>1, <2>2 DEF Reopen
  <2>4. reopens' \in 0 .. MaxReopens
    BY <1>4, SnmpCliAssumption DEF Reopen, TypeOK
  <2>5. QED
    BY <1>4, <2>1, <2>3, <2>4 DEF Reopen, TypeOK
<1>5. CASE UNCHANGED vars
  BY <1>5 DEF vars, TypeOK
<1>6. QED
  BY <1>1, <1>2, <1>3, <1>4, <1>5 DEF Next

-----------------------------------------------------------------------------
(* The invariants, one action at a time.                                   *)

LEMMA CommandKeeps ==
  ASSUME IInv, TypeOK', NEW s \in Sessions, Command(s)
  PROVE  IInv'
<1> USE DEF IInv
<1>1. PICK tx : Proper(s, tx) /\ Send(s, tx) /\ Idle(s)
  BY CommandSends
<1>2. /\ txn' = [txn EXCEPT ![s] = tx] /\ txn[s] = Nothing /\ commands' = commands + 1
      /\ UNCHANGED <<db, replica, trap_count, reopens>>
  BY <1>1 DEF Send, Idle
<1>3. txn'[s] = tx /\ \A r \in Sessions : r # s => txn'[r] = txn[r]
  BY <1>2 DEF TypeOK
<1>4. TransactionsAnnounced'
  <2>1. \A r \in Sessions : txn'[r] # Nothing => Announced(r, txn'[r])
    BY <1>1, <1>3 DEF Proper, TransactionsAnnounced
  <2>2. QED
    BY <1>2, <2>1 DEF TransactionsAnnounced, Announced
<1>5. OwnAreSeen' /\ SameReceiverDifferentSessions' /\ Counted'
  BY <1>2 DEF OwnAreSeen, SameReceiverDifferentSessions, Counted, Own
<1>6. CommunitiesKept'
  BY <1>1, <1>2, <1>3 DEF Proper, CommunitiesKept
<1>7. UuidsAreFresh'
  <2>1. commands \in Nat /\ commands + 1 \notin 1 .. commands /\ 1 .. commands \subseteq 1 .. commands'
    BY <1>2 DEF TypeOK
  <2>2. UuidsOf(tx) \subseteq 1 .. commands' /\ UuidsOf(tx) \cap (1 .. commands) = {}
    BY <1>1, <1>2, <2>1 DEF Proper
  <2>3. \A r \in Sessions : txn'[r] # Nothing =>
          UuidsOf(txn'[r]) \subseteq 1 .. commands' /\ UuidsOf(txn'[r]) \cap UuidsOf(db) = {}
    BY <1>3, <2>1, <2>2 DEF UuidsAreFresh
  <2>4. \A r \in Sessions : r # s /\ txn[r] # Nothing => UuidsOf(txn[r]) \subseteq 1 .. commands
    BY DEF UuidsAreFresh
  <2>5. \A q, r \in Sessions : q # r /\ txn'[q] # Nothing /\ txn'[r] # Nothing =>
          UuidsOf(txn'[q]) \cap UuidsOf(txn'[r]) = {}
    BY <1>3, <2>2, <2>4 DEF UuidsAreFresh
  <2>6. QED
    BY <1>2, <2>1, <2>3, <2>5 DEF UuidsAreFresh, Identified, UuidsOf
<1>8. TransactionsHarmless'
  BY <1>1, <1>2, <1>3 DEF Proper, TransactionsHarmless, Harmless
<1>9. QED
  BY <1>4, <1>5, <1>6, <1>7, <1>8

LEMMA CommittedKeeps ==
  ASSUME IInv, TypeOK', NEW s \in Sessions, Committed(s)
  PROVE  IInv'
<1> USE DEF IInv
<1> DEFINE tx == txn[s]
<1>1. /\ tx # Nothing /\ db' = Applied(tx, db) /\ txn'[s] = Nothing /\ replica'[s] = db'
      /\ trap_count'[s] = trap_count[s] + Cardinality(tx.traps)
      /\ \A r \in Sessions : r # s =>
           txn'[r] = txn[r] /\ replica'[r] = replica[r] /\ trap_count'[r] = trap_count[r]
      /\ commands' = commands
  BY DEF Committed, TypeOK
<1>2. tx \in Transactions /\ Announced(s, tx)
  BY <1>1 DEF TypeOK, TransactionsAnnounced
<1>3. /\ db'.traps = {t \in db.traps : t.uuid \notin tx.deleted} \cup tx.traps
      /\ db'.users = {u \in db.users : u.uuid \notin tx.deleted} \cup tx.users
      /\ db'.snmp_communities = IF tx.snmp_communities = Keep THEN db.snmp_communities ELSE tx.snmp_communities
  BY <1>1, AppliedFields
<1> HIDE DEF tx
<1>4. TransactionsAnnounced'
  <2>1. ASSUME NEW r \in Sessions, txn'[r] # Nothing
        PROVE  Announced(r, txn[r])'
    BY <1>1, <2>1 DEF TransactionsAnnounced, Announced, InsertsOne
  <2>2. QED
    BY <2>1 DEF TransactionsAnnounced
<1>5. \A t \in tx.traps : t.by = s
  BY <1>2 DEF Announced
<1>6. OwnAreSeen'
  BY <1>1, <1>3, <1>5 DEF OwnAreSeen
<1>7. SameReceiverDifferentSessions'
  <2>1. ASSUME NEW t \in tx.traps, NEW u \in db.traps, u.by = s
        PROVE  u.receiver # t.receiver
    BY <1>2, <2>1 DEF OwnAreSeen, Announced
  <2>2. \A t, u \in tx.traps : t = u
    BY <1>2 DEF Announced, InsertsOne
  <2>3. QED
    BY <1>3, <1>5, <2>1, <2>2 DEF SameReceiverDifferentSessions
<1>8. Counted'
  <2>1. ASSUME NEW r \in Sessions, r # s
        PROVE  /\ IsFiniteSet(Own(r)') /\ Cardinality(Own(r)') <= trap_count'[r]
               /\ trap_count'[r] <= MAX_ALLOWED_SNMP_TRAPS + 1
    <3>1. Own(r)' \subseteq Own(r)
      BY <1>3, <1>5, <2>1 DEF Own
    <3>2. IsFiniteSet(Own(r)) /\ Cardinality(Own(r)) <= trap_count[r] /\ trap_count[r] <= MAX_ALLOWED_SNMP_TRAPS + 1
      BY DEF Counted
    <3>3. /\ IsFiniteSet(Own(r)') /\ Cardinality(Own(r)') <= Cardinality(Own(r))
          /\ Cardinality(Own(r)) \in Nat /\ Cardinality(Own(r)') \in Nat
      BY <3>1, <3>2, FS_Subset, FS_CardinalityType
    <3>4. trap_count[r] \in Nat
      BY DEF TypeOK
    <3>5. QED
      BY <1>1, <2>1, <3>2, <3>3, <3>4
  <2>2. /\ IsFiniteSet(Own(s)') /\ Cardinality(Own(s)') <= trap_count'[s]
        /\ trap_count'[s] <= MAX_ALLOWED_SNMP_TRAPS + 1
    <3>1. Own(s)' \subseteq Own(s) \cup tx.traps
      BY <1>3 DEF Own
    <3>2. IsFiniteSet(Own(s)) /\ Cardinality(Own(s)) <= trap_count[s] /\ trap_count[s] <= MAX_ALLOWED_SNMP_TRAPS + 1
      BY DEF Counted
    <3>3. trap_count[s] \in Nat /\ Cardinality(Own(s)) \in Nat
      BY <3>2, FS_CardinalityType DEF TypeOK
    <3>4. CASE tx.traps = {} /\ Cardinality(tx.traps) = 0
      <4>1. Own(s)' \subseteq Own(s)
        BY <3>1, <3>4
      <4>2. IsFiniteSet(Own(s)') /\ Cardinality(Own(s)') <= Cardinality(Own(s)) /\ Cardinality(Own(s)') \in Nat
        BY <3>2, <4>1, FS_Subset, FS_CardinalityType
      <4>3. QED
        BY <1>1, <3>2, <3>3, <3>4, <4>2
    <3>5. CASE Cardinality(tx.traps) = 1 /\ \E t : tx.traps = {t}
      <4>1. PICK t : tx.traps = {t}
        BY <3>5
      <4>2. trap_count[s] <= MAX_ALLOWED_SNMP_TRAPS
        BY <1>2, <4>1 DEF Announced
      <4>3. /\ IsFiniteSet(Own(s) \cup {t})
            /\ Cardinality(Own(s) \cup {t}) \in {Cardinality(Own(s)), Cardinality(Own(s)) + 1}
        BY <3>2, FS_AddElement
      <4>4. /\ IsFiniteSet(Own(s)') /\ Cardinality(Own(s)') <= Cardinality(Own(s) \cup {t})
            /\ Cardinality(Own(s)') \in Nat
        BY <3>1, <4>1, <4>3, FS_Subset, FS_CardinalityType
      <4>5. QED
        BY <1>1, <3>2, <3>3, <3>5, <4>2, <4>3, <4>4, SnmpCommandsAssumption
    <3>6. QED
      BY <1>2, <3>4, <3>5, CountedTraps
  <2>3. QED
    BY <2>1, <2>2 DEF Counted
<1>9. CommunitiesKept'
  BY <1>1, <1>3 DEF CommunitiesKept, tx
<1>10. UuidsAreFresh'
  <2>1. UuidsOf(tx) \subseteq 1 .. commands /\ UuidsOf(tx) \cap UuidsOf(db) = {}
    BY <1>1 DEF UuidsAreFresh, tx
  <2>2. UuidsOf(db)' \subseteq UuidsOf(db) \cup UuidsOf(tx)
    BY <1>3 DEF UuidsOf
  <2>3. Identified(tx)
    BY <1>2 DEF Announced, InsertsOne, Identified
  <2>4. \A u \in tx.users, v \in db.users : u.uuid # v.uuid
    BY <2>1 DEF UuidsOf
  <2>5. \A t \in tx.traps, u \in db.users : t.uuid # u.uuid
    BY <2>1 DEF UuidsOf
  <2>6. \A t \in db.traps, u \in tx.users : t.uuid # u.uuid
    BY <2>1 DEF UuidsOf
  <2>7. Identified(db)'
    BY <1>3, <2>3, <2>4, <2>5, <2>6 DEF UuidsAreFresh, Identified
  <2>8. \A r \in Sessions : Identified(replica[r])'
    BY <1>1, <2>7 DEF UuidsAreFresh, Identified
  <2>9. ASSUME NEW r \in Sessions, txn'[r] # Nothing
        PROVE  UuidsOf(txn'[r]) \subseteq 1 .. commands /\ UuidsOf(txn'[r]) \cap UuidsOf(db)' = {}
    <3>1. r # s /\ txn'[r] = txn[r]
      BY <1>1, <2>9
    <3>2. UuidsOf(txn[r]) \subseteq 1 .. commands /\ UuidsOf(txn[r]) \cap UuidsOf(db) = {}
      BY <2>9, <3>1 DEF UuidsAreFresh
    <3>3. UuidsOf(txn[r]) \cap UuidsOf(tx) = {}
      BY <1>1, <2>9, <3>1 DEF UuidsAreFresh, tx
    <3>4. QED
      BY <2>2, <3>1, <3>2, <3>3
  <2>10. \A q, r \in Sessions : q # r /\ txn'[q] # Nothing /\ txn'[r] # Nothing =>
           UuidsOf(txn'[q]) \cap UuidsOf(txn'[r]) = {}
    BY <1>1 DEF UuidsAreFresh
  <2>11. UuidsOf(db)' \subseteq 1 .. commands
    BY <2>1, <2>2 DEF UuidsAreFresh
  <2>12. QED
    BY <1>1, <2>7, <2>8, <2>9, <2>10, <2>11 DEF UuidsAreFresh, UuidsOf
<1>11. TransactionsHarmless'
  BY <1>1 DEF TransactionsHarmless, Harmless
<1>12. QED
  BY <1>4, <1>6, <1>7, <1>8, <1>9, <1>10, <1>11

LEMMA FailedKeeps ==
  ASSUME IInv, TypeOK', NEW s \in Sessions, Failed(s)
  PROVE  IInv'
<1> USE DEF IInv
<1>1. /\ txn'[s] = Nothing /\ \A r \in Sessions : r # s => txn'[r] = txn[r]
      /\ UNCHANGED <<db, replica, trap_count, commands, reopens>>
  BY DEF Failed, TypeOK
<1>2. TransactionsAnnounced'
  BY <1>1 DEF TransactionsAnnounced, Announced, InsertsOne
<1>3. OwnAreSeen' /\ SameReceiverDifferentSessions' /\ Counted'
  BY <1>1 DEF OwnAreSeen, SameReceiverDifferentSessions, Counted, Own
<1>4. CommunitiesKept'
  BY <1>1 DEF CommunitiesKept
<1>5. UuidsAreFresh'
  BY <1>1 DEF UuidsAreFresh, Identified, UuidsOf
<1>6. TransactionsHarmless'
  BY <1>1 DEF TransactionsHarmless, Harmless
<1>7. QED
  BY <1>2, <1>3, <1>4, <1>5, <1>6

LEMMA RefreshKeeps ==
  ASSUME IInv, TypeOK', NEW s \in Sessions, Refresh(s)
  PROVE  IInv'
<1> USE DEF IInv
<1>1. /\ txn[s] = Nothing /\ replica'[s] = db
      /\ \A r \in Sessions : r # s => replica'[r] = replica[r]
      /\ UNCHANGED <<db, txn, trap_count, commands, reopens>>
  BY DEF Refresh, Idle, TypeOK
<1>2. TransactionsAnnounced'
  <2>1. ASSUME NEW r \in Sessions, txn'[r] # Nothing
        PROVE  Announced(r, txn[r])'
    BY <1>1, <2>1 DEF TransactionsAnnounced, Announced, InsertsOne
  <2>2. QED
    BY <2>1 DEF TransactionsAnnounced
<1>3. OwnAreSeen' /\ SameReceiverDifferentSessions' /\ Counted'
  BY <1>1 DEF OwnAreSeen, SameReceiverDifferentSessions, Counted, Own
<1>4. CommunitiesKept'
  BY <1>1 DEF CommunitiesKept
<1>5. UuidsAreFresh'
  BY <1>1 DEF UuidsAreFresh, Identified, UuidsOf
<1>6. TransactionsHarmless'
  BY <1>1 DEF TransactionsHarmless, Harmless
<1>7. QED
  BY <1>2, <1>3, <1>4, <1>5, <1>6

\* Rows without their author: what the invariants say of a content holds of
\* it still.
LEMMA DisownedContent ==
  ASSUME NEW c \in Contents, NEW s
  PROVE  /\ Identified(c) => Identified(Disowned(c, s))
         /\ UuidsOf(Disowned(c, s)) \subseteq UuidsOf(c)
         /\ \A tx : Harmless(c, tx) => Harmless(Disowned(c, s), tx)
<1> DEFINE d == Disowned(c, s)
<1>1. d.users = c.users
  BY DisownedFields
<1>2. \A t \in d.traps : \E o \in c.traps :
        o.uuid = t.uuid /\ o.receiver = t.receiver /\ o.name = t.name
  BY DisownedRows
<1> HIDE DEF d
<1>3. Identified(c) => Identified(d)
  BY <1>1, <1>2 DEF Identified
<1>4. UuidsOf(d) \subseteq UuidsOf(c)
  BY <1>1, <1>2 DEF UuidsOf
<1>5. ASSUME NEW tx, Harmless(c, tx)
      PROVE  Harmless(d, tx)
  BY <1>1, <1>2, <1>5 DEF Harmless
<1>6. QED
  BY <1>3, <1>4, <1>5 DEF d

LEMMA ReopenKeeps ==
  ASSUME IInv, TypeOK', NEW s \in Sessions, Reopen(s)
  PROVE  IInv'
<1> USE DEF IInv
<1>1. /\ db' = Disowned(db, s) /\ replica'[s] = db' /\ txn'[s] = Nothing /\ trap_count'[s] = 0
      /\ \A r \in Sessions : r # s => /\ replica'[r] = Disowned(replica[r], s)
                                     /\ txn'[r] = txn[r] /\ trap_count'[r] = trap_count[r]
      /\ commands' = commands
  BY DEF Reopen, TypeOK
<1>2. db \in Contents /\ \A r \in Sessions : replica[r] \in Contents
  BY DEF TypeOK
<1>3. /\ \A t \in db'.traps : \E o \in db.traps :
           /\ o.uuid = t.uuid /\ o.receiver = t.receiver /\ o.name = t.name
           /\ (t = o /\ t.by # s) \/ t.by = Nobody
      /\ db'.snmp_communities = db.snmp_communities /\ Nobody \notin Sessions
  BY <1>1, <1>2, DisownedRows, DisownedFields, SnmpCliAssumption
<1>4. ASSUME NEW r \in Sessions, r # s
      PROVE  /\ \A t \in replica'[r].traps : \E o \in replica[r].traps : o.receiver = t.receiver
             /\ \A t \in replica[r].traps : t.by # s => t \in replica'[r].traps
             /\ replica'[r].snmp_communities = replica[r].snmp_communities
  BY <1>1, <1>2, <1>4, DisownedRows, DisownedFields
<1>5. TransactionsAnnounced'
  <2>1. ASSUME NEW r \in Sessions, txn'[r] # Nothing
        PROVE  Announced(r, txn[r])'
    <3>1. r # s /\ txn'[r] = txn[r] /\ trap_count'[r] = trap_count[r] /\ Announced(r, txn[r])
      BY <1>1, <2>1 DEF TransactionsAnnounced
    <3>2. QED
      BY <1>4, <3>1 DEF Announced, InsertsOne
  <2>2. QED
    BY <2>1 DEF TransactionsAnnounced
<1>6. \A t \in db'.traps : t.by # Nobody => t \in db.traps /\ t.by # s
  BY <1>3
<1>7. OwnAreSeen'
  BY <1>1, <1>3, <1>4, <1>6 DEF OwnAreSeen
<1>8. SameReceiverDifferentSessions'
  BY <1>6 DEF SameReceiverDifferentSessions
<1>9. Counted'
  <2>1. Own(s)' = {}
    BY <1>3, <1>6 DEF Own
  <2>2. IsFiniteSet(Own(s)') /\ Cardinality(Own(s)') = 0
    BY <2>1, FS_EmptySet
  <2>3. ASSUME NEW r \in Sessions, r # s
        PROVE  /\ IsFiniteSet(Own(r)') /\ Cardinality(Own(r)') <= trap_count'[r]
               /\ trap_count'[r] <= MAX_ALLOWED_SNMP_TRAPS + 1
    <3>1. Own(r)' \subseteq Own(r)
      BY <1>3, <1>6 DEF Own
    <3>2. IsFiniteSet(Own(r)) /\ Cardinality(Own(r)) <= trap_count[r] /\ trap_count[r] <= MAX_ALLOWED_SNMP_TRAPS + 1
      BY DEF Counted
    <3>3. /\ IsFiniteSet(Own(r)') /\ Cardinality(Own(r)') <= Cardinality(Own(r))
          /\ Cardinality(Own(r)) \in Nat /\ Cardinality(Own(r)') \in Nat
      BY <3>1, <3>2, FS_Subset, FS_CardinalityType
    <3>4. trap_count[r] \in Nat
      BY DEF TypeOK
    <3>5. QED
      BY <1>1, <2>3, <3>2, <3>3, <3>4
  <2>4. QED
    BY <1>1, <2>2, <2>3, SnmpCommandsAssumption DEF Counted
<1>10. CommunitiesKept'
  BY <1>1, <1>3, <1>4 DEF CommunitiesKept
<1>11. UuidsAreFresh'
  <2>1. Identified(db') /\ UuidsOf(db') \subseteq UuidsOf(db)
    BY <1>1, <1>2, DisownedContent DEF UuidsAreFresh
  <2>2. \A r \in Sessions : Identified(replica'[r])
    BY <1>1, <1>2, <2>1, DisownedContent DEF UuidsAreFresh
  <2>3. \A r \in Sessions : txn'[r] # Nothing =>
          UuidsOf(txn'[r]) \subseteq 1 .. commands /\ UuidsOf(txn'[r]) \cap UuidsOf(db') = {}
    BY <1>1, <2>1 DEF UuidsAreFresh
  <2>4. \A q, r \in Sessions : q # r /\ txn'[q] # Nothing /\ txn'[r] # Nothing =>
          UuidsOf(txn'[q]) \cap UuidsOf(txn'[r]) = {}
    BY <1>1 DEF UuidsAreFresh
  <2>5. UuidsOf(db') \subseteq 1 .. commands
    BY <2>1 DEF UuidsAreFresh
  <2>6. QED
    BY <1>1, <2>1, <2>2, <2>3, <2>4, <2>5 DEF UuidsAreFresh, Identified, UuidsOf
<1>12. TransactionsHarmless'
  <2>1. ASSUME NEW r \in Sessions, txn'[r] # Nothing
        PROVE  Harmless(replica'[r], txn'[r])
    BY <1>1, <1>2, <2>1, DisownedContent DEF TransactionsHarmless
  <2>2. QED
    BY <2>1 DEF TransactionsHarmless, Harmless
<1>13. QED
  BY <1>5, <1>7, <1>8, <1>9, <1>10, <1>11, <1>12

LEMMA InitIInv == Init => IInv
<1> SUFFICES ASSUME Init PROVE IInv
  OBVIOUS
<1>1. /\ db.traps = {} /\ db.users = {} /\ db.snmp_communities = {} /\ db \in Contents
  BY DEF Init, Contents, OtherConfigs
<1>2. /\ \A s \in Sessions : replica[s] = db /\ txn[s] = Nothing /\ trap_count[s] = 0
      /\ commands = 0 /\ reopens = 0
  BY DEF Init
<1>3. TypeOK
  <2>1. replica \in [Sessions -> Contents]
    BY <1>1 DEF Init
  <2>2. txn \in [Sessions -> Transactions \cup {Nothing}] /\ trap_count \in [Sessions -> Nat]
    BY DEF Init
  <2>3. commands \in 0 .. MaxCommands /\ reopens \in 0 .. MaxReopens
    BY <1>2, SnmpCliAssumption
  <2>4. QED
    BY <1>1, <2>1, <2>2, <2>3 DEF TypeOK
<1>4. TransactionsAnnounced /\ OwnAreSeen /\ SameReceiverDifferentSessions /\ TransactionsHarmless
  BY <1>1, <1>2 DEF TransactionsAnnounced, OwnAreSeen, SameReceiverDifferentSessions, TransactionsHarmless
<1>5. Counted
  <2>1. \A s \in Sessions : Own(s) = {}
    BY <1>1 DEF Own
  <2>2. \A s \in Sessions : IsFiniteSet(Own(s)) /\ Cardinality(Own(s)) = 0
    BY <2>1, FS_EmptySet
  <2>3. QED
    BY <1>2, <2>2, SnmpCommandsAssumption DEF Counted
<1>6. CommunitiesKept
  BY <1>1, <1>2, FS_EmptySet, SnmpCommandsAssumption DEF CommunitiesKept, Within
<1>7. UuidsAreFresh
  BY <1>1, <1>2 DEF UuidsAreFresh, Identified, UuidsOf
<1>8. QED
  BY <1>3, <1>4, <1>5, <1>6, <1>7 DEF IInv

LEMMA StepIInv == IInv /\ [Next]_vars => IInv'
<1> SUFFICES ASSUME IInv, [Next]_vars PROVE IInv'
  OBVIOUS
<1>1. TypeOK'
  BY TypesKept
<1>2. CASE UNCHANGED vars
  <2>1. UNCHANGED <<db, replica, txn, trap_count, commands, reopens>>
    BY <1>2 DEF vars
  <2>2. TransactionsAnnounced' /\ TransactionsHarmless'
    BY <2>1 DEF IInv, TransactionsAnnounced, Announced, TransactionsHarmless
  <2>3. OwnAreSeen' /\ SameReceiverDifferentSessions' /\ Counted'
    BY <2>1 DEF IInv, OwnAreSeen, SameReceiverDifferentSessions, Counted, Own
  <2>4. CommunitiesKept'
    BY <2>1 DEF IInv, CommunitiesKept
  <2>5. UuidsAreFresh'
    BY <2>1 DEF IInv, UuidsAreFresh
  <2>6. QED
    BY <1>1, <2>2, <2>3, <2>4, <2>5 DEF IInv
<1>3. CASE Next
  BY <1>1, <1>3, CommandKeeps, CommittedKeeps, FailedKeeps, RefreshKeeps, ReopenKeeps DEF Next
<1>4. QED
  BY <1>2, <1>3

-----------------------------------------------------------------------------
(* The theorems.                                                           *)

\* The inductive invariant: what every session knows about its own rows and
\* about the transaction it waits for, whatever the others do meanwhile.
THEOREM Invariant == Spec => []IInv
BY InitIInv, StepIInv, PTL DEF Spec

\* The commands send well-formed rows, and the session counts its traps from
\* zero on (snmp_server_host_config, configure_snmpv3_user).
THEOREM Typed == Spec => []TypeOK
BY Invariant, PTL DEF IInv

\* No session that runs has two rows for one receiver: its check against its own
\* replica suffices against itself (snmp_server_host_config). It does not against
\* others: two sessions may each have one, and one may have a row beside that of a
\* session that has ended.
THEOREM OwnReceiversDiffer == Spec => []SameReceiverDifferentSessions
BY Invariant, PTL DEF IInv

\* The limit on communities holds for any number of sessions, although each
\* tests it on a replica that lags behind (configure_community_name).
THEOREM CommunityLimit == Spec => []CommunitiesWithinLimit
<1>1. IInv => CommunitiesWithinLimit
  BY DEF IInv, CommunitiesKept, Within, CommunitiesWithinLimit
<1>2. QED
  BY <1>1, Invariant, PTL

\* A session that runs has at most one trap over the limit in the table: the
\* static counter is tested with > (snmp_server_host_config).
THEOREM TrapLimit == Spec => []SessionTrapLimit
<1>1. ASSUME IInv, NEW s \in Sessions
      PROVE  Cardinality({t \in db.traps : t.by = s}) <= MAX_ALLOWED_SNMP_TRAPS + 1
  <2>1. /\ IsFiniteSet(Own(s)) /\ Cardinality(Own(s)) <= trap_count[s]
        /\ trap_count[s] <= MAX_ALLOWED_SNMP_TRAPS + 1 /\ trap_count[s] \in Nat
    BY <1>1 DEF IInv, Counted, TypeOK
  <2>2. Cardinality(Own(s)) \in Nat
    BY <2>1, FS_CardinalityType
  <2>3. Cardinality(Own(s)) <= MAX_ALLOWED_SNMP_TRAPS + 1
    BY <2>1, <2>2, SnmpCommandsAssumption
  <2>4. QED
    BY <2>3 DEF Own
<1>2. IInv => SessionTrapLimit
  BY <1>1 DEF SessionTrapLimit
<1>3. QED
  BY <1>2, Invariant, PTL

LEMMA HarmlessIsConsistent ==
  ASSUME NEW c, NEW tx, NEW d, Consistent(c), Harmless(c, tx), InsertsOne(tx),
         d.traps = {t \in c.traps : t.uuid \notin tx.deleted} \cup tx.traps,
         d.users = {u \in c.users : u.uuid \notin tx.deleted} \cup tx.users
  PROVE  Consistent(d)
<1>1. /\ \A t, u \in tx.traps : t = u
      /\ \A u, v \in tx.users : u = v
  BY DEF InsertsOne
<1>2. \A t, u \in d.traps : t.receiver = u.receiver => t = u
  BY <1>1 DEF Consistent, Harmless
<1>3. \A u, v \in d.users : u.name = v.name => u = v
  BY <1>1 DEF Consistent, Harmless
<1>4. ASSUME NEW t \in d.traps, t.receiver.version = "v3"
      PROVE  snmp_v3_user_exists(d, t.name)
  <2>1. CASE t \in tx.traps
    BY <1>4, <2>1 DEF Harmless, snmp_v3_user_exists
  <2>2. CASE t \in c.traps /\ t.uuid \notin tx.deleted
    <3>1. PICK u \in c.users : u.name = t.name
      BY <1>4, <2>2 DEF Consistent, snmp_v3_user_exists
    <3>2. u.uuid \notin tx.deleted
      BY <1>4, <2>2, <3>1 DEF Harmless
    <3>3. QED
      BY <3>1, <3>2 DEF snmp_v3_user_exists
  <2>3. QED
    BY <2>1, <2>2
<1>5. QED
  BY <1>2, <1>3, <1>4 DEF Consistent

\* A transaction computed from an up-to-date replica and applied before the
\* table changes leaves one row per receiver and per user, and a user for
\* every receiver of version 3, whichever command sent it.
THEOREM UpToDate == Spec => UpToDateIsConsistent
<1>1. ASSUME IInv, NEW s \in Sessions, Committed(s), replica[s] = db, Consistent(db)
      PROVE  Consistent(db')
  <2>1. /\ txn[s] # Nothing /\ db' = Applied(txn[s], db)
        /\ Announced(s, txn[s]) /\ Harmless(db, txn[s])
    BY <1>1 DEF IInv, Committed, TransactionsAnnounced, TransactionsHarmless
  <2>2. InsertsOne(txn[s])
    BY <2>1 DEF Announced
  <2>3. QED
    BY <1>1, <2>1, <2>2, AppliedFields, HarmlessIsConsistent
<1>2. IInv => \A s \in Sessions : Committed(s) /\ replica[s] = db /\ Consistent(db) => Consistent(db')
  BY <1>1
<1>3. IInv => [\A s \in Sessions : Committed(s) /\ replica[s] = db /\ Consistent(db) => Consistent(db')]_vars
  BY <1>2
<1>4. QED
  BY <1>3, Invariant, PTL DEF UpToDateIsConsistent
=============================================================================
