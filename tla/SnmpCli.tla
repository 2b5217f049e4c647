------------------------------ MODULE SnmpCli ------------------------------
(***************************************************************************)
(* Several vtysh sessions configure SNMP through OVSDB.  Each is a process *)
(* with a replica of the database that lags behind; a command computes its *)
(* transaction from the replica, and the server applies it later.  The     *)
(* server and cli_do_config_start/finish are code outside this repository: *)
(* the server applies transactions one at a time, and a session has seen   *)
(* its own transaction when it learns that it succeeded.                   *)
(***************************************************************************)
EXTENDS SnmpCommands, Integers

CONSTANTS
  Sessions,
  Nobody,         \* the author of a row whose session has ended
  Nothing,        \* the session waits for no transaction
  MaxCommands,    \* bound: commands that send a transaction
  MaxReopens      \* bound: sessions closed and opened again

ASSUME SnmpCliAssumption ==
  /\ Nobody \notin Sessions
  /\ MaxCommands \in Nat
  /\ MaxReopens \in Nat

VARIABLES
  db,           \* the database
  replica,      \* per session, the contents its IDL holds
  txn,          \* per session, the transaction it waits for
  trap_count,   \* per session, the static counter of snmp_server_host_config
  commands,     \* commands so far: the source of fresh uuids
  reopens

vars == <<db, replica, txn, trap_count, commands, reopens>>

Uuids == 1 .. MaxCommands

-----------------------------------------------------------------------------

\* The rest of a command: a transaction that would not change the replica is
\* not sent (TXN_UNCHANGED); otherwise the session blocks in
\* cli_do_config_finish.
Send(s, transaction) ==
  /\ commands < MaxCommands
  /\ Applied(transaction, replica[s]) # replica[s]
  /\ txn' = [txn EXCEPT ![s] = transaction]
  /\ commands' = commands + 1
  /\ UNCHANGED <<db, replica, trap_count, reopens>>

Idle(s) == txn[s] = Nothing

snmp_server_host_config(s) ==
  /\ Idle(s)
  /\ \E r \in Receivers : \E name \in NamesFor(r) :
       /\ ~HostRefused(replica[s], trap_count[s], r, name)
       /\ Send(s, HostConfigured(commands + 1, r, name, s))

snmp_server_host_unconfig(s) ==
  /\ Idle(s)
  /\ \E r \in Receivers : Send(s, HostUnconfigured(replica[s], r))

configure(s, key) ==
  /\ Idle(s)
  /\ key \in SettingKeys
  /\ \E value \in Values \cup {Reset(key)} : Send(s, Setting(replica[s], key, value))

configure_snmp_agent_port(s) == configure(s, "snmp_agent_port")
configure_snmp_system_description(s) == configure(s, "system_description")
configure_system_contact(s) == configure(s, "system_contact")
configure_system_location(s) == configure(s, "system_location")

configure_community_name(s) ==
  /\ Idle(s)
  /\ \E c \in CommunityNames :
       /\ ~CommunityRefused(replica[s], c)
       /\ Send(s, CommunityConfigured(replica[s], c))

remove_community_name(s) ==
  /\ Idle(s)
  /\ \E c \in replica[s].snmp_communities : Send(s, CommunityRemoved(replica[s], c))

configure_snmpv3_user(s) ==
  /\ Idle(s)
  /\ \E user \in UserNames, security \in Securities :
       /\ ~snmp_v3_user_exists(replica[s], user)
       /\ Send(s, UserConfigured(commands + 1, user, security))

unconfigure_snmpv3_user(s) ==
  /\ Idle(s)
  /\ \E user \in UserNames :
       /\ ~UserIsReceiver(replica[s], user)
       /\ Send(s, UserUnconfigured(replica[s], user))

-----------------------------------------------------------------------------

\* Variant: the session does not count its trap.
CommittedUncounted(s) ==
  /\ txn[s] # Nothing
  /\ db' = Applied(txn[s], db)
  /\ replica' = [replica EXCEPT ![s] = db']
  /\ txn' = [txn EXCEPT ![s] = Nothing]
  /\ UNCHANGED <<trap_count, commands, reopens>>

\* Variant: the session goes on before its replica holds its transaction.
CommittedUnseen(s) ==
  /\ txn[s] # Nothing
  /\ db' = Applied(txn[s], db)
  /\ txn' = [txn EXCEPT ![s] = Nothing]
  /\ trap_count' = [trap_count EXCEPT ![s] = @ + Cardinality(txn[s].traps)]
  /\ UNCHANGED <<replica, commands, reopens>>

\* The server commits the transaction of s and s learns of it: the update
\* arrives before the answer.  A committed host command counts its trap.
Committed(s) ==
  /\ txn[s] # Nothing
  /\ db' = Applied(txn[s], db)
  /\ replica' = [replica EXCEPT ![s] = db']
  /\ txn' = [txn EXCEPT ![s] = Nothing]
  /\ trap_count' = [trap_count EXCEPT ![s] = @ + Cardinality(txn[s].traps)]
  /\ UNCHANGED <<commands, reopens>>

\* The transaction fails; the commands differ in what they tell the operator.
Failed(s) ==
  /\ txn[s] # Nothing
  /\ txn' = [txn EXCEPT ![s] = Nothing]
  /\ UNCHANGED <<db, replica, trap_count, commands, reopens>>

\* The IDL of the session catches up between two commands.  (It may also do
\* so while the session waits, but a transaction is not computed again, and
\* nothing reads the replica before the answer.)
Refresh(s) ==
  /\ Idle(s)
  /\ replica[s] # db
  /\ replica' = [replica EXCEPT ![s] = db]
  /\ UNCHANGED <<db, txn, trap_count, commands, reopens>>

Disowned(content, s) ==
  [content EXCEPT !.traps =
     {IF t.by = s THEN [t EXCEPT !.by = Nobody] ELSE t : t \in @}]

\* The session ends, even while it waits, and another one takes its place:
\* a new process, whose static counter is zero.
Reopen(s) ==
  /\ reopens < MaxReopens
  /\ reopens' = reopens + 1
  /\ db' = Disowned(db, s)
  /\ replica' = [r \in Sessions |-> IF r = s THEN db' ELSE Disowned(replica[r], s)]
  /\ txn' = [txn EXCEPT ![s] = Nothing]
  /\ trap_count' = [trap_count EXCEPT ![s] = 0]
  /\ UNCHANGED commands

-----------------------------------------------------------------------------

Init ==
  /\ db = [traps |-> {}, users |-> {}, other_config |-> [k \in SettingKeys |-> Unset],
           snmp_communities |-> {}]
  /\ replica = [s \in Sessions |-> db]
  /\ txn = [s \in Sessions |-> Nothing]
  /\ trap_count = [s \in Sessions |-> 0]
  /\ commands = 0
  /\ reopens = 0

Command(s) ==
  \/ snmp_server_host_config(s)
  \/ snmp_server_host_unconfig(s)
  \/ configure_snmp_agent_port(s)
  \/ configure_snmp_system_description(s)
  \/ configure_system_contact(s)
  \/ configure_system_location(s)
  \/ configure_community_name(s)
  \/ remove_community_name(s)
  \/ configure_snmpv3_user(s)
  \/ unconfigure_snmpv3_user(s)

Next ==
  \E s \in Sessions : Command(s) \/ Committed(s) \/ Failed(s) \/ Refresh(s) \/ Reopen(s)

Spec == Init /\ [][Next]_vars

-----------------------------------------------------------------------------
(* Properties.                                                             *)

Contents ==
  [traps: SUBSET TrapRows(Uuids, Sessions \cup {Nobody}), users: SUBSET UserRows(Uuids),
   other_config: OtherConfigs, snmp_communities: SUBSET CommunityNames]

Transactions ==
  [deleted: SUBSET Uuids, traps: SUBSET TrapRows(Uuids, Sessions), users: SUBSET UserRows(Uuids),
   other_config: OtherConfigs \cup {Keep}, snmp_communities: (SUBSET CommunityNames) \cup {Keep}]

TypeOK ==
  /\ db \in Contents
  /\ replica \in [Sessions -> Contents]
  /\ txn \in [Sessions -> Transactions \cup {Nothing}]
  /\ trap_count \in [Sessions -> Nat]
  /\ commands \in 0 .. MaxCommands
  /\ reopens \in 0 .. MaxReopens

\* Two live rows for the same receiver were never configured by the same
\* session: what its replica shows is enough against itself, though not
\* against the others.
SameReceiverDifferentSessions ==
  \A t, u \in db.traps :
    t # u /\ t.receiver = u.receiver /\ t.by = u.by => t.by = Nobody

\* However the sessions interleave, the set of communities stays within the
\* limit: it is overwritten, never added to.
CommunitiesWithinLimit ==
  Cardinality(db.snmp_communities) <= MAX_ALLOWED_SNMP_COMMUNITIES

\* A running session has no more than one trap over the limit in the table.
SessionTrapLimit ==
  \A s \in Sessions :
    Cardinality({t \in db.traps : t.by = s}) <= MAX_ALLOWED_SNMP_TRAPS + 1

\* One row per receiver, one row per user, and a user for every receiver of
\* version 3.
Consistent(content) ==
  /\ \A t, u \in content.traps : t.receiver = u.receiver => t = u
  /\ \A u, v \in content.users : u.name = v.name => u = v
  /\ \A t \in content.traps :
       t.receiver.version = "v3" => snmp_v3_user_exists(content, t.name)

\* A session whose replica is up to date when it computes its transaction,
\* and when the transaction is applied, leaves a consistent table behind.
UpToDateIsConsistent ==
  [][\A s \in Sessions :
       Committed(s) /\ replica[s] = db /\ Consistent(db) => Consistent(db')]_vars
=============================================================================
