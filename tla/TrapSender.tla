----------------------------- MODULE TrapSender -----------------------------
(***************************************************************************)
(* A daemon sends a notification: the function send_<trap> that            *)
(* codegen/netsnmp.py (genNotificationFile) generates walks over the trap  *)
(* receivers, and src/src/snmptrap/snmptrap_lib.c prepares the session,    *)
(* switches the network namespace and sends.  Library calls fail at will.  *)
(***************************************************************************)
EXTENDS Integers

CONSTANTS
  Receivers,    \* SNMP_Trap rows: a name ("" for none), a version and a type each
  Users,        \* SNMPv3 user names
  Macs,         \* values of System.system_mac
  None          \* no row, no engine ID, no name

ASSUME TrapSenderAssumption ==
  /\ \A r \in Receivers : r.version \in {"v1", "v2c", "v3"} /\ r.type \in {"trap", "inform"}
  /\ \A r \in Receivers : r # None /\ r.name # None
  /\ None \notin Macs /\ None # "global_trap_community"

VARIABLES
  nm_type,                \* the namespace the daemon says it runs in
  system_mac,             \* the replica: System, None without a row ...
  users,                  \* ... and SNMPv3_User
  rows_left,              \* rows the loop has not come to
  row,                    \* the current one
  send_pc,
  session,                \* version, what community points at, securityName, engine ID
  pdu,                    \* "none", "live", "freed", "freed_twice"
  send_status,
  global_snmp_engine_id,
  global_trap_community,
  netns,                  \* the namespace the process is in
  trouble,                \* ghost: which call of the library failed for the row, if any
  stuck,                  \* ghost: the namespace could not be switched back
  asked,                  \* ghost: the rows of this notification ...
  failed,                 \* ghost: ... those a library call failed for ...
  sent                    \* ghost: ... and its messages

call == <<nm_type, system_mac, users, asked>>
loop == <<rows_left, row>>
globals == <<global_snmp_engine_id, global_trap_community>>
ghosts == <<trouble, failed, sent, stuck>>
trap_vars == <<call, loop, send_pc, session, pdu, send_status, globals, netns, ghosts>>

NoSession == [version |-> None, community |-> None, user |-> None, engine |-> None]

Inform == row.type = "inform" /\ row.version # "v1"

Goto(from, to) == send_pc = from /\ send_pc' = to

Fail(t) == trouble' = t /\ failed' = failed \cup {row} /\ UNCHANGED <<sent, stuck>>

-----------------------------------------------------------------------------
(* A notification is due.  By now the replica has become anything; with no *)
(* row in it send_<trap> returns -1 at once.                               *)

CallSend ==
  /\ Goto("idle", "next")
  /\ system_mac' \in Macs \cup {None}
  /\ users' \in SUBSET Users
  /\ rows_left' \in SUBSET Receivers \ {{}}
  /\ asked' = rows_left'
  /\ failed' = {}
  /\ sent' = {}
  /\ UNCHANGED <<nm_type, row, session, pdu, send_status, globals, netns, trouble, stuck>>

NextRow ==
  /\ send_pc = "next"
  /\ \E r \in rows_left :
       /\ row' = r
       /\ rows_left' = rows_left \ {r}
       /\ session' = [NoSession EXCEPT !.version = r.version]
       /\ send_pc' = IF r.version = "v3" THEN "user" ELSE "community"
  /\ UNCHANGED <<call, pdu, send_status, globals, netns, ghosts>>

\* The community a receiver is to hear with: that of its row, if there is one.
Community(name) == IF name = "" THEN "public" ELSE name

\* Variant: copied when there is none yet, as the engine ID is.
TrapCommunityOnce ==
  IF global_trap_community = None THEN Community(row.name) ELSE global_trap_community

\* One buffer serves every row.
TrapCommunity == Community(row.name)

\* ops_add_snmp_trap_community
AddCommunity ==
  /\ Goto("community", "pdu")
  /\ global_trap_community' = TrapCommunity
  /\ session' = [session EXCEPT !.community = "global_trap_community"]
  /\ UNCHANGED <<call, loop, pdu, send_status, global_snmp_engine_id, netns, ghosts>>

\* create_snmp_engine_id, the first time only: the ID is kept for ever.
EngineId == IF global_snmp_engine_id = None THEN system_mac ELSE global_snmp_engine_id

UserIsKnown == EngineId # None /\ row.name \in users

\* ops_add_snmpv3_user: the engine ID, the user of the row and its keys,
\* which the library may fail to derive.
AddUser ==
  /\ send_pc = "user"
  /\ global_snmp_engine_id' = EngineId
  /\ \/ /\ UserIsKnown
        /\ session' = [session EXCEPT !.user = row.name, !.engine = EngineId]
        /\ send_pc' = "pdu"
        /\ UNCHANGED ghosts
     \/ /\ UserIsKnown
        /\ session' = [session EXCEPT !.engine = EngineId]
        /\ send_pc' = "cleanup"
        /\ Fail("keys")
     \/ /\ ~UserIsKnown
        /\ session' = [session EXCEPT !.engine = EngineId]
        /\ send_pc' = "cleanup"
        /\ UNCHANGED ghosts
  /\ UNCHANGED <<call, loop, pdu, send_status, global_trap_community, netns>>

\* snmp_pdu_create and the snmp_add_var calls; a variable that cannot be
\* added leaves a nonzero status, a PDU that cannot be created does not.
BuildPdu ==
  /\ send_pc = "pdu"
  /\ \/ pdu' = "live" /\ send_pc' = "open" /\ UNCHANGED <<send_status, ghosts>>
     \/ pdu' = "live" /\ send_pc' = "cleanup" /\ send_status' = 1 /\ Fail("unsent")
     \/ pdu' = "none" /\ send_pc' = "cleanup" /\ UNCHANGED send_status /\ Fail("unsent")
  /\ UNCHANGED <<call, loop, session, globals, netns>>

-----------------------------------------------------------------------------
(* ops_snmp_send_trap.                                                     *)

\* Only for SWNS_NAMESPACE are the namespaces opened and switched.
EnterNamespace ==
  /\ Goto("open", "add")
  /\ netns' = IF nm_type = "SWNS_NAMESPACE" THEN "global" ELSE netns
  /\ UNCHANGED <<call, loop, session, pdu, send_status, globals, ghosts>>

\* A namespace cannot be opened, or not entered: -1, from where it was.
EnterNamespaceFails ==
  /\ Goto("open", "cleanup")
  /\ nm_type = "SWNS_NAMESPACE"
  /\ send_status' = -1
  /\ Fail("unsent")
  /\ UNCHANGED <<call, loop, session, pdu, globals, netns>>

\* Variant: without a session the function returns.
SnmpAddFailsReturning ==
  /\ Goto("add", "cleanup")
  /\ Fail("unsent")
  /\ UNCHANGED <<call, loop, session, pdu, send_status, globals, netns>>

\* snmp_add returns NULL: the status is 0, as if the message had been sent.
SnmpAddFails ==
  /\ Goto("add", "back")
  /\ Fail("unsent")
  /\ UNCHANGED <<call, loop, session, pdu, send_status, globals, netns>>

\* What the message carries is read through the session's pointers.
Message ==
  [row |-> row, version |-> session.version, engine |-> session.engine,
   name |-> IF session.community = "global_trap_community" THEN global_trap_community
                                                           ELSE session.user]

\* The library frees what it has sent; snmp_synch_response also what it has not.
SnmpSend ==
  /\ Goto("add", "back")
  /\ \/ /\ pdu' = "freed"
        /\ sent' = sent \cup {Message}
        /\ UNCHANGED <<send_status, trouble, failed, stuck>>
     \/ /\ pdu' = IF Inform THEN "freed" ELSE pdu
        /\ send_status' = 1
        /\ Fail("send")
  /\ UNCHANGED <<call, loop, session, globals, netns>>

SwitchBack ==
  /\ Goto("back", "cleanup")
  /\ netns' = IF nm_type = "SWNS_NAMESPACE" THEN "swns" ELSE netns
  /\ UNCHANGED <<call, loop, session, pdu, send_status, globals, ghosts>>

SwitchBackFails ==
  /\ Goto("back", "cleanup")
  /\ nm_type = "SWNS_NAMESPACE"
  /\ send_status' = -1
  /\ trouble' = "switch_back"
  /\ stuck' = TRUE
  /\ UNCHANGED <<call, loop, session, pdu, globals, netns, failed, sent>>

-----------------------------------------------------------------------------

FreedPdu(p) == CASE p = "none" -> p [] p = "live" -> "freed" [] OTHER -> "freed_twice"

\* Variant: the PDU of an inform is freed as well.
PduAfterLoopAll == IF send_status # 0 THEN FreedPdu(pdu) ELSE pdu

\* loop_cleanup: the PDU of a trap that failed is freed.
PduAfterLoop == IF send_status # 0 /\ ~Inform THEN FreedPdu(pdu) ELSE pdu

LoopCleanup ==
  /\ Goto("cleanup", "done")
  /\ pdu' = PduAfterLoop
  /\ UNCHANGED <<call, loop, session, send_status, globals, netns, ghosts>>

\* Variant: a receiver without a session ends the loop.
RowDoneReturning ==
  /\ send_pc = "done"
  /\ send_pc' = IF rows_left = {} \/ (session.user = None /\ row.version = "v3")
             THEN "idle" ELSE "next"
  /\ row' = None
  /\ session' = NoSession
  /\ pdu' = "none"
  /\ send_status' = 0
  /\ trouble' = "none"
  /\ UNCHANGED <<call, rows_left, globals, netns, stuck, failed, sent>>

\* snmp_shutdown, and on to the next row or back with 0.
RowDone ==
  /\ send_pc = "done"
  /\ send_pc' = IF rows_left = {} THEN "idle" ELSE "next"
  /\ row' = None
  /\ session' = NoSession
  /\ pdu' = "none"
  /\ send_status' = 0
  /\ trouble' = "none"
  /\ UNCHANGED <<call, rows_left, globals, netns, stuck, failed, sent>>

-----------------------------------------------------------------------------

TrapInit ==
  /\ nm_type \in {"SWNS_NAMESPACE", "GLOBAL_NAMESPACE"}
  /\ netns = IF nm_type = "SWNS_NAMESPACE" THEN "swns" ELSE "global"
  /\ system_mac = None /\ users = {}
  /\ rows_left = {} /\ row = None
  /\ send_pc = "idle"
  /\ session = NoSession
  /\ pdu = "none"
  /\ send_status = 0
  /\ global_snmp_engine_id = None
  /\ global_trap_community = None
  /\ trouble = "none" /\ stuck = FALSE
  /\ asked = {} /\ failed = {} /\ sent = {}

TrapNext ==
  \/ CallSend \/ NextRow \/ AddCommunity \/ AddUser \/ BuildPdu
  \/ EnterNamespace \/ EnterNamespaceFails \/ SnmpAddFails \/ SnmpSend
  \/ SwitchBack \/ SwitchBackFails \/ LoopCleanup \/ RowDone

TrapSpec == TrapInit /\ [][TrapNext]_trap_vars

-----------------------------------------------------------------------------
(* Properties.                                                             *)

\* The types; a session that has a securityName has an engine ID with it.
TrapTypeOK ==
  /\ nm_type \in {"SWNS_NAMESPACE", "GLOBAL_NAMESPACE"}
  /\ netns \in {"swns", "global"}
  /\ system_mac \in Macs \cup {None} /\ users \subseteq Users
  /\ rows_left \subseteq Receivers /\ row \in Receivers \cup {None}
  /\ send_pc \in {"idle", "next", "community", "user", "pdu", "open", "add", "back", "cleanup", "done"}
  /\ session.user # None => session.engine \in Macs
  /\ pdu \in {"none", "live", "freed", "freed_twice"}
  /\ send_status \in {-1, 0, 1}
  /\ global_snmp_engine_id \in Macs \cup {None}
  /\ trouble \in {"none", "keys", "unsent", "send", "switch_back"} /\ stuck \in BOOLEAN
  /\ asked \subseteq Receivers /\ failed \subseteq asked

\* Every receiver hears from its own row: the version of the row and its user
\* name or community ("public" where the row has none), though one static
\* buffer holds the community of every row in turn and the message is built
\* through a pointer to it.
SentAsConfigured ==
  \A m \in sent :
    /\ m.version = m.row.version
    /\ m.name = IF m.row.version # "v3" /\ m.row.name = "" THEN "public" ELSE m.row.name

\* No receiver misses a notification because of another one: when send_<trap>
\* returns, each row has its message, or a library call failed for this very
\* row, or it names a user OVSDB does not have (or there is no engine ID).
EveryReceiverIsServed ==
  send_pc = "idle" =>
    \A r \in asked :
      \/ \E m \in sent : m.row = r
      \/ r \in failed
      \/ r.version = "v3" /\ (r.name \notin users \/ EngineId = None)

\* Whatever fails, a row leaves the daemon in the namespace it came from,
\* unless switching back itself failed once: a daemon left in the wrong one
\* would open its next sockets there.
NamespaceRestored ==
  send_pc \notin {"add", "back"} /\ ~stuck =>
    netns = IF nm_type = "SWNS_NAMESPACE" THEN "swns" ELSE "global"

\* The PDU of a row is freed once, by the library or by loop_cleanup.  It is
\* freed twice only when switching back fails after a trap was sent, and left
\* behind only when the library never had it to send: no session was made, or
\* it is the PDU of an inform that failed before.
PduFreedOnce ==
  /\ pdu = "freed_twice" => trouble = "switch_back" /\ ~Inform /\ \E m \in sent : m.row = row
  /\ send_pc = "done" /\ pdu = "live" =>
       /\ trouble = "unsent" \/ (trouble = "switch_back" /\ Inform)
       /\ row \in failed /\ \A m \in sent : m.row # row
=============================================================================
