---------------------------- MODULE ServedConfig ----------------------------
(***************************************************************************)
(* What the OVSDB thread of ops-snmpd promises about the master agent: it  *)
(* serves the configuration of one committed transaction at a time, or     *)
(* none yet, and moves forward in the order of the commits, possibly over  *)
(* several of them.  When it moves is not promised here: a change may be   *)
(* coalesced with later ones, or wait for the next one.                    *)
(***************************************************************************)
EXTENDS Naturals

VARIABLES
  commits,   \* number of committed transactions
  served     \* number of the one the agent serves, 0 for none

Init ==
  /\ commits = 1
  /\ served = 0

Commit ==
  /\ commits' = commits + 1
  /\ UNCHANGED served

Serve ==
  /\ served' \in (served + 1) .. commits
  /\ UNCHANGED commits

Next == Commit \/ Serve

Spec == Init /\ [][Next]_<<commits, served>>
=============================================================================
