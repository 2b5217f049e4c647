---------------------------- MODULE CachedTable ----------------------------
(***************************************************************************)
(* What the cache of a table promises to the managers that ask for it: an  *)
(* answer is made of the rows of one load, which were read at one moment   *)
(* either since the question came or within the timeout before it.  How a  *)
(* load comes about, and what ends it early, is not visible here.          *)
(***************************************************************************)
EXTENDS Integers

CONSTANT Default   \* the timeout of a table that has none

VARIABLES
  timeout,
  rows,    \* what an answer is made of, with the moment and the load of each
  loads,
  now,
  asked    \* a request waits for its answer

vars == <<timeout, rows, loads, now, asked>>

Limit == IF timeout = 0 THEN Default ELSE timeout

Init ==
  /\ timeout \in Int
  /\ rows = {} /\ loads = 0 /\ now = 0
  /\ asked = FALSE

Tick ==
  /\ ~asked
  /\ now' = now + 1
  /\ UNCHANGED <<timeout, rows, loads, asked>>

\* The rows are given up, perhaps for another load.
Expire ==
  /\ ~asked
  /\ rows' = {}
  /\ loads' \in {loads, loads + 1}
  /\ UNCHANGED <<timeout, now, asked>>

\* A request is answered from rows read for it, as many as the load got.
Refill ==
  /\ ~asked /\ rows = {}
  /\ \A r \in rows' : r.read = now /\ r.load = loads
  /\ asked' = TRUE
  /\ UNCHANGED <<timeout, loads, now>>

\* A request is answered from the rows there are.
Hit ==
  /\ ~asked /\ \A r \in rows : now - r.read < Limit
  /\ asked' = TRUE
  /\ UNCHANGED <<timeout, rows, loads, now>>

Answer ==
  /\ asked
  /\ asked' = FALSE
  /\ UNCHANGED <<timeout, rows, loads, now>>

Next == Tick \/ Expire \/ Refill \/ Hit \/ Answer

Spec == Init /\ [][Next]_vars
=============================================================================
