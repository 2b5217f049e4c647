----------------------------- MODULE TableCache -----------------------------
(***************************************************************************)
(* The handlers that NetSnmpCodeGen writes for a MIB table and a scalar,   *)
(* in the agent's thread: a request (re)loads the container of the table   *)
(* from the IDL's replica when Net-SNMP's cache helper says so, and is     *)
(* answered from the container.  The OVSDB thread changes the replica in   *)
(* the middle of a load, for no generated function takes SNMP_OVSDB_LOCK.  *)
(*                                                                         *)
(* A row is reduced to its index, one column and the answer of the         *)
(* SkipFunction.  The iteration over an hmap is in no order, and a change  *)
(* of the hmap leaves any rows ahead of it.  Answering a request takes no  *)
(* time of the clock.                                                      *)
(***************************************************************************)
EXTENDS Integers, FiniteSets

CONSTANTS
  Rows,         \* rows RootOvsTable may have
  Contents,     \* what a row may hold: [index, data, skip]
  Absent,       \* no row
  Unfit,        \* an index that indexes_set refuses
  Timeouts,     \* CacheTimeout of the mapping file
  Default,      \* 30 seconds
  MaxTime, MaxCommits, MaxLoads

ASSUME TableCacheAssumption ==
  /\ Absent \notin Contents
  /\ Timeouts \subseteq Int /\ Default \in Nat \ {0}
  /\ MaxTime \in Nat /\ MaxCommits \in Nat /\ MaxLoads \in Nat

VARIABLES
  CacheTimeout,
  replica,    \* the rows of RootOvsTable
  joined,     \* every other table of the mapping has a row
  commits,
  now,
  cache,      \* netsnmp_cache
  container,  \* row contexts, one for an index
  live,       \* the number of row contexts that are allocated
  loads,
  cursor,     \* the row the loop is at
  freed,      \* that row has been deleted ...
  lost,       \* ... or one of the other tables' rows, fetched before the loop
  ahead,      \* the rows the loop still comes to
  status,     \* what container_load returned
  changed,    \* the replica has changed since the load began
  pc

replicaVars == <<replica, joined, commits>>
loadVars == <<cursor, freed, lost, ahead>>
vars == <<CacheTimeout, replicaVars, now, cache, container, live, loads, loadVars, status, changed, pc>>

Present == {r \in Rows : replica[r] # Absent}

Keys == {ctx.index : ctx \in container}

-----------------------------------------------------------------------------
(* The OVSDB thread and the clock.                                         *)

\* ovsdb_idl_run; the hmap may be rehashed under the loop.  A row of another
\* table comes, or it goes, and another one may be left.
Commit ==
  /\ pc # "undefined" /\ commits < MaxCommits
  /\ \/ /\ \E r \in Rows, c \in Contents \cup {Absent} :
             c # replica[r] /\ replica' = [replica EXCEPT ![r] = c]
        /\ UNCHANGED <<joined, lost>>
     \/ /\ joined' \in BOOLEAN
        /\ lost' = (lost \/ (pc = "loop" /\ joined))
        /\ UNCHANGED replica
  /\ ahead' \in IF pc = "loop" THEN SUBSET Present' ELSE {ahead}
  /\ freed' = (freed \/ (pc = "loop" /\ replica'[cursor] = Absent))
  /\ commits' = commits + 1
  /\ changed' = TRUE
  /\ UNCHANGED <<CacheTimeout, now, cache, container, live, loads, cursor, status, pc>>

Tick ==
  /\ pc = "idle" /\ now < MaxTime
  /\ now' = now + 1
  /\ UNCHANGED <<CacheTimeout, replicaVars, cache, container, live, loads, loadVars, status, changed, pc>>

-----------------------------------------------------------------------------
(* The cache helper of Net-SNMP.                                           *)

\* Variant: the timeout of the mapping file is not copied to the cache.
DefaultTimeout(t) == Default

\* A CacheTimeout of 0 is none for the generator.
Timeout(t) == IF t # 0 THEN t ELSE Default

Expired == cache.expired \/ cache.timeout = -1 \/ now - cache.stamp >= cache.timeout

\* _container_item_free of every row.
Freed == live - Cardinality(container)

\* netsnmp_cache_check_and_reload, once for a PDU.
Request ==
  /\ pc = "idle"
  /\ IF cache.valid /\ ~Expired
       THEN pc' = "serve" /\ UNCHANGED <<cache, container, live, loads, status, changed>>
       ELSE /\ loads < MaxLoads
            /\ cache' = [cache EXCEPT !.valid = FALSE, !.expired = TRUE]
            /\ IF cache.valid
                 THEN container' = {} /\ live' = Freed
                 ELSE UNCHANGED <<container, live>>
            /\ loads' = loads + 1
            /\ status' = "none"
            /\ changed' = FALSE
            /\ pc' = "load"
  /\ UNCHANGED <<CacheTimeout, replicaVars, now, loadVars>>

\* Variant: any code but MFD_SUCCESS makes the cache invalid.
IsFailureUnlessSuccess(ret) == ret # "success"

\* MFD_RESOURCE_UNAVAILABLE is positive.
IsFailure(ret) == ret = "error"

\* _cache_load.
Loaded(ret) ==
  /\ cache' = IF IsFailure(ret)
                THEN [cache EXCEPT !.valid = FALSE]
                ELSE [cache EXCEPT !.valid = TRUE, !.expired = FALSE, !.stamp = now]
  /\ status' = ret
  /\ pc' = "serve"

\* release_cached_resources, an alarm.
ReleaseExpired ==
  /\ pc = "idle" /\ cache.valid /\ Expired
  /\ cache' = [cache EXCEPT !.valid = FALSE, !.expired = TRUE]
  /\ container' = {} /\ live' = Freed
  /\ status' = "none"
  /\ UNCHANGED <<CacheTimeout, replicaVars, now, loads, loadVars, changed, pc>>

-----------------------------------------------------------------------------
(* container_load.                                                         *)

\* Variant: the loop starts after the row that _first returned.
ReachedAfterFirst == {R \in SUBSET Present : Cardinality(Present \ R) = 1}

\* The rows the loop comes to.
Reached == {Present}

\* A mapped table without a row.
FirstFails ==
  /\ pc = "load" /\ (Present = {} \/ ~joined)
  /\ Loaded("error")
  /\ UNCHANGED <<CacheTimeout, replicaVars, now, container, live, loads, loadVars, changed>>

First ==
  /\ pc = "load" /\ Present # {} /\ joined
  /\ \E R \in Reached : \E r \in R : cursor' = r /\ ahead' = R \ {r}
  /\ freed' = FALSE /\ lost' = FALSE
  /\ pc' = "loop"
  /\ UNCHANGED <<CacheTimeout, replicaVars, now, cache, container, live, loads, status, changed>>

\* What the loop reads of its row, and of the rows of the other tables, which the
\* getters but not the SkipFunction are given; a freed one may hold anything.
Read ==
  CASE freed -> Contents
    [] lost /\ ~freed -> {c \in Contents : c.skip = replica[cursor].skip}
    [] OTHER -> {replica[cursor]}

Advance ==
  IF ahead = {}
    THEN Loaded("success") /\ UNCHANGED loadVars
    ELSE /\ \E r \in ahead : cursor' = r /\ ahead' = ahead \ {r}
         /\ freed' = FALSE
         /\ UNCHANGED <<lost, cache, status, pc>>

SkipRow ==
  /\ pc = "loop" /\ \E c \in Read : c.skip
  /\ Advance
  /\ UNCHANGED <<CacheTimeout, replicaVars, now, container, live, loads, changed>>

\* The load ends, with the rows it has.
AllocateFails ==
  /\ pc = "loop" /\ \E c \in Read : ~c.skip
  /\ Loaded("unavailable")
  /\ UNCHANGED <<CacheTimeout, replicaVars, now, container, live, loads, loadVars, changed>>

\* Variant: the context is not released.
KeptUnfit == live + 1

\* The context that was allocated is released.
ReleasedUnfit == live

IndexesFail ==
  /\ pc = "loop" /\ \E c \in Read : ~c.skip /\ c.index = Unfit
  /\ live' = ReleasedUnfit
  /\ Advance
  /\ UNCHANGED <<CacheTimeout, replicaVars, now, container, loads, changed>>

\* CONTAINER_INSERT refuses an index it has; nobody looks at its answer.
InsertRow ==
  /\ pc = "loop"
  /\ \E c \in Read :
       /\ ~c.skip /\ c.index # Unfit
       /\ container' = IF c.index \in Keys THEN container
            ELSE container \cup {[index |-> c.index, data |-> c.data, read |-> now, load |-> loads]}
  /\ live' = live + 1
  /\ Advance
  /\ UNCHANGED <<CacheTimeout, replicaVars, now, loads, changed>>

\* A pointer is read from a row that was freed, the next row among them.
LoopBreaks ==
  /\ pc = "loop" /\ (freed \/ lost)
  /\ pc' = "undefined"
  /\ UNCHANGED <<CacheTimeout, replicaVars, now, cache, container, live, loads, loadVars, status, changed>>

-----------------------------------------------------------------------------
(* Answers.                                                                *)

\* object_lookup, get_values and post_request, for every variable binding.
Serve ==
  /\ pc = "serve"
  /\ pc' = "idle"
  /\ UNCHANGED <<CacheTimeout, replicaVars, now, cache, container, live, loads, loadVars, status, changed>>

\* A scalar is read from the first row of its table, which may have none.
GetScalar ==
  /\ pc = "idle"
  /\ pc' = IF joined THEN "idle" ELSE "undefined"
  /\ UNCHANGED <<CacheTimeout, replicaVars, now, cache, container, live, loads, loadVars, status, changed>>

\* ops_snmp_destroy, which the plugin loader as it stands never calls.
Shutdown ==
  /\ pc = "idle"
  /\ container' = {} /\ live' = Freed
  /\ status' = "none"
  /\ pc' = "down"
  /\ UNCHANGED <<CacheTimeout, replicaVars, now, cache, loads, loadVars, changed>>

-----------------------------------------------------------------------------

Init ==
  /\ CacheTimeout \in Timeouts
  /\ replica \in [Rows -> Contents \cup {Absent}]
  /\ joined \in BOOLEAN
  /\ commits = 0 /\ now = 0
  /\ cache = [valid |-> FALSE, expired |-> FALSE, stamp |-> 0, timeout |-> Timeout(CacheTimeout)]
  /\ container = {} /\ live = 0 /\ loads = 0
  /\ cursor \in Rows /\ freed = FALSE /\ lost = FALSE /\ ahead = {}
  /\ status = "none" /\ changed = FALSE
  /\ pc = "idle"

Next ==
  \/ Commit \/ Tick
  \/ Request \/ ReleaseExpired
  \/ FirstFails \/ First \/ SkipRow \/ AllocateFails \/ IndexesFail \/ InsertRow \/ LoopBreaks
  \/ Serve \/ GetScalar \/ Shutdown

Spec == Init /\ [][Next]_vars

-----------------------------------------------------------------------------
(* Properties.                                                             *)

TypeOK ==
  /\ CacheTimeout \in Int
  /\ replica \in [Rows -> Contents \cup {Absent}] /\ joined \in BOOLEAN
  /\ commits \in 0 .. MaxCommits /\ now \in Nat /\ loads \in Nat
  /\ cache \in [valid: BOOLEAN, expired: BOOLEAN, stamp: Nat, timeout: Int]
  /\ container \subseteq [index: {c.index : c \in Contents}, data: {c.data : c \in Contents},
                          read: Nat, load: Nat]
  /\ live \in Int
  /\ cursor \in Rows /\ freed \in BOOLEAN /\ lost \in BOOLEAN /\ ahead \subseteq Rows
  /\ status \in {"none", "error", "unavailable", "success"} /\ changed \in BOOLEAN
  /\ pc \in {"idle", "load", "loop", "serve", "undefined", "down"}

\* The cache as its callers see it: the container while no load is at work
\* on it, and a request that is about to be answered.
Promised == INSTANCE CachedTable WITH
  timeout <- CacheTimeout,
  rows    <- IF pc \in {"loop", "undefined"} THEN {} ELSE container,
  asked   <- pc = "serve"

\* Whatever ends a load and whatever the other thread does meanwhile, an
\* answer never mixes two loads, nor keeps rows beyond their time.
ServesCachedTable == Promised!Spec

\* "Maximum time for which tabular data is cached in the Net-SNMP
\* container": what a request is answered with was read within the
\* CacheTimeout, and for it alone when the CacheTimeout is negative.
ServedIsFresh ==
  pc = "serve" =>
    \A ctx \in container :
      CASE CacheTimeout < 0 -> ctx.read = now /\ ctx.load = loads
        [] CacheTimeout = 0 -> now - ctx.read < Default
        [] OTHER -> now - ctx.read < CacheTimeout

\* After a load that ended well the container has the rows the SkipFunction
\* leaves and an index is made for, and no others, until the table changes.
ContainerIsTheTable ==
  status = "success" /\ ~changed =>
    LET shown == {r \in Present : ~replica[r].skip /\ replica[r].index # Unfit}
    IN  /\ Keys = {replica[r].index : r \in shown}
        /\ \A ctx \in container :
             \E r \in shown : replica[r].index = ctx.index /\ replica[r].data = ctx.data

\* A row context gets out of reach only when the loop inserts an index the
\* container has.
NoOtherContextIsLost ==
  [][live' - Cardinality(container') > live - Cardinality(container)
       => pc = "loop" /\ \E c \in Read : c.index \in Keys]_vars
=============================================================================
