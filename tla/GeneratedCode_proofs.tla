------------------------- MODULE GeneratedCode_proofs -------------------------
(***************************************************************************)
(* Proofs about the C code that NetSnmpCodeGen writes.                     *)
(*                                                                         *)
(* The handlers (TableCache), for every set of rows and contents, every    *)
(* timeout and every bound: what is served is of one load and fresh, a     *)
(* load without a change is the table, and no row context is lost but      *)
(* under a duplicate index.                                                *)
(*                                                                         *)
(* The senders of traps (TrapSender), for every set of receivers, users    *)
(* and engine IDs, whatever fails: each message is its own receiver's, no  *)
(* receiver misses one because of another, the namespace is restored and   *)
(* the PDU is freed once.                                                  *)
(***************************************************************************)
EXTENDS TableCache, TrapSender, FiniteSetTheorems, TLAPS

RowContexts == [index: {c.index : c \in Contents}, data: {c.data : c \in Contents}, read: Nat, load: Nat]

CacheTypes ==
  /\ CacheTimeout \in Int
  /\ cache \in [valid: BOOLEAN, expired: BOOLEAN, stamp: Nat, timeout: Int]
  /\ cache.timeout = Timeout(CacheTimeout)

RowTypes ==
  /\ replica \in [Rows -> Contents \cup {Absent}]
  /\ cursor \in Rows /\ ahead \subseteq Rows

ContainerTypes == container \subseteq RowContexts /\ IsFiniteSet(container)

Scalars ==
  /\ now \in Nat /\ loads \in Nat /\ live \in Int
  /\ freed \in BOOLEAN /\ lost \in BOOLEAN /\ changed \in BOOLEAN
  /\ pc \in {"idle", "load", "loop", "serve", "undefined", "down"}

Types == CacheTypes /\ RowTypes /\ ContainerTypes /\ Scalars

\* The loop is at a row of the table unless that was freed, and comes to others.
AtRow == pc = "loop" => ahead \subseteq Present /\ (~freed => cursor \in Present)

\* The container of a cache that is not valid is empty, but while it is filled.
EmptyUnlessValid ==
  ~cache.valid /\ pc \notin {"loop", "undefined"} => container = {}

\* What a row context says about when it was read.
Dated ==
  /\ \A ctx \in container : ctx.load = loads
  /\ pc = "loop" => ~cache.valid /\ \A ctx \in container : ctx.read = now
  /\ pc = "load" => ~cache.valid
  /\ cache.stamp <= now
  /\ cache.valid => \A ctx \in container : ctx.read = cache.stamp
  /\ pc = "serve" /\ cache.valid => cache.stamp = now \/ ~Expired

\* The container is made of these rows.
Made(R) ==
  LET shown == {r \in R : ~replica[r].skip /\ replica[r].index # Unfit}
  IN  /\ Keys = {replica[r].index : r \in shown}
      /\ \A ctx \in container :
           \E r \in shown : replica[r].index = ctx.index /\ replica[r].data = ctx.data

\* While nothing changes, the loop has made the rows it has left behind.
MadeSoFar ==
  /\ pc \in {"load", "loop"} => status = "none"
  /\ pc = "loop" /\ ~changed =>
       /\ ~freed /\ ~lost /\ cursor \notin ahead
       /\ Made(Present \ (ahead \cup {cursor}))
  /\ status = "success" /\ ~changed => Made(Present)

IInv == Types /\ AtRow /\ EmptyUnlessValid /\ Dated /\ MadeSoFar

-----------------------------------------------------------------------------

LEMMA InitIInv == Init => IInv
<1> SUFFICES ASSUME Init PROVE IInv
  OBVIOUS
<1>1. CacheTypes
  <2>1. CacheTimeout \in Int /\ Timeout(CacheTimeout) \in Int
    BY TableCacheAssumption DEF Init, Timeout
  <2>2. cache = [valid |-> FALSE, expired |-> FALSE, stamp |-> 0, timeout |-> Timeout(CacheTimeout)]
    BY DEF Init
  <2>3. QED
    BY <2>1, <2>2 DEF CacheTypes
<1>2. RowTypes
  BY DEF Init, RowTypes
<1>3. ContainerTypes /\ Scalars
  <2>1. ContainerTypes
    BY FS_EmptySet DEF Init, ContainerTypes
  <2>2. now = 0 /\ loads = 0 /\ live = 0 /\ freed \in BOOLEAN /\ lost \in BOOLEAN /\ changed \in BOOLEAN /\ pc = "idle"
    BY Zenon DEF Init
  <2>3. Scalars
    BY <2>2 DEF Scalars
  <2>4. QED
    BY <2>1, <2>3
<1>4. AtRow /\ EmptyUnlessValid /\ MadeSoFar
  BY DEF Init, AtRow, EmptyUnlessValid, MadeSoFar
<1>5. Dated
  <2>1. cache.valid = FALSE /\ cache.stamp = 0 /\ now = 0 /\ container = {} /\ pc = "idle"
    BY DEF Init
  <2>2. QED
    BY <2>1 DEF Dated
<1>6. QED
  BY <1>1, <1>2, <1>3, <1>4, <1>5 DEF IInv, Types

\* What the loop reads is a row, and the row it is at while nothing changes.
LEMMA ReadIsContent ==
  ASSUME IInv, pc = "loop", NEW c \in Read
  PROVE  c \in Contents /\ (~changed => c = replica[cursor])
BY DEF IInv, AtRow, MadeSoFar, Read, Types, RowTypes, Present

\* One row is added to what was made: the row is left out, it cannot be indexed, or
\* it is inserted unless its index is there.
LEMMA MadeOneMore ==
  ASSUME NEW R \in SUBSET Rows, NEW r \in Rows, Made(R), UNCHANGED replica,
         \/ replica[r].skip /\ UNCHANGED container
         \/ replica[r].index = Unfit /\ UNCHANGED container
         \/ ~replica[r].skip /\ replica[r].index # Unfit /\ replica[r].index \in Keys /\ UNCHANGED container
         \/ /\ ~replica[r].skip /\ replica[r].index # Unfit
            /\ container' = container \cup {[index |-> replica[r].index, data |-> replica[r].data,
                                             read |-> now, load |-> loads]}
  PROVE  Made(R \cup {r})'
<1> DEFINE Shown(S) == {x \in S : ~replica[x].skip /\ replica[x].index # Unfit}
           Indexes(S) == {replica[x].index : x \in Shown(S)}
           Has(C, S) == \A ctx \in C : \E x \in Shown(S) : replica[x].index = ctx.index /\ replica[x].data = ctx.data
<1>1. Keys = Indexes(R) /\ Has(container, R)
  BY DEF Made
<1>2. SUFFICES Keys' = Indexes(R \cup {r}) /\ Has(container', R \cup {r})
  BY DEF Made
<1>3. CASE replica[r].skip \/ replica[r].index = Unfit
  <2>1. Shown(R \cup {r}) = Shown(R) /\ container' = container
    BY <1>3
  <2>2. Keys' = Keys
    BY <2>1 DEF Keys
  <2>3. QED
    BY <1>1, <2>1, <2>2
<1>4. CASE ~replica[r].skip /\ replica[r].index # Unfit /\ replica[r].index \in Keys /\ UNCHANGED container
  <2>1. Shown(R \cup {r}) = Shown(R) \cup {r} /\ Keys' = Keys
    BY <1>4 DEF Keys
  <2>2. Indexes(R \cup {r}) = Indexes(R) \cup {replica[r].index}
    BY <2>1
  <2>3. Has(container, R \cup {r})
    BY <1>1, <2>1
  <2>4. QED
    BY <1>1, <1>4, <2>1, <2>2, <2>3
<1>5. CASE /\ ~replica[r].skip /\ replica[r].index # Unfit
           /\ container' = container \cup {[index |-> replica[r].index, data |-> replica[r].data,
                                            read |-> now, load |-> loads]}
  <2> DEFINE new == [index |-> replica[r].index, data |-> replica[r].data, read |-> now, load |-> loads]
  <2>1. new.index = replica[r].index /\ new.data = replica[r].data
    OBVIOUS
  <2>2. Shown(R \cup {r}) = Shown(R) \cup {r}
    BY <1>5
  <2>3. Indexes(R \cup {r}) = Indexes(R) \cup {replica[r].index}
    BY <2>2
  <2>4. container' = container \cup {new}
    BY <1>5
  <2> HIDE DEF new
  <2>5. Keys' = Keys \cup {replica[r].index}
    BY <2>1, <2>4 DEF Keys
  <2>6. Has(container', R \cup {r})
    BY <1>1, <2>1, <2>2, <2>4
  <2>7. QED
    BY <1>1, <2>3, <2>5, <2>6
<1>6. QED
  BY <1>3, <1>4, <1>5

\* The container gets at most one row more.
LEMMA OneRowMore ==
  ASSUME IInv, InsertRow
  PROVE  \E c \in Read :
           /\ ~c.skip /\ c.index # Unfit
           /\ \/ c.index \in Keys /\ container' = container
              \/ /\ c.index \notin Keys
                 /\ container' = container \cup {[index |-> c.index, data |-> c.data, read |-> now, load |-> loads]}
BY DEF InsertRow

LEMMA ContextIsTyped ==
  ASSUME Types, NEW c \in Contents
  PROVE  [index |-> c.index, data |-> c.data, read |-> now, load |-> loads] \in RowContexts
BY DEF Types, Scalars, RowContexts

\* Loaded and the end of the loop, seen from the cache.
LEMMA LoadedTyped ==
  ASSUME Types, NEW ret, Loaded(ret), UNCHANGED CacheTimeout
  PROVE  CacheTypes' /\ pc' = "serve"
BY DEF Types, CacheTypes, Scalars, Loaded, Timeout

LEMMA CacheTypesKept ==
  ASSUME IInv, [Next]_vars
  PROVE  CacheTypes'
<1> USE DEF IInv, Types, CacheTypes
<1>1. CASE Request \/ ReleaseExpired
  BY <1>1 DEF Request, ReleaseExpired
<1>2. CASE \E ret \in {"error", "unavailable", "success"} : Loaded(ret) /\ UNCHANGED CacheTimeout
  BY <1>2, LoadedTyped
<1>3. CASE UNCHANGED <<CacheTimeout, cache>>
  BY <1>3
<1>4. QED
  BY <1>1, <1>2, <1>3 DEF Next, vars, Commit, Tick, FirstFails, First, SkipRow, AllocateFails,
                          IndexesFail,
                          InsertRow, LoopBreaks, Serve, GetScalar, Shutdown, Advance

LEMMA RowTypesKept ==
  ASSUME IInv, [Next]_vars
  PROVE  RowTypes'
<1> USE DEF IInv, Types, RowTypes, Present, loadVars, replicaVars
<1>1. CASE Commit
  BY <1>1 DEF Commit
<1>2. CASE First
  BY <1>2 DEF First, Reached
<1>3. CASE Advance /\ UNCHANGED replica
  BY <1>3 DEF Advance
<1>4. CASE UNCHANGED <<replica, cursor, ahead>>
  BY <1>4
<1>5. QED
  BY <1>1, <1>2, <1>3, <1>4 DEF Next, vars, Tick, Request, ReleaseExpired, FirstFails, SkipRow,
                                AllocateFails,
                                IndexesFail, InsertRow, LoopBreaks, Serve, GetScalar, Shutdown

LEMMA ContainerTypesKept ==
  ASSUME IInv, [Next]_vars
  PROVE  ContainerTypes'
<1> USE DEF IInv, Types, ContainerTypes
<1>1. CASE InsertRow
  <2>1. PICK c \in Read : container' = container \/
               container' = container \cup {[index |-> c.index, data |-> c.data, read |-> now, load |-> loads]}
    BY <1>1, OneRowMore
  <2>2. c \in Contents
    BY <1>1, ReadIsContent DEF InsertRow
  <2>3. [index |-> c.index, data |-> c.data, read |-> now, load |-> loads] \in RowContexts
    BY <2>2, ContextIsTyped
  <2>4. QED
    BY <2>1, <2>3, FS_AddElement
<1>2. CASE container' = {} \/ container' = container
  BY <1>2, FS_EmptySet
<1>3. QED
  BY <1>1, <1>2 DEF Next, vars, Commit, Tick, Request, ReleaseExpired, FirstFails, First, SkipRow,
                    AllocateFails,
                    IndexesFail, LoopBreaks, Serve, GetScalar, Shutdown

LEMMA ScalarsKept ==
  ASSUME IInv, [Next]_vars
  PROVE  Scalars'
<1> USE DEF IInv, Types, Scalars
<1>1. Cardinality(container) \in Nat
  BY FS_CardinalityType DEF ContainerTypes
<1>2. CASE Request
  <2>1. UNCHANGED <<now, freed, lost>>
    BY <1>2 DEF Request, loadVars
  <2>2. CASE cache.valid /\ ~Expired
    BY <1>2, <2>1, <2>2 DEF Request
  <2>3. CASE ~(cache.valid /\ ~Expired)
    <3>1. loads' = loads + 1 /\ pc' = "load" /\ (live' = Freed \/ live' = live)
      BY <1>2, <2>3 DEF Request
    <3>3. changed' \in BOOLEAN
      BY <1>2, <2>3, Zenon DEF Request
    <3>2. QED
      BY <1>1, <2>1, <3>1, <3>3 DEF Freed
  <2>4. QED
    BY <2>2, <2>3
<1>3. CASE ReleaseExpired
  BY <1>1, <1>3 DEF ReleaseExpired, Freed, loadVars
<1>4. CASE Shutdown
  BY <1>1, <1>4 DEF Shutdown, Freed, loadVars
<1>5. CASE Tick \/ Serve \/ GetScalar \/ LoopBreaks \/ UNCHANGED vars
  BY <1>5 DEF vars, loadVars, Tick, LoopBreaks, Serve, GetScalar
<1>6. CASE FirstFails \/ AllocateFails
  BY <1>6 DEF FirstFails, AllocateFails, Loaded, loadVars
<1>7. CASE First
  BY <1>7 DEF First
<1>8. CASE Commit
  <2>1. freed' \in BOOLEAN
    BY <1>8, Zenon DEF Commit
  <2>3. lost' = lost \/ lost' = (lost \/ (pc = "loop" /\ joined))
    BY <1>8, Zenon DEF Commit
  <2>4. lost' \in BOOLEAN
    BY <2>3, Zenon
  <2>2. QED
    BY <1>8, <2>1, <2>4 DEF Commit
<1>9. CASE pc = "loop" /\ Advance /\ live' \in {live, live + 1} /\ UNCHANGED <<now, loads, changed>>
  <2>1. freed' \in BOOLEAN /\ lost' \in BOOLEAN /\ pc' \in {"loop", "serve"}
    BY <1>9 DEF Advance, Loaded, loadVars
  <2>2. QED
    BY <1>9, <2>1
<1>10. CASE SkipRow
  BY <1>9, <1>10 DEF SkipRow
<1>11. CASE IndexesFail
  BY <1>9, <1>11 DEF IndexesFail, ReleasedUnfit
<1>12. CASE InsertRow
  <2>1. pc = "loop" /\ Advance /\ live' = live + 1 /\ UNCHANGED <<now, loads, changed>>
    BY <1>12, Zenon DEF InsertRow
  <2>2. QED
    BY <1>9, <2>1
<1>13. QED
  BY <1>2, <1>3, <1>4, <1>5, <1>6, <1>7, <1>8, <1>10, <1>11, <1>12 DEF Next

LEMMA AtRowKept ==
  ASSUME IInv, [Next]_vars
  PROVE  AtRow'
<1> USE DEF IInv, Types, RowTypes, AtRow, Present, loadVars, replicaVars
<1>1. CASE Commit
  BY <1>1 DEF Commit
<1>2. CASE First
  BY <1>2 DEF First, Reached
<1>3. CASE Advance /\ UNCHANGED replica /\ pc = "loop"
  BY <1>3 DEF Advance, Loaded
<1>4. CASE UNCHANGED <<replica, cursor, ahead, freed, pc>> \/ (pc' # "loop" /\ UNCHANGED replica)
  BY <1>4
<1>5. QED
  BY <1>1, <1>2, <1>3, <1>4 DEF Next, vars, Tick, Request, ReleaseExpired, FirstFails, SkipRow,
                                AllocateFails,
                                IndexesFail, InsertRow, LoopBreaks, Serve, GetScalar, Shutdown, Loaded

LEMMA EmptyUnlessValidKept ==
  ASSUME IInv, [Next]_vars
  PROVE  EmptyUnlessValid'
<1> USE DEF IInv, Types, Scalars, CacheTypes, EmptyUnlessValid, Dated
<1>1. CASE Request \/ ReleaseExpired \/ Shutdown
  BY <1>1 DEF Request, ReleaseExpired, Shutdown
<1>2. CASE FirstFails \/ AllocateFails
  BY <1>2 DEF FirstFails, AllocateFails, Loaded, IsFailure
<1>3. CASE SkipRow \/ IndexesFail \/ InsertRow
  BY <1>3 DEF SkipRow, IndexesFail, InsertRow, Advance, Loaded, IsFailure
<1>4. CASE Commit \/ Tick \/ First \/ LoopBreaks \/ Serve \/ GetScalar \/ UNCHANGED vars
  BY <1>4 DEF vars, Commit, Tick, First, LoopBreaks, Serve, GetScalar
<1>5. QED
  BY <1>1, <1>2, <1>3, <1>4 DEF Next

LEMMA DatedKept ==
  ASSUME IInv, [Next]_vars
  PROVE  Dated'
<1> USE DEF IInv, Types, Scalars, CacheTypes, EmptyUnlessValid, Dated
<1>1. CASE Request
  <2>1. CASE cache.valid /\ ~Expired
    BY <1>1, <2>1 DEF Request, Expired
  <2>2. CASE ~(cache.valid /\ ~Expired)
    <3>1. container' = {} /\ pc' = "load" /\ now' = now
      BY <1>1, <2>2 DEF Request
    <3>2. cache' = [cache EXCEPT !.valid = FALSE, !.expired = TRUE]
      BY <1>1, <2>2 DEF Request
    <3>3. cache'.valid = FALSE /\ cache'.stamp = cache.stamp
      BY <3>2
    <3>4. QED
      BY <3>1, <3>3
  <2>3. QED
    BY <2>1, <2>2
<1>2. CASE ReleaseExpired \/ Shutdown
  BY <1>2 DEF ReleaseExpired, Shutdown
<1>3. ASSUME NEW ret, Loaded(ret)
      PROVE  /\ pc' = "serve"
             /\ cache'.valid => cache'.stamp = now
             /\ cache'.stamp \in {now, cache.stamp}
             /\ IsFailure(ret) => ~cache'.valid
  <2>1. CASE IsFailure(ret)
    BY <1>3, <2>1 DEF Loaded
  <2>2. CASE ~IsFailure(ret)
    BY <1>3, <2>2 DEF Loaded
  <2>3. QED
    BY <1>3, <2>1, <2>2 DEF Loaded
<1>4. CASE Advance /\ UNCHANGED <<now, loads>> /\ pc = "loop"
            /\ \A ctx \in container' \ container : ctx.read = now /\ ctx.load = loads
  <2>1. CASE ahead = {}
    <3>1. Loaded("success")
      BY <1>4, <2>1 DEF Advance
    <3>2. QED
      BY <1>4, <3>1, <1>3
  <2>2. CASE ahead # {}
    <3>1. UNCHANGED <<cache, pc>>
      BY <1>4, <2>2 DEF Advance
    <3>2. QED
      BY <1>4, <3>1
  <2>3. QED
    BY <2>1, <2>2
<1>11. CASE FirstFails
  <2>1. Loaded("error") /\ IsFailure("error") /\ UNCHANGED <<now, loads, container>>
    BY <1>11 DEF FirstFails, IsFailure
  <2>2. QED
    BY <2>1, <1>3
<1>12. CASE AllocateFails
  <2>1. Loaded("unavailable") /\ UNCHANGED <<now, loads, container>> /\ pc = "loop"
    BY <1>12 DEF AllocateFails
  <2>2. QED
    BY <2>1, <1>3
<1>5. CASE Tick
  BY <1>5 DEF Tick
<1>6. CASE Commit \/ Serve \/ GetScalar \/ UNCHANGED vars
  BY <1>6 DEF vars, Commit, Serve, GetScalar, Expired
<1>7. CASE First \/ LoopBreaks
  BY <1>7 DEF First, LoopBreaks
<1>8. CASE SkipRow \/ IndexesFail
  BY <1>4, <1>8 DEF SkipRow, IndexesFail
<1>9. CASE InsertRow
  <2>1. \A ctx \in container' \ container : ctx.read = now /\ ctx.load = loads
    BY <1>9, OneRowMore
  <2>2. QED
    BY <1>4, <1>9, <2>1 DEF InsertRow
<1>10. QED
  BY <1>1, <1>2, <1>5, <1>6, <1>7, <1>8, <1>9, <1>11, <1>12 DEF Next

\* A step of the loop that makes the row it is at.
LEMMA MadeByAdvance ==
  ASSUME NEW R, IInv, pc = "loop", Advance, UNCHANGED <<replica, changed>>,
         R = Present \ ahead, ~changed => Made(R)'
  PROVE  MadeSoFar'
<1> USE DEF IInv, MadeSoFar, AtRow
<1>1. CASE ahead = {}
  <2>1. pc' = "serve" /\ R = Present
    BY <1>1 DEF Advance, Loaded
  <2>2. Present' = Present
    BY DEF Present
  <2>3. QED
    BY <2>1, <2>2
<1>2. CASE ahead # {}
  <2>1. PICK r \in ahead : cursor' = r /\ ahead' = ahead \ {r}
    BY <1>2 DEF Advance
  <2>2. ~freed' /\ UNCHANGED <<lost, pc, status>>
    BY <1>2 DEF Advance
  <2>3. R = Present' \ (ahead' \cup {cursor'})
    BY <2>1 DEF Present
  <2>4. QED
    BY <2>1, <2>2, <2>3
<1>3. QED
  BY <1>1, <1>2

LEMMA MadeKept ==
  ASSUME NEW R, Made(R), UNCHANGED <<replica, container>>
  PROVE  Made(R)'
BY DEF Made, Keys

LEMMA MadeSoFarKept ==
  ASSUME IInv, [Next]_vars
  PROVE  MadeSoFar'
<1> USE DEF IInv, Types, Scalars, MadeSoFar
<1>1. CASE Request
  <2>1. CASE cache.valid /\ ~Expired
    <3>1. UNCHANGED <<replica, container, status, changed>> /\ pc' = "serve"
      BY <1>1, <2>1 DEF Request, replicaVars
    <3>2. Present' = Present
      BY <3>1 DEF Present
    <3>3. QED
      BY <3>1, <3>2, MadeKept
  <2>2. CASE ~(cache.valid /\ ~Expired)
    <3>1. status' = "none" /\ pc' = "load"
      BY <1>1, <2>2 DEF Request
    <3>2. QED
      BY <3>1
  <2>3. QED
    BY <2>1, <2>2
<1>2. CASE ReleaseExpired \/ Shutdown
  BY <1>2 DEF ReleaseExpired, Shutdown
<1>3. CASE Commit
  BY <1>3 DEF Commit
<1>4. CASE FirstFails \/ AllocateFails
  BY <1>4 DEF FirstFails, AllocateFails, Loaded
<1>5. CASE First
  <2>1. container = {} /\ ~freed' /\ ~lost' /\ pc' = "loop" /\ UNCHANGED <<status, container, replica>>
    BY <1>5 DEF First, replicaVars, EmptyUnlessValid, Dated
  <2>2. Present' \ (ahead' \cup {cursor'}) = {} /\ cursor' \notin ahead'
    BY <1>5, <2>1 DEF First, Reached, Present
  <2>3. Made({})'
    BY <2>1 DEF Made, Keys
  <2>4. QED
    BY <1>5, <2>1, <2>2, <2>3 DEF First
<1>6. CASE Tick \/ LoopBreaks \/ Serve \/ GetScalar \/ UNCHANGED vars
  <2>1. UNCHANGED <<replica, container, status, changed>> /\ (pc' # "loop" \/ UNCHANGED <<pc, freed, lost, cursor, ahead>>)
        /\ (pc' # "load" \/ UNCHANGED pc)
    BY <1>6 DEF vars, replicaVars, loadVars, Tick, LoopBreaks, Serve, GetScalar
  <2>2. Present' = Present
    BY <2>1 DEF Present
  <2>3. status = "success" /\ ~changed => Made(Present)'
    BY <2>1, <2>2, MadeKept
  <2>4. CASE pc' # "loop"
    BY <2>1, <2>2, <2>3, <2>4
  <2>5. CASE UNCHANGED <<pc, freed, lost, cursor, ahead>>
    BY <2>1, <2>2, <2>3, <2>5, MadeKept
  <2>6. QED
    BY <2>1, <2>4, <2>5
<1>7. ASSUME SkipRow \/ IndexesFail \/ InsertRow
      PROVE  MadeSoFar'
  <2>1. pc = "loop" /\ Advance /\ UNCHANGED <<replica, changed>>
    BY <1>7, Zenon DEF SkipRow, IndexesFail, InsertRow, replicaVars
  <2>2. ASSUME NEW R, R = Present \ ahead, ~changed
        PROVE  Made(R)'
    <3>1. PICK B, k : B = Present \ (ahead \cup {cursor}) /\ k = cursor
      OBVIOUS
    <3>2. /\ Made(B) /\ k \in Present /\ k \notin ahead /\ ahead \subseteq Present
          /\ B \in SUBSET Rows /\ k \in Rows /\ R = B \cup {k}
      BY <2>1, <2>2, <3>1 DEF AtRow, RowTypes, Present
    <3>3. \A c \in Read : c = replica[k]
      BY <2>1, <2>2, <3>1, ReadIsContent
    <3>4. \/ replica[k].skip /\ UNCHANGED container
          \/ replica[k].index = Unfit /\ UNCHANGED container
          \/ ~replica[k].skip /\ replica[k].index # Unfit /\ replica[k].index \in Keys /\ UNCHANGED container
          \/ /\ ~replica[k].skip /\ replica[k].index # Unfit
             /\ container' = container \cup {[index |-> replica[k].index, data |-> replica[k].data,
                                              read |-> now, load |-> loads]}
      <4>1. CASE SkipRow \/ IndexesFail
        BY <3>3, <4>1 DEF SkipRow, IndexesFail
      <4>2. CASE InsertRow
        BY <3>3, <4>2, OneRowMore
      <4>3. QED
        BY <1>7, <4>1, <4>2
    <3>5. UNCHANGED replica
      BY <2>1
    <3>6. QED
      BY <3>2, <3>4, <3>5, MadeOneMore
  <2>3. QED
    BY <2>1, <2>2, MadeByAdvance
<1>8. QED
  BY <1>1, <1>2, <1>3, <1>4, <1>5, <1>6, <1>7 DEF Next

-----------------------------------------------------------------------------

\* IInv is inductive, whatever the OVSDB thread does in the middle of a load.
THEOREM Invariant == Spec => []IInv
<1>1. ASSUME IInv, [Next]_vars PROVE IInv'
  BY <1>1, CacheTypesKept, RowTypesKept, ContainerTypesKept, ScalarsKept, AtRowKept,
  EmptyUnlessValidKept,
     DatedKept, MadeSoFarKept DEF IInv, Types
<1>2. QED
  BY <1>1, InitIInv, PTL DEF Spec

\* What a request is answered with is not older than the CacheTimeout of the
\* mapping file allows.
THEOREM Fresh == Spec => []ServedIsFresh
<1>1. ASSUME IInv PROVE ServedIsFresh
  <2> SUFFICES ASSUME pc = "serve", NEW ctx \in container
               PROVE  /\ CacheTimeout < 0 => ctx.read = now /\ ctx.load = loads
                      /\ CacheTimeout = 0 => now - ctx.read < Default
                      /\ CacheTimeout > 0 => now - ctx.read < CacheTimeout
    BY <1>1 DEF ServedIsFresh, IInv, Types, CacheTypes
  <2>1. /\ CacheTimeout \in Int /\ cache.stamp \in Nat /\ now \in Nat /\ cache.stamp <= now
        /\ cache.timeout = Timeout(CacheTimeout) /\ Default \in Nat \ {0}
    BY <1>1, TableCacheAssumption DEF IInv, Types, CacheTypes, Scalars, Dated
  <2>2. cache.valid /\ ctx.read = cache.stamp /\ ctx.load = loads
    BY <1>1 DEF IInv, EmptyUnlessValid, Dated
  <2>3. CASE cache.stamp = now
    BY <2>1, <2>2, <2>3
  <2>4. CASE ~Expired
    BY <2>1, <2>2, <2>4 DEF Expired, Timeout
  <2>5. QED
    BY <1>1, <2>2, <2>3, <2>4 DEF IInv, Dated
<1>2. QED
  BY <1>1, Invariant, PTL

\* After a load that ended well, and as long as the table has not changed since the
\* load began, the container has an entry for each index of the rows that are shown,
\* made of a row with that index, and no other entry (of rows with equal indexes one
\* is kept). Once a row has changed it says nothing, not even of the other rows.
THEOREM ContainerIsTable == Spec => []ContainerIsTheTable
<1>1. IInv => ContainerIsTheTable
  BY DEF IInv, MadeSoFar, Made, ContainerIsTheTable
<1>2. QED
  BY <1>1, Invariant, PTL

\* No step loses a row context but the insertion of an index the container has.
THEOREM OthersAreNotLost == Spec => NoOtherContextIsLost
<1>1. ASSUME IInv, [Next]_vars, live' - Cardinality(container') > live - Cardinality(container)
      PROVE  pc = "loop" /\ \E c \in Read : c.index \in Keys
  <2>1. live \in Int /\ IsFiniteSet(container) /\ Cardinality(container) \in Nat
    BY <1>1, FS_CardinalityType DEF IInv, Types, Scalars, ContainerTypes
  <2>2. Cardinality({}) = 0
    BY FS_EmptySet
  <2>3. CASE container' = {} /\ live' = Freed
    BY <1>1, <2>1, <2>2, <2>3 DEF Freed
  <2>4. CASE UNCHANGED <<container, live>>
    BY <1>1, <2>1, <2>4
  <2>5. CASE InsertRow
    <3>1. PICK c \in Read :
            \/ c.index \in Keys /\ container' = container
            \/ /\ c.index \notin Keys
               /\ container' = container \cup {[index |-> c.index, data |-> c.data, read |-> now, load |-> loads]}
      BY <1>1, <2>5, OneRowMore
    <3>2. pc = "loop" /\ live' = live + 1
      BY <2>5, Zenon DEF InsertRow
    <3>3. CASE c.index \in Keys
      BY <3>2, <3>3
    <3>4. CASE c.index \notin Keys
      <4> DEFINE new == [index |-> c.index, data |-> c.data, read |-> now, load |-> loads]
      <4>1. container' = container \cup {new} /\ new.index = c.index
        BY <3>1, <3>4
      <4>2. new \notin container
        BY <3>4, <4>1 DEF Keys
      <4> HIDE DEF new
      <4>3. Cardinality(container') = Cardinality(container) + 1
        BY <2>1, <4>1, <4>2, FS_AddElement
      <4>4. QED
        BY <1>1, <2>1, <3>2, <4>3
    <3>5. QED
      BY <3>3, <3>4
  <2>6. CASE Request
    BY <2>3, <2>4, <2>6 DEF Request
  <2>7. QED
    BY <1>1, <2>3, <2>4, <2>5, <2>6 DEF Next, vars, Commit, Tick, ReleaseExpired, FirstFails, First,
                                        SkipRow,
       AllocateFails, IndexesFail, ReleasedUnfit, LoopBreaks, Serve, GetScalar, Shutdown
<1>2. QED
  BY <1>1, Invariant, PTL DEF Spec, NoOtherContextIsLost

\* The variables the invariant says nothing about.
RestTypes ==
  /\ joined \in BOOLEAN
  /\ commits \in 0 .. MaxCommits
  /\ status \in {"none", "error", "unavailable", "success"}

\* The clock, the counters and the cache's state keep their types, for every
\* timeout and every number of commits and loads.
THEOREM Typed == Spec => []TypeOK
<1>1. Init => RestTypes
  BY TableCacheAssumption DEF Init, RestTypes
<1>2. RestTypes /\ [Next]_vars => RestTypes'
  <2> SUFFICES ASSUME RestTypes, [Next]_vars PROVE RestTypes'
    OBVIOUS
  <2>1. joined' = joined \/ joined' \in BOOLEAN
    BY Zenon DEF Next, vars, replicaVars, Commit, Tick, Request, ReleaseExpired, FirstFails, First,
       SkipRow, AllocateFails, IndexesFail, InsertRow, LoopBreaks, Serve, GetScalar, Shutdown
  <2>2. joined' \in BOOLEAN
    BY <2>1 DEF RestTypes
  <2>3. commits' = commits \/ (commits < MaxCommits /\ commits' = commits + 1)
    BY Zenon DEF Next, vars, replicaVars, Commit, Tick, Request, ReleaseExpired, FirstFails, First,
       SkipRow, AllocateFails, IndexesFail, InsertRow, LoopBreaks, Serve, GetScalar, Shutdown
  <2>4. commits' \in 0 .. MaxCommits
    BY <2>3, TableCacheAssumption DEF RestTypes
  <2>5. status' \in {status, "none", "error", "unavailable", "success"}
    BY DEF Next, vars, Commit, Tick, Request, ReleaseExpired, FirstFails, First, SkipRow, Advance,
       Loaded, AllocateFails, IndexesFail, InsertRow, LoopBreaks, Serve, GetScalar, Shutdown
  <2>6. QED
    BY <2>2, <2>4, <2>5 DEF RestTypes
<1>3. IInv /\ RestTypes => TypeOK
  BY DEF IInv, Types, CacheTypes, RowTypes, ContainerTypes, RowContexts, Scalars, RestTypes, TypeOK
<1>4. QED
  BY <1>1, <1>2, <1>3, Invariant, PTL DEF Spec

-----------------------------------------------------------------------------
(* The cache implements CachedTable.                                       *)

Shown == IF pc \in {"loop", "undefined"} THEN {} ELSE container

Asked == pc = "serve"

LEMMA PromisedInit == Init => Promised!Init
BY TableCacheAssumption DEF Init, Promised!Init

\* A load ends, and the request that caused it is answered from its rows.
LEMMA LoadEnds ==
  ASSUME IInv, IInv', pc \in {"load", "loop"}, pc' = "serve",
         UNCHANGED <<CacheTimeout, loads, now>>,
         cache'.valid => cache'.stamp = now
  PROVE  Promised!Refill
<1>1. Shown = {} /\ ~Asked /\ Asked'
  BY DEF Shown, Asked, IInv, EmptyUnlessValid, Dated
<1>2. Shown' = container'
  BY DEF Shown
<1>3. \A r \in container' : r.read = now /\ r.load = loads
  BY DEF IInv, EmptyUnlessValid, Dated
<1>4. QED
  BY <1>1, <1>2, <1>3 DEF Promised!Refill, Shown, Asked

\* While a load is at work nothing is promised.
LEMMA LoadGoesOn ==
  ASSUME IInv, IInv', pc \in {"load", "loop"}, pc' \in {"loop", "undefined"},
         UNCHANGED <<CacheTimeout, loads, now>>
  PROVE  UNCHANGED Promised!vars
<1>1. Shown = {} /\ Shown' = {} /\ ~Asked /\ ~Asked'
  BY DEF Shown, Asked, IInv, EmptyUnlessValid, Dated
<1>2. QED
  BY <1>1 DEF Promised!vars, Shown, Asked

\* What the loop's step does to the cache.
LEMMA Advances ==
  ASSUME IInv, Advance
  PROVE  \/ pc' = pc
         \/ pc' = "serve" /\ cache'.valid /\ cache'.stamp = now
<1>1. cache \in [valid: BOOLEAN, expired: BOOLEAN, stamp: Nat, timeout: Int]
  BY DEF IInv, Types, CacheTypes
<1>2. CASE Loaded("success")
  BY <1>1, <1>2 DEF Loaded, IsFailure
<1>3. QED
  BY <1>2 DEF Advance

\* Requests that find the rows fresh.
LEMMA RequestHits ==
  ASSUME IInv, Request, cache.valid, ~Expired
  PROVE  Promised!Hit
<1>1. /\ pc = "idle" /\ pc' = "serve" /\ container' = container
      /\ UNCHANGED <<CacheTimeout, now, loads>>
  <2>1. pc = "idle" /\ pc' = "serve" /\ container' = container /\ UNCHANGED <<CacheTimeout, now>>
    BY Zenon DEF Request, replicaVars, loadVars
  <2>2. UNCHANGED loads
    BY DEF Request
  <2>3. QED
    BY <2>1, <2>2
<1>2. /\ CacheTimeout \in Int /\ cache.stamp \in Nat /\ now \in Nat
      /\ cache.timeout = Timeout(CacheTimeout) /\ Default \in Nat \ {0}
  BY TableCacheAssumption DEF IInv, Types, CacheTypes, Scalars
<1>3. \A r \in container : r.read = cache.stamp
  BY DEF IInv, Dated
<1>4. now - cache.stamp < (IF CacheTimeout = 0 THEN Default ELSE CacheTimeout)
  BY <1>2 DEF Expired, Timeout
<1>5. \A r \in container : now - r.read < (IF CacheTimeout = 0 THEN Default ELSE CacheTimeout)
  BY <1>3, <1>4
<1>6. QED
  BY <1>1, <1>5 DEF Promised!Hit, Promised!Limit

\* The rows are given up.
LEMMA GivenUp ==
  ASSUME IInv, IInv', pc \in {"idle", "load"}, pc' \in {"idle", "load", "down", "undefined"},
         container' = {} \/ pc' = "undefined", UNCHANGED <<CacheTimeout, now>>,
         loads' \in {loads, loads + 1}
  PROVE  Promised!Expire
BY DEF Promised!Expire

LEMMA PromisedNext ==
  ASSUME IInv, IInv', [Next]_vars
  PROVE  [Promised!Next]_(Promised!vars)
<1> USE DEF Promised!Next
<1>1. CASE Commit
  BY <1>1 DEF Commit, Promised!vars
<1>2. CASE Tick
  BY <1>2 DEF Tick, Promised!Tick
<1>3. CASE Request
  <2>1. CASE cache.valid /\ ~Expired
    BY <1>3, <2>1, RequestHits
  <2>2. CASE ~(cache.valid /\ ~Expired)
    <3>1. /\ pc = "idle" /\ pc' = "load" /\ loads' = loads + 1 /\ UNCHANGED <<CacheTimeout, now>>
          /\ cache' = [cache EXCEPT !.valid = FALSE, !.expired = TRUE]
      BY <1>3, <2>2 DEF Request
    <3>2. container' = {}
      BY <3>1 DEF IInv, EmptyUnlessValid, Types, CacheTypes, Dated
    <3>3. QED
      BY <3>1, <3>2, GivenUp
  <2>3. QED
    BY <2>1, <2>2
<1>4. CASE ReleaseExpired \/ Shutdown
  BY <1>4, GivenUp DEF ReleaseExpired, Shutdown
<1>5. CASE FirstFails
  <2>1. cache \in [valid: BOOLEAN, expired: BOOLEAN, stamp: Nat, timeout: Int]
    BY DEF IInv, Types, CacheTypes
  <2>2. QED
    BY <1>5, <2>1, LoadEnds DEF FirstFails, Loaded, IsFailure
<1>6. CASE AllocateFails
  <2>1. cache \in [valid: BOOLEAN, expired: BOOLEAN, stamp: Nat, timeout: Int]
    BY DEF IInv, Types, CacheTypes
  <2>2. QED
    BY <1>6, <2>1, LoadEnds DEF AllocateFails, Loaded, IsFailure
<1>7. CASE First \/ LoopBreaks
  BY <1>7, LoadGoesOn DEF First, LoopBreaks
<1>8. CASE SkipRow \/ IndexesFail \/ InsertRow
  <2>1. pc = "loop" /\ Advance /\ UNCHANGED <<CacheTimeout, loads, now>>
    BY <1>8 DEF SkipRow, IndexesFail, InsertRow
  <2>2. CASE pc' = pc
    BY <2>1, <2>2, LoadGoesOn
  <2>3. CASE pc' = "serve" /\ cache'.valid /\ cache'.stamp = now
    BY <2>1, <2>3, LoadEnds
  <2>4. QED
    BY <2>1, <2>2, <2>3, Advances
<1>9. CASE Serve
  BY <1>9 DEF Serve, Promised!Answer
<1>10. CASE GetScalar
  <2>1. CASE pc' = "idle"
    BY <1>10, <2>1 DEF GetScalar, Promised!vars
  <2>2. CASE pc' = "undefined"
    BY <1>10, <2>2, GivenUp DEF GetScalar
  <2>3. QED
    BY <1>10, <2>1, <2>2 DEF GetScalar
<1>11. CASE UNCHANGED vars
  BY <1>11 DEF vars, Promised!vars
<1>12. QED
  BY <1>1, <1>2, <1>3, <1>4, <1>5, <1>6, <1>7, <1>8, <1>9, <1>10, <1>11 DEF Next

\* The cache of a generated table implements CachedTable for every timeout: no
\* answer mixes two loads, although a load may be given up half way, and none
\* is of rows that are too old.
THEOREM ImplementsCachedTable == Spec => ServesCachedTable
BY PromisedInit, PromisedNext, Invariant, PTL DEF Spec, ServesCachedTable, Promised!Spec

-----------------------------------------------------------------------------
(* The senders of traps.                                                   *)

\* The row is in work.
AtReceiver == {"community", "user", "pdu", "open", "add", "back", "cleanup", "done"}

\* The session is complete when the PDU is built.
Prepared == {"pdu", "open", "add"}

Sessions == [version: {"v1", "v2c", "v3", None}, community: {"global_trap_community", None},
             user: {r.name : r \in Receivers} \cup {None}, engine: Macs \cup {None}]

\* The session is that of the row: its pointer is to the buffer that has the row's
\* community, or it has the row's user.
SessionOfRow ==
  /\ session \in Sessions
  /\ rows_left \subseteq asked
  /\ send_pc \in AtReceiver => row \in asked /\ session.version = row.version
  /\ send_pc = "community" => row.version # "v3" /\ session.user = None
  /\ send_pc = "user" => row.version = "v3" /\ session.community = None /\ session.user = None
  /\ send_pc \in Prepared =>
       IF session.community = "global_trap_community"
         THEN row.version # "v3" /\ global_trap_community = Community(row.name)
         ELSE row.version = "v3" /\ session.user = row.name

\* The row has its message, or a reason of its own to have none.
IsServed(r) ==
  \/ \E m \in sent : m.row = r
  \/ r \in failed
  \/ r.version = "v3" /\ (r.name \notin users \/ EngineId = None)

\* Every row that was begun is accounted for, but the one in work.
Accounted ==
  /\ send_pc = "idle" => rows_left = {}
  /\ \A r \in asked \ rows_left :
       IsServed(r) \/ (r = row /\ send_pc \in {"community", "user", "pdu", "open", "add"})

Home == IF nm_type = "SWNS_NAMESPACE" THEN "swns" ELSE "global"

NamespaceKept ==
  /\ send_pc \notin {"add", "back"} /\ ~stuck => netns = Home
  /\ nm_type # "SWNS_NAMESPACE" => netns = "global"

\* The rows come in turn: none that is still to come, and not the one in work
\* before it is sent, has a message.
RowsInTurn ==
  /\ \A m \in sent : m.row \in asked \ rows_left
  /\ send_pc \in AtReceiver => row \notin rows_left
  /\ send_pc \in {"community", "user", "pdu", "open", "add"} => \A m \in sent : m.row # row

IsSent == \E m \in sent : m.row = row

\* The library has not had the PDU to send.
Unreached == row \in failed /\ ~IsSent

\* Who is left to free the PDU: loop_cleanup where the row is no inform and the
\* status is not 0, else nobody.
PduKept ==
  /\ send_pc \in {"idle", "next", "community", "user", "pdu"} => send_status = 0 /\ pdu = "none"
  /\ send_pc \in {"open", "add"} => send_status = 0 /\ pdu = "live"
  /\ send_pc = "back" =>
       /\ pdu \in {"live", "freed"}
       /\ pdu = "freed" /\ ~Inform => send_status = 0 /\ IsSent
       /\ pdu = "live" => (trouble = "unsent" /\ Unreached) \/ (~Inform /\ send_status # 0)
  /\ send_pc = "cleanup" =>
       /\ pdu # "freed_twice"
       /\ pdu = "freed" /\ ~Inform /\ send_status # 0 => trouble = "switch_back" /\ IsSent
       /\ pdu = "live" =>
            \/ Unreached /\ (trouble = "unsent" \/ (trouble = "switch_back" /\ Inform))
            \/ ~Inform /\ send_status # 0
  /\ send_pc = "done" =>
       /\ pdu = "freed_twice" => trouble = "switch_back" /\ ~Inform /\ IsSent
       /\ pdu = "live" => Unreached /\ (trouble = "unsent" \/ (trouble = "switch_back" /\ Inform))

TrapIInv == TrapTypeOK /\ SessionOfRow /\ SentAsConfigured /\ Accounted /\ NamespaceKept
            /\ RowsInTurn /\ PduKept

-----------------------------------------------------------------------------

LEMMA TrapInitIInv == TrapInit => TrapIInv
<1> SUFFICES ASSUME TrapInit PROVE TrapIInv
  OBVIOUS
<1>1. TrapTypeOK
  BY TrapSenderAssumption DEF TrapInit, TrapTypeOK, NoSession
<1>2. SessionOfRow /\ SentAsConfigured
  BY DEF TrapInit, SessionOfRow, SentAsConfigured, Sessions, NoSession, AtReceiver, Prepared
<1>3. Accounted /\ NamespaceKept /\ RowsInTurn /\ PduKept
  BY DEF TrapInit, Accounted, NamespaceKept, Home, RowsInTurn, AtReceiver, PduKept
<1>4. QED
  BY <1>1, <1>2, <1>3 DEF TrapIInv

\* The engine ID of a notification does not change while its rows are served.
LEMMA EngineIdKept ==
  ASSUME global_snmp_engine_id' \in {global_snmp_engine_id, EngineId}, system_mac' = system_mac
  PROVE  EngineId' = EngineId
BY DEF EngineId

LEMMA TrapTypesKept ==
  ASSUME TrapIInv, [TrapNext]_trap_vars
  PROVE  TrapTypeOK'
<1> USE TrapSenderAssumption DEF TrapIInv, TrapTypeOK, call, loop, globals, ghosts, Goto
<1>1. CASE CallSend
  BY <1>1 DEF CallSend
<1>2. CASE NextRow
  BY <1>2 DEF NextRow, NoSession
<1>3. CASE AddCommunity
  BY <1>3 DEF AddCommunity, SessionOfRow, Sessions
<1>4. CASE AddUser
  <2>1. /\ send_pc = "user" /\ send_pc' \in {"pdu", "cleanup"}
        /\ global_snmp_engine_id' = EngineId /\ EngineId \in Macs \cup {None}
    BY <1>4 DEF AddUser, EngineId
  <2>2. (session.user # None => session.engine \in Macs)'
    BY <1>4, <2>1 DEF AddUser, UserIsKnown, SessionOfRow, Sessions
  <2>3. row \in asked
    BY <2>1 DEF SessionOfRow, AtReceiver
  <2>4. /\ UNCHANGED <<call, loop, pdu, send_status, netns, stuck>>
        /\ trouble' \in {trouble, "keys"} /\ failed' \in {failed, failed \cup {row}}
    BY <1>4 DEF AddUser, Fail
  <2>5. QED
    BY <2>1, <2>2, <2>3, <2>4
<1>5. CASE BuildPdu
  BY <1>5 DEF BuildPdu, Fail, SessionOfRow, AtReceiver
<1>6. CASE EnterNamespace \/ SwitchBack \/ SwitchBackFails
  <2>1. netns' \in {"swns", "global"} /\ send_pc' \in {"add", "cleanup"}
    BY <1>6 DEF EnterNamespace, SwitchBack, SwitchBackFails
  <2>2. trouble' \in {trouble, "switch_back"} /\ stuck' \in BOOLEAN
    BY <1>6 DEF EnterNamespace, SwitchBack, SwitchBackFails
  <2>3. send_status' \in {send_status, -1} /\ UNCHANGED <<session, pdu, call, loop, globals, failed, sent>>
    BY <1>6 DEF EnterNamespace, SwitchBack, SwitchBackFails
  <2>4. QED
    BY <2>1, <2>2, <2>3
<1>7. CASE EnterNamespaceFails \/ SnmpAddFails \/ SnmpSend
  BY <1>7 DEF EnterNamespaceFails, SnmpAddFails, SnmpSend, Fail, SessionOfRow, AtReceiver
<1>8. CASE LoopCleanup
  BY <1>8 DEF LoopCleanup, PduAfterLoop, FreedPdu
<1>9. CASE RowDone
  BY <1>9 DEF RowDone, NoSession
<1>10. CASE UNCHANGED trap_vars
  BY <1>10 DEF trap_vars
<1>11. QED
  BY <1>1, <1>2, <1>3, <1>4, <1>5, <1>6, <1>7, <1>8, <1>9, <1>10 DEF TrapNext

LEMMA SessionKept ==
  ASSUME TrapIInv, [TrapNext]_trap_vars
  PROVE  SessionOfRow'
<1> USE TrapSenderAssumption DEF TrapIInv, SessionOfRow, Sessions, AtReceiver, Prepared, call, loop,
                                 globals, Goto
<1>1. CASE CallSend
  BY <1>1 DEF CallSend
<1>2. CASE NextRow
  <2>1. PICK r \in rows_left : row' = r /\ session' = [NoSession EXCEPT !.version = r.version]
    BY <1>2 DEF NextRow
  <2>2. r \in Receivers /\ r \in asked
    BY <2>1 DEF TrapTypeOK
  <2>3. QED
    BY <1>2, <2>1, <2>2 DEF NextRow, NoSession
<1>3. CASE AddCommunity
  BY <1>3 DEF AddCommunity, TrapCommunity
<1>4. CASE AddUser
  BY <1>4 DEF AddUser, TrapTypeOK, UserIsKnown, EngineId
<1>5. CASE BuildPdu \/ EnterNamespace \/ EnterNamespaceFails \/ SnmpAddFails \/ SnmpSend
  BY <1>5 DEF BuildPdu, EnterNamespace, EnterNamespaceFails, SnmpAddFails, SnmpSend
<1>6. CASE SwitchBack \/ SwitchBackFails \/ LoopCleanup
  BY <1>6 DEF SwitchBack, SwitchBackFails, LoopCleanup
<1>7. CASE RowDone
  BY <1>7 DEF RowDone, NoSession
<1>8. CASE UNCHANGED trap_vars
  BY <1>8 DEF trap_vars
<1>9. QED
  BY <1>1, <1>2, <1>3, <1>4, <1>5, <1>6, <1>7, <1>8 DEF TrapNext

\* Each message is made from its own row's session.
LEMMA MessagesKept ==
  ASSUME TrapIInv, [TrapNext]_trap_vars
  PROVE  SentAsConfigured'
<1> USE DEF TrapIInv, SentAsConfigured, call, loop, globals, ghosts
<1>1. CASE SnmpSend
  <2>1. row \in asked /\ session.version = row.version /\ Message.row = row
    BY <1>1 DEF SnmpSend, Goto, SessionOfRow, AtReceiver, Message
  <2>2. Message.version = row.version
    BY <2>1 DEF Message
  <2>3. Message.name = IF row.version # "v3" /\ row.name = "" THEN "public" ELSE row.name
    BY <1>1 DEF SnmpSend, Goto, SessionOfRow, Prepared, Message, Community
  <2>4. sent' \subseteq sent \cup {Message}
    BY <1>1 DEF SnmpSend, Fail
  <2>5. QED
    BY <2>1, <2>2, <2>3, <2>4
<1>2. CASE CallSend
  BY <1>2 DEF CallSend
<1>3. CASE ~SnmpSend /\ ~CallSend
  <2>1. sent' = sent
    BY <1>3 DEF TrapNext, trap_vars, NextRow, AddCommunity, AddUser, BuildPdu, EnterNamespace,
                EnterNamespaceFails,
                SnmpAddFails, SwitchBack, SwitchBackFails, LoopCleanup, RowDone, Fail
  <2>2. QED
    BY <2>1
<1>4. QED
  BY <1>1, <1>2, <1>3

\* A row that is accounted for stays so until the next notification.
LEMMA ServedKept ==
  ASSUME TrapIInv, [TrapNext]_trap_vars, ~CallSend, NEW r, IsServed(r)
  PROVE  IsServed(r)'
<1> USE DEF call, loop, globals, ghosts
<1>1. sent \subseteq sent' /\ failed \subseteq failed' /\ users' = users /\ system_mac' = system_mac
  BY DEF TrapNext, trap_vars, NextRow, AddCommunity, AddUser, BuildPdu, EnterNamespace,
         EnterNamespaceFails,
         SnmpAddFails, SnmpSend, SwitchBack, SwitchBackFails, LoopCleanup, RowDone, Fail
<1>2. global_snmp_engine_id' \in {global_snmp_engine_id, EngineId}
  BY DEF TrapNext, trap_vars, NextRow, AddCommunity, AddUser, BuildPdu, EnterNamespace,
         EnterNamespaceFails,
         SnmpAddFails, SnmpSend, SwitchBack, SwitchBackFails, LoopCleanup, RowDone
<1>3. EngineId' = EngineId
  BY <1>1, <1>2, EngineIdKept
<1>4. QED
  BY <1>1, <1>3 DEF IsServed

\* A row leaves the work with its message or a reason.
LEMMA RowIsServed ==
  ASSUME TrapIInv, TrapNext, ~CallSend, send_pc \in {"user", "pdu", "open", "add"}, send_pc' \in {"back", "cleanup"}
  PROVE  IsServed(row)' /\ row' = row
<1> USE DEF call, loop, globals, ghosts
<1>1. CASE AddUser
  <2>1. row.version = "v3" /\ row' = row
    BY <1>1 DEF AddUser, TrapIInv, SessionOfRow
  <2>2. CASE UserIsKnown
    BY <1>1, <2>1, <2>2 DEF AddUser, Fail, IsServed
  <2>3. CASE ~UserIsKnown
    <3>1. EngineId' = EngineId
      BY <1>1, EngineIdKept DEF AddUser
    <3>2. QED
      BY <1>1, <2>1, <2>3, <3>1 DEF AddUser, UserIsKnown, IsServed
  <2>4. QED
    BY <2>2, <2>3
<1>2. CASE SnmpSend
  <2>1. Message.row = row
    BY DEF Message
  <2>2. Message \in sent' \/ row \in failed'
    BY <1>2 DEF SnmpSend, Fail
  <2>3. row' = row
    BY <1>2 DEF SnmpSend
  <2>4. QED
    BY <2>1, <2>2, <2>3 DEF IsServed
<1>3. CASE BuildPdu \/ EnterNamespaceFails \/ SnmpAddFails
  BY <1>3 DEF BuildPdu, EnterNamespaceFails, SnmpAddFails, Fail, IsServed
<1>4. CASE ~AddUser /\ ~SnmpSend /\ ~(BuildPdu \/ EnterNamespaceFails \/ SnmpAddFails)
  BY <1>4 DEF TrapNext, NextRow, AddCommunity, EnterNamespace, SwitchBack, SwitchBackFails, LoopCleanup,
              RowDone, Goto
<1>5. QED
  BY <1>1, <1>2, <1>3, <1>4

LEMMA AccountsKept ==
  ASSUME TrapIInv, [TrapNext]_trap_vars
  PROVE  Accounted'
<1> USE DEF TrapIInv, TrapTypeOK, Accounted, call, loop, globals, ghosts, Goto
<1>1. CASE CallSend
  BY <1>1 DEF CallSend
<1>2. CASE NextRow
  <2>1. send_pc = "next" /\ send_pc' \in {"user", "community"} /\ ~CallSend
    BY <1>2 DEF NextRow, CallSend
  <2>2. asked' = asked /\ rows_left \ rows_left' \subseteq {row'}
    BY <1>2 DEF NextRow
  <2>3. \A r \in asked' \ rows_left' : r \in rows_left \/ IsServed(r)
    BY <2>1, <2>2
  <2>4. QED
    BY <2>1, <2>2, <2>3, ServedKept
<1>3. CASE AddCommunity \/ EnterNamespace
  BY <1>3, ServedKept DEF AddCommunity, EnterNamespace, CallSend
<1>4. CASE AddUser \/ BuildPdu \/ EnterNamespaceFails \/ SnmpAddFails \/ SnmpSend
  <2>1. /\ send_pc \in {"user", "pdu", "open", "add"} /\ send_pc' \in {"pdu", "open", "cleanup", "back"}
        /\ UNCHANGED <<asked, rows_left, row>>
    BY <1>4 DEF AddUser, BuildPdu, EnterNamespaceFails, SnmpAddFails, SnmpSend
  <2>2. ~CallSend /\ TrapNext
    BY <1>4, <2>1 DEF TrapNext, CallSend
  <2>3. send_pc' \in {"back", "cleanup"} => IsServed(row)'
    BY <2>1, <2>2, RowIsServed
  <2>4. QED
    BY <2>1, <2>2, <2>3, ServedKept
<1>5. CASE SwitchBack \/ SwitchBackFails \/ LoopCleanup \/ RowDone
  <2>1. /\ send_pc \in {"back", "cleanup", "done"} /\ send_pc' \in {"cleanup", "done", "idle", "next"}
        /\ UNCHANGED <<asked, rows_left>> /\ (send_pc' = "idle" => rows_left = {})
    BY <1>5 DEF SwitchBack, SwitchBackFails, LoopCleanup, RowDone
  <2>2. ~CallSend
    BY <2>1 DEF CallSend
  <2>3. QED
    BY <2>1, <2>2, ServedKept
<1>6. CASE UNCHANGED trap_vars
  <2>1. ~CallSend \/ send_pc' = "next"
    BY DEF CallSend
  <2>2. ~CallSend
    BY <1>6, <2>1 DEF trap_vars, CallSend
  <2>3. QED
    BY <1>6, <2>2, ServedKept DEF trap_vars
<1>7. QED
  BY <1>1, <1>2, <1>3, <1>4, <1>5, <1>6 DEF TrapNext

LEMMA NamespacesKept ==
  ASSUME TrapIInv, [TrapNext]_trap_vars
  PROVE  NamespaceKept'
BY DEF TrapIInv, TrapTypeOK, NamespaceKept, Home, TrapNext, trap_vars, call, loop, globals, ghosts,
       Goto, CallSend, NextRow,
       AddCommunity, AddUser, BuildPdu, EnterNamespace, EnterNamespaceFails, SnmpAddFails, SnmpSend,
       SwitchBack, SwitchBackFails, LoopCleanup, RowDone, Fail

\* A message is of the row in work, and is made once.
LEMMA TurnsKept ==
  ASSUME TrapIInv, [TrapNext]_trap_vars
  PROVE  RowsInTurn'
<1> USE DEF TrapIInv, TrapTypeOK, RowsInTurn, AtReceiver, call, loop, globals, ghosts, Goto, Fail
<1>1. CASE CallSend
  BY <1>1 DEF CallSend
<1>2. CASE NextRow
  BY <1>2 DEF NextRow
<1>3. CASE SnmpSend
  <2>1. Message.row = row /\ row \in asked
    BY <1>3 DEF SnmpSend, Message, SessionOfRow
  <2>2. \A m \in sent' : m \in sent \/ m.row = row
    BY <1>3, <2>1 DEF SnmpSend
  <2>3. UNCHANGED <<asked, rows_left, row>> /\ send_pc = "add" /\ send_pc' = "back"
    BY <1>3 DEF SnmpSend
  <2>4. QED
    BY <2>1, <2>2, <2>3
<1>4. CASE AddCommunity \/ AddUser \/ BuildPdu \/ EnterNamespace \/ EnterNamespaceFails \/ SnmpAddFails
  BY <1>4 DEF AddCommunity, AddUser, BuildPdu, EnterNamespace, EnterNamespaceFails, SnmpAddFails
<1>5. CASE SwitchBack \/ SwitchBackFails \/ LoopCleanup \/ RowDone
  BY <1>5 DEF SwitchBack, SwitchBackFails, LoopCleanup, RowDone
<1>6. CASE UNCHANGED trap_vars
  BY <1>6 DEF trap_vars
<1>7. QED
  BY <1>1, <1>2, <1>3, <1>4, <1>5, <1>6 DEF TrapNext

LEMMA PdusKept ==
  ASSUME TrapIInv, [TrapNext]_trap_vars
  PROVE  PduKept'
<1> USE DEF TrapIInv, TrapTypeOK, PduKept, call, loop, globals, ghosts, Goto
<1>1. CASE CallSend \/ NextRow \/ AddCommunity
  BY <1>1 DEF CallSend, NextRow, AddCommunity
<1>2. CASE AddUser
  BY <1>2 DEF AddUser, Fail
<1>3. CASE BuildPdu \/ EnterNamespaceFails \/ SnmpAddFails
  <2>1. /\ send_pc \in {"pdu", "open", "add"} /\ send_pc' \in {"open", "cleanup", "back"}
        /\ UNCHANGED <<row, sent>>
        /\ send_pc' # "open" => trouble' = "unsent" /\ failed' = failed \cup {row}
    BY <1>3 DEF BuildPdu, EnterNamespaceFails, SnmpAddFails, Fail
  <2>2. send_pc' # "open" => Unreached'
    BY <2>1 DEF Unreached, IsSent, RowsInTurn
  <2>3. pdu' \in {"none", "live"} /\ (pdu' = "none" => send_pc' = "cleanup")
        /\ (send_pc' = "open" => pdu' = "live" /\ send_status' = 0)
    BY <1>3 DEF BuildPdu, EnterNamespaceFails, SnmpAddFails
  <2>4. QED
    BY <2>1, <2>2, <2>3
<1>4. CASE EnterNamespace
  BY <1>4 DEF EnterNamespace
<1>5. CASE SnmpSend
  <2>1. Message.row = row
    BY DEF Message
  <2>2. send_pc = "add" /\ send_pc' = "back" /\ row' = row /\ Inform' = Inform /\ pdu = "live" /\ send_status = 0
    BY <1>5 DEF SnmpSend, Inform
  <2>3. CASE pdu' = "freed" /\ sent' = sent \cup {Message} /\ UNCHANGED send_status
    BY <2>1, <2>2, <2>3 DEF IsSent
  <2>4. CASE pdu' = (IF Inform THEN "freed" ELSE pdu) /\ send_status' = 1
    BY <2>2, <2>4
  <2>5. QED
    BY <1>5, <2>3, <2>4 DEF SnmpSend
<1>6. CASE SwitchBack \/ SwitchBackFails \/ LoopCleanup
  <2>1. UNCHANGED <<row, failed, sent>>
    BY <1>6 DEF SwitchBack, SwitchBackFails, LoopCleanup
  <2>2. Inform' = Inform /\ IsSent' = IsSent /\ Unreached' = Unreached
    BY <2>1 DEF Inform, IsSent, Unreached
  <2>3. CASE SwitchBack \/ SwitchBackFails
    BY <2>2, <2>3 DEF SwitchBack, SwitchBackFails
  <2>4. CASE LoopCleanup
    BY <2>2, <2>4 DEF LoopCleanup, PduAfterLoop, FreedPdu
  <2>5. QED
    BY <1>6, <2>3, <2>4
<1>7. CASE RowDone
  BY <1>7 DEF RowDone
<1>8. CASE UNCHANGED trap_vars
  BY <1>8 DEF trap_vars, Inform, IsSent, Unreached
<1>9. QED
  BY <1>1, <1>2, <1>3, <1>4, <1>5, <1>6, <1>7, <1>8 DEF TrapNext

LEMMA TrapAlways == TrapSpec => []TrapIInv
<1>1. TrapIInv /\ [TrapNext]_trap_vars => TrapIInv'
  BY TrapTypesKept, SessionKept, MessagesKept, AccountsKept, NamespacesKept, TurnsKept, PdusKept
     DEF TrapIInv
<1>2. QED
  BY TrapInitIInv, <1>1, PTL DEF TrapSpec

-----------------------------------------------------------------------------

\* Every state is typed; a session with a securityName has an engine ID.
THEOREM TrapTyped == TrapSpec => []TrapTypeOK
<1>1. TrapIInv => TrapTypeOK
  BY DEF TrapIInv
<1>2. QED
  BY TrapAlways, <1>1, PTL

\* Each message has the version and the name of its own row ("public" for a
\* community that is empty), though one buffer holds every row's in turn.
THEOREM MessagesAreConfigured == TrapSpec => []SentAsConfigured
<1>1. TrapIInv => SentAsConfigured
  BY DEF TrapIInv
<1>2. QED
  BY TrapAlways, <1>1, PTL

\* No receiver misses a notification because of another one.
THEOREM ReceiversAreServed == TrapSpec => []EveryReceiverIsServed
<1>1. TrapIInv => EveryReceiverIsServed
  BY DEF TrapIInv, Accounted, IsServed, EveryReceiverIsServed
<1>2. QED
  BY TrapAlways, <1>1, PTL

\* A row leaves the daemon in the namespace it came from, whatever fails for it,
\* unless switching back itself has failed.
THEOREM NamespaceIsRestored == TrapSpec => []NamespaceRestored
<1>1. TrapIInv => NamespaceRestored
  BY DEF TrapIInv, NamespaceKept, Home, NamespaceRestored
<1>2. QED
  BY TrapAlways, <1>1, PTL

\* The PDU of a row is freed twice only when switching back fails after a trap
\* was sent, and left behind only when the library never had it to send: no
\* session was made, or it is that of an inform that failed before.
THEOREM PduIsFreedOnce == TrapSpec => []PduFreedOnce
<1>1. TrapIInv => PduFreedOnce
  BY DEF TrapIInv, TrapTypeOK, PduKept, IsSent, Unreached, PduFreedOnce
<1>2. QED
  BY TrapAlways, <1>1, PTL
=============================================================================
