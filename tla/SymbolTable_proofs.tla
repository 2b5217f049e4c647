------------------------- MODULE SymbolTable_proofs -------------------------
(***************************************************************************)
(* The symbol table is well ordered, for every module, every order of its  *)
(* clauses and every order in which the dictionary of postponed symbols is *)
(* walked through.                                                         *)
(***************************************************************************)
EXTENDS SymbolTable, SequenceTheorems, TLAPS

-----------------------------------------------------------------------------
(* The strengthening.                                                      *)

\* The order holds registered symbols only.
OrderIsRegistered == \A i \in DOMAIN symsOrder : symsOrder[i] \in DOMAIN out

\* A symbol is registered or postponed, never both, but for those that the
\* running pass has been through.
OutOrPostponed ==
  /\ pc # "pass" => DOMAIN out \cap DOMAIN postponed = {}
  /\ pc = "pass" => DOMAIN out \cap scan = {}

\* Nothing a clause declares is lost.
Queued(s) == \E i \in DOMAIN queue : queue[i].symbol = s

ClausesAreKept ==
  /\ \A c \in visited :
       /\ c.is_sequence \/ c.name \in DOMAIN out \cup DOMAIN postponed \/ Queued(c.name)
       /\ c.oid \subseteq parentOids
  /\ pc \in {"imports", "clauses", "done"} => queue = <<>>
  /\ pc = "done" => DOMAIN postponed = {} /\ parentOids \subseteq DOMAIN out \cup DOMAIN importMap

\* Nothing is registered before the imports are known.
NothingYet == pc = "imports" => DOMAIN out = {}

IInv ==
  /\ TypeOK
  /\ NothingYet
  /\ ParentsPrecede
  /\ OrderIsOfTable
  /\ OrderIsRegistered
  /\ OutOrPostponed
  /\ ClausesAreKept

-----------------------------------------------------------------------------
(* Lemmas.                                                                 *)

\* Append leaves what was there and puts the element last.
LEMMA AppendFacts ==
  ASSUME NEW S, NEW q \in Seq(S), NEW x \in S
  PROVE  /\ Append(q, x) \in Seq(S)
         /\ Len(Append(q, x)) = Len(q) + 1
         /\ DOMAIN q = 1 .. Len(q) /\ Len(q) \in Nat
         /\ DOMAIN Append(q, x) = 1 .. Len(q) + 1
         /\ \A i \in 1 .. Len(q) : Append(q, x)[i] = q[i]
         /\ Append(q, x)[Len(q) + 1] = x
OBVIOUS

\* The registrations of a clause are symbols with parents that are names.
LEMMA RegistrationsFacts ==
  ASSUME NEW c \in Clauses, NEW known \in SUBSET Names
  PROVE  /\ Registrations(c, known) \in Seq([symbol: Names, parents: SUBSET (Names \cup TableClasses)])
         /\ c.is_sequence \/ \E i \in DOMAIN Registrations(c, known) :
                               Registrations(c, known)[i].symbol = c.name
<1> DEFINE R == [symbol: Names, parents: SUBSET (Names \cup TableClasses)]
           fakes == [i \in 1 .. Len(c.fakes) |-> [symbol |-> c.fakes[i], parents |-> {}]]
           last == [symbol |-> c.name, parents |-> ParentsOf(c, known)]
<1>1. c.fakes \in Seq(Names) /\ c.name \in Names
  BY DEF Clauses
<1>2. SyntaxOf(c, known) \in Names \cup TableClasses \cup {None}
  BY DEF Clauses, SyntaxOf, TableClasses
<1>3. ParentsOf(c, known) \subseteq Names \cup TableClasses
  BY <1>2 DEF Clauses, ParentsOf
<1>4. fakes \in Seq(R)
  <2>1. \A i \in 1 .. Len(c.fakes) : [symbol |-> c.fakes[i], parents |-> {}] \in R
    BY <1>1
  <2>2. Len(c.fakes) \in Nat
    BY <1>1
  <2> QED
    BY <2>1, <2>2
<1>5. last \in R
  BY <1>1, <1>3
<1>6. Append(fakes, last) \in Seq(R)
  BY <1>4, <1>5, AppendFacts
<1>7. \E i \in DOMAIN Append(fakes, last) : Append(fakes, last)[i].symbol = c.name
  <2>1. /\ DOMAIN Append(fakes, last) = 1 .. Len(fakes) + 1
        /\ Append(fakes, last)[Len(fakes) + 1] = last
        /\ Len(fakes) \in Nat
    BY <1>4, <1>5, AppendFacts
  <2>2. Len(fakes) + 1 \in DOMAIN Append(fakes, last)
    BY <2>1
  <2> HIDE DEF fakes
  <2> QED
    BY <2>1, <2>2
<1>8. <<>> \in Seq(R)
  OBVIOUS
<1> QED
  BY <1>6, <1>7, <1>8 DEF Registrations

\* Registering a symbol that is not in the table, all of whose parents are
\* known, keeps the order: its position is after those of its parents.
LEMMA Registering ==
  ASSUME IInv, NEW s \in Names, s \notin DOMAIN out,
         NEW ps \in SUBSET (Names \cup TableClasses), AllParentsExist(ps),
         out' = Extended(out, s, ps), symsOrder' = Append(symsOrder, s),
         importMap' = importMap, rows' = rows
  PROVE  /\ ParentsPrecede' /\ OrderIsOfTable' /\ OrderIsRegistered'
         /\ symsOrder' \in Seq(Names)
         /\ DOMAIN out' = DOMAIN out \cup {s} /\ DOMAIN out' \subseteq Names
         /\ \A x \in DOMAIN out' : out'[x] \subseteq Names \cup TableClasses
<1> DEFINE n == Len(symsOrder)
<1>1. symsOrder \in Seq(Names)
  BY DEF IInv, TypeOK
<1>2. /\ symsOrder' \in Seq(Names)
      /\ DOMAIN symsOrder = 1 .. n /\ n \in Nat
      /\ DOMAIN symsOrder' = 1 .. n + 1
      /\ \A i \in 1 .. n : symsOrder'[i] = symsOrder[i]
      /\ symsOrder'[n + 1] = s
  BY <1>1, AppendFacts
<1>3. /\ DOMAIN out' = DOMAIN out \cup {s}
      /\ out'[s] = ps
      /\ \A x \in DOMAIN out : out'[x] = out[x]
  BY DEF Extended
<1>4. \A i \in 1 .. n : symsOrder[i] \in DOMAIN out
  BY <1>2 DEF IInv, OrderIsRegistered
<1> HIDE DEF n
<1>5. OrderIsRegistered'
  BY <1>2, <1>3, <1>4 DEF OrderIsRegistered
<1>6. OrderIsOfTable'
  <2>1. \A x \in DOMAIN out' : \E i \in DOMAIN symsOrder' : symsOrder'[i] = x
    <3> SUFFICES ASSUME NEW x \in DOMAIN out'
                 PROVE  \E i \in DOMAIN symsOrder' : symsOrder'[i] = x
      OBVIOUS
    <3>1. CASE x = s
      <4>1. n + 1 \in DOMAIN symsOrder'
        BY <1>2
      <4> QED
        BY <3>1, <4>1, <1>2
    <3>2. CASE x # s
      <4>1. PICK i \in DOMAIN symsOrder : symsOrder[i] = x
        BY <3>2, <1>3 DEF IInv, OrderIsOfTable
      <4>2. i \in DOMAIN symsOrder' /\ symsOrder'[i] = x
        BY <4>1, <1>2
      <4> QED
        BY <4>2
    <3> QED
      BY <3>1, <3>2
  <2>2. ASSUME NEW i \in DOMAIN symsOrder', NEW j \in DOMAIN symsOrder',
               symsOrder'[i] = symsOrder'[j]
        PROVE  i = j
    <3>1. CASE i \in 1 .. n /\ j \in 1 .. n
      <4>1. symsOrder[i] = symsOrder[j]
        BY <2>2, <3>1, <1>2
      <4> QED
        BY <3>1, <4>1, <1>2 DEF IInv, OrderIsOfTable
    <3>2. CASE i = n + 1 \/ j = n + 1
      BY <2>2, <3>2, <1>2, <1>4
    <3> QED
      BY <3>1, <3>2, <1>2
  <2> QED
    BY <2>1, <2>2 DEF OrderIsOfTable
<1>7. ParentsPrecede'
  <2> SUFFICES ASSUME NEW i \in DOMAIN symsOrder', NEW p \in out'[symsOrder'[i]]
               PROVE  \/ p \in DOMAIN importMap \cup BaseTypes \cup TableClasses \cup rows
                      \/ \E j \in 1 .. i - 1 : symsOrder'[j] = p
    BY DEF ParentsPrecede
  <2>1. CASE i \in 1 .. n
    <3>1. p \in out[symsOrder[i]]
      BY <2>1, <1>2, <1>3, <1>4
    <3>2. \/ p \in DOMAIN importMap \cup BaseTypes \cup TableClasses \cup rows
          \/ \E j \in 1 .. i - 1 : symsOrder[j] = p
      BY <2>1, <3>1, <1>2 DEF IInv, ParentsPrecede
    <3>3. \A j \in 1 .. i - 1 : symsOrder'[j] = symsOrder[j]
      BY <2>1, <1>2
    <3> QED
      BY <3>2, <3>3
  <2>2. CASE i = n + 1
    <3>1. p \in ps
      BY <2>2, <1>2, <1>3
    <3>2. CASE p \in DOMAIN out
      <4>1. PICK j \in DOMAIN symsOrder : symsOrder[j] = p
        BY <3>2 DEF IInv, OrderIsOfTable
      <4>2. j \in 1 .. i - 1 /\ symsOrder'[j] = p
        BY <2>2, <4>1, <1>2
      <4> QED
        BY <4>2
    <3> QED
      BY <3>1, <3>2 DEF AllParentsExist
  <2> QED
    BY <2>1, <2>2, <1>2
<1>8. DOMAIN out' \subseteq Names /\ \A x \in DOMAIN out' : out'[x] \subseteq Names \cup TableClasses
  BY <1>3 DEF IInv, TypeOK
<1> QED
  BY <1>2, <1>3, <1>5, <1>6, <1>7, <1>8

\* What does not touch the table keeps its order.
LEMMA TableUnchanged ==
  ASSUME IInv, UNCHANGED <<out, symsOrder>>, rows \subseteq rows',
         DOMAIN out = {} \/ UNCHANGED importMap
  PROVE  ParentsPrecede' /\ OrderIsOfTable' /\ OrderIsRegistered'
BY DEF IInv, ParentsPrecede, OrderIsOfTable, OrderIsRegistered

\* What is popped from the queue is a registration, and the rest is one too.
LEMMA QueueFacts ==
  ASSUME TypeOK, queue # <<>>
  PROVE  /\ Head(queue).symbol \in Names
         /\ Head(queue).parents \in SUBSET (Names \cup TableClasses)
         /\ Tail(queue) \in Seq([symbol: Names, parents: SUBSET (Names \cup TableClasses)])
         /\ \A i \in DOMAIN queue :
              \/ queue[i] = Head(queue)
              \/ \E j \in DOMAIN Tail(queue) : Tail(queue)[j] = queue[i]
<1> DEFINE R == [symbol: Names, parents: SUBSET (Names \cup TableClasses)]
<1>0. queue \in Seq(R)
  BY DEF TypeOK
<1> HIDE DEF R
<1>1. queue \in Seq(R) /\ Len(queue) \in Nat /\ Len(queue) > 0
  BY <1>0, EmptySeq
<1>2. Head(queue) \in R /\ Head(queue) = queue[1] /\ Tail(queue) \in Seq(R)
  BY <1>1, HeadTailProperties
<1>3. /\ DOMAIN queue = 1 .. Len(queue) /\ DOMAIN Tail(queue) = 1 .. Len(queue) - 1
      /\ \A j \in 1 .. Len(queue) - 1 : Tail(queue)[j] = queue[j + 1]
  BY <1>1
<1>4. \A i \in DOMAIN queue : i # 1 => i - 1 \in DOMAIN Tail(queue) /\ Tail(queue)[i - 1] = queue[i]
  BY <1>1, <1>3
<1> QED
  BY <1>2, <1>4 DEF R

-----------------------------------------------------------------------------
(* The invariant.                                                          *)

LEMMA InitIInv == Init => IInv
<1> SUFFICES ASSUME Init PROVE IInv
  OBVIOUS
<1>1. TypeOK
  BY DEF Init, TypeOK
<1>2. ParentsPrecede /\ OrderIsOfTable /\ OrderIsRegistered
  BY DEF Init, ParentsPrecede, OrderIsOfTable, OrderIsRegistered
<1>3. OutOrPostponed /\ ClausesAreKept /\ NothingYet
  BY DEF Init, OutOrPostponed, ClausesAreKept, NothingYet
<1> QED
  BY <1>1, <1>2, <1>3 DEF IInv

LEMMA NextIInv == IInv /\ [Next]_vars => IInv'
<1> SUFFICES ASSUME IInv, [Next]_vars PROVE IInv'
  OBVIOUS
<1> USE SymbolTableAssumption
<1>1. CASE GenImports
  <2>1. PICK imports \in Imports : importMap' = ImportMap(imports)
    BY <1>1 DEF GenImports
  <2>2. DOMAIN importMap' \subseteq Names
    <3>1. imports \in [Modules -> SUBSET Names]
      BY <2>1
    <3>2. Imported(imports) \subseteq Modules \X Names
      BY <3>1 DEF Imported, Pairs
    <3>3. \A q \in Imported(imports) : q[2] \in Names
      BY <3>2
    <3> QED
      BY <2>1, <3>3 DEF ImportMap
  <2>3. TypeOK'
    BY <1>1, <2>2 DEF GenImports, IInv, TypeOK, table
  <2>4. ParentsPrecede' /\ OrderIsOfTable' /\ OrderIsRegistered'
    BY <1>1, TableUnchanged DEF GenImports, IInv, NothingYet, table
  <2>5. OutOrPostponed' /\ ClausesAreKept' /\ NothingYet'
    BY <1>1 DEF GenImports, IInv, OutOrPostponed, ClausesAreKept, NothingYet, Queued, table
  <2> QED
    BY <2>3, <2>4, <2>5 DEF IInv
<1>2. CASE VisitClause
  <2>1. PICK c \in Declarations :
          /\ visited' = visited \cup {c}
          /\ rows' = IF c.table_of = None THEN rows ELSE rows \cup {c.table_of}
          /\ parentOids' = parentOids \cup c.oid
          /\ queue' = Registrations(c, rows')
    BY <1>2 DEF VisitClause
  <2>2. c \in Clauses /\ c.oid \subseteq Names /\ rows' \subseteq Names /\ rows \subseteq rows'
    BY <2>1 DEF Clauses, IInv, TypeOK
  <2>3. TypeOK'
    BY <1>2, <2>1, <2>2, RegistrationsFacts DEF VisitClause, IInv, TypeOK, table
  <2>4. ParentsPrecede' /\ OrderIsOfTable' /\ OrderIsRegistered'
    BY <1>2, <2>2, TableUnchanged DEF VisitClause, table
  <2>5. OutOrPostponed' /\ NothingYet'
    BY <1>2 DEF VisitClause, IInv, OutOrPostponed, NothingYet, table
  <2>6. ClausesAreKept'
    <3>1. c.is_sequence \/ Queued(c.name)'
      BY <2>1, <2>2, RegistrationsFacts DEF Queued
    <3>2. \A d \in visited : d.is_sequence \/ d.name \in DOMAIN out \cup DOMAIN postponed
      BY <1>2 DEF VisitClause, IInv, ClausesAreKept, Queued
    <3>3. \A d \in visited' : d.oid \subseteq parentOids'
      BY <2>1 DEF IInv, ClausesAreKept
    <3> QED
      BY <1>2, <2>1, <3>1, <3>2, <3>3 DEF VisitClause, ClausesAreKept, table
  <2> QED
    BY <2>3, <2>4, <2>5, <2>6 DEF IInv
<1>3. CASE QueueDone
  <2>1. TypeOK' /\ OutOrPostponed' /\ ClausesAreKept' /\ NothingYet'
    BY <1>3 DEF QueueDone, IInv, TypeOK, OutOrPostponed, ClausesAreKept, NothingYet,
                Queued, text, table
  <2>2. ParentsPrecede' /\ OrderIsOfTable' /\ OrderIsRegistered'
    BY <1>3, TableUnchanged DEF QueueDone, text, table
  <2> QED
    BY <2>1, <2>2 DEF IInv
<1>4. CASE Duplicate
  <2>1. TypeOK' /\ OutOrPostponed' /\ ClausesAreKept' /\ NothingYet'
    BY <1>4 DEF Duplicate, IInv, TypeOK, OutOrPostponed, ClausesAreKept, NothingYet,
                Queued, text, table
  <2>2. ParentsPrecede' /\ OrderIsOfTable' /\ OrderIsRegistered'
    BY <1>4, TableUnchanged DEF Duplicate, text, table
  <2> QED
    BY <2>1, <2>2 DEF IInv
<1>5. CASE Register
  <2> DEFINE r == Head(queue)
  <2>1. /\ pc = "register" /\ queue # <<>> /\ pc' = "pass"
        /\ ~IsDuplicate(r.symbol) /\ AllParentsExist(r.parents)
        /\ out' = Extended(out, r.symbol, r.parents)
        /\ symsOrder' = Append(symsOrder, r.symbol)
        /\ queue' = Tail(queue) /\ scan' = DOMAIN postponed
        /\ UNCHANGED <<visited, importMap, rows, parentOids, postponed>>
    BY <1>5 DEF Register, text
  <2>2. /\ r.symbol \in Names /\ r.parents \in SUBSET (Names \cup TableClasses)
        /\ Tail(queue) \in Seq([symbol: Names, parents: SUBSET (Names \cup TableClasses)])
        /\ \A i \in DOMAIN queue :
             queue[i] = r \/ \E j \in DOMAIN Tail(queue) : Tail(queue)[j] = queue[i]
    BY <2>1, QueueFacts DEF IInv
  <2> HIDE DEF r
  <2>3. r.symbol \notin DOMAIN out /\ r.symbol \notin DOMAIN postponed
    BY <2>1 DEF IsDuplicate
  <2>4. /\ ParentsPrecede' /\ OrderIsOfTable' /\ OrderIsRegistered'
        /\ symsOrder' \in Seq(Names)
        /\ DOMAIN out' = DOMAIN out \cup {r.symbol} /\ DOMAIN out' \subseteq Names
        /\ \A x \in DOMAIN out' : out'[x] \subseteq Names \cup TableClasses
    BY <2>1, <2>2, <2>3, Registering
  <2>5. TypeOK'
    BY <2>1, <2>2, <2>4 DEF IInv, TypeOK
  <2>6. OutOrPostponed' /\ NothingYet'
    BY <2>1, <2>3, <2>4 DEF IInv, OutOrPostponed, NothingYet
  <2>7. ClausesAreKept'
    <3>1. ASSUME NEW d \in visited
          PROVE  d.is_sequence \/ d.name \in (DOMAIN out' \cup DOMAIN postponed') \/ Queued(d.name)'
      <4>1. CASE d.is_sequence \/ d.name \in DOMAIN out \cup DOMAIN postponed
        BY <4>1, <2>1, <2>4
      <4>2. CASE Queued(d.name)
        <5>1. PICK i \in DOMAIN queue : queue[i].symbol = d.name
          BY <4>2 DEF Queued
        <5>2. CASE queue[i] = r
          BY <5>1, <5>2, <2>4
        <5>3. CASE \E j \in DOMAIN Tail(queue) : Tail(queue)[j] = queue[i]
          <6>1. PICK j \in DOMAIN Tail(queue) : Tail(queue)[j] = queue[i]
            BY <5>3
          <6>2. j \in DOMAIN queue' /\ queue'[j].symbol = d.name
            BY <6>1, <5>1, <2>1
          <6> QED
            BY <6>2 DEF Queued
        <5> QED
          BY <5>1, <5>2, <5>3, <2>2
      <4> QED
        BY <4>1, <4>2 DEF IInv, ClausesAreKept
    <3>2. visited' = visited /\ \A d \in visited : d.oid \subseteq parentOids'
      BY <2>1 DEF IInv, ClausesAreKept
    <3>3. pc' \notin {"imports", "clauses", "done"}
      BY <2>1
    <3> QED
      BY <3>1, <3>2, <3>3 DEF ClausesAreKept
  <2> QED
    BY <2>4, <2>5, <2>6, <2>7 DEF IInv
<1>6. CASE Postpone
  <2> DEFINE r == Head(queue)
  <2>1. /\ pc = "register" /\ queue # <<>> /\ pc' = pc
        /\ ~IsDuplicate(r.symbol)
        /\ postponed' = Extended(postponed, r.symbol, r.parents)
        /\ queue' = Tail(queue)
        /\ UNCHANGED <<visited, importMap, rows, parentOids, out, symsOrder, scan>>
    BY <1>6 DEF Postpone, text
  <2>2. /\ r.symbol \in Names /\ r.parents \in SUBSET (Names \cup TableClasses)
        /\ Tail(queue) \in Seq([symbol: Names, parents: SUBSET (Names \cup TableClasses)])
        /\ \A i \in DOMAIN queue :
             queue[i] = r \/ \E j \in DOMAIN Tail(queue) : Tail(queue)[j] = queue[i]
    BY <2>1, QueueFacts DEF IInv
  <2> HIDE DEF r
  <2>3. /\ DOMAIN postponed' = DOMAIN postponed \cup {r.symbol}
        /\ postponed'[r.symbol] = r.parents
        /\ \A x \in DOMAIN postponed : x # r.symbol => postponed'[x] = postponed[x]
    BY <2>1 DEF Extended
  <2>4. ParentsPrecede' /\ OrderIsOfTable' /\ OrderIsRegistered'
    BY <2>1, TableUnchanged
  <2>5. TypeOK'
    BY <2>1, <2>2, <2>3 DEF IInv, TypeOK
  <2>6. OutOrPostponed' /\ NothingYet'
    BY <2>1, <2>3 DEF IInv, OutOrPostponed, NothingYet, IsDuplicate
  <2>7. ClausesAreKept'
    <3>1. ASSUME NEW d \in visited
          PROVE  d.is_sequence \/ d.name \in (DOMAIN out' \cup DOMAIN postponed') \/ Queued(d.name)'
      <4>1. CASE d.is_sequence \/ d.name \in DOMAIN out \cup DOMAIN postponed
        BY <4>1, <2>1, <2>3
      <4>2. CASE Queued(d.name)
        <5>1. PICK i \in DOMAIN queue : queue[i].symbol = d.name
          BY <4>2 DEF Queued
        <5>2. CASE queue[i] = r
          BY <5>1, <5>2, <2>3
        <5>3. CASE \E j \in DOMAIN Tail(queue) : Tail(queue)[j] = queue[i]
          <6>1. PICK j \in DOMAIN Tail(queue) : Tail(queue)[j] = queue[i]
            BY <5>3
          <6>2. j \in DOMAIN queue' /\ queue'[j].symbol = d.name
            BY <6>1, <5>1, <2>1
          <6> QED
            BY <6>2 DEF Queued
        <5> QED
          BY <5>1, <5>2, <5>3, <2>2
      <4> QED
        BY <4>1, <4>2 DEF IInv, ClausesAreKept
    <3>2. visited' = visited /\ \A d \in visited : d.oid \subseteq parentOids'
      BY <2>1 DEF IInv, ClausesAreKept
    <3>3. pc' \notin {"imports", "clauses", "done"}
      BY <2>1
    <3> QED
      BY <3>1, <3>2, <3>3 DEF ClausesAreKept
  <2> QED
    BY <2>4, <2>5, <2>6, <2>7 DEF IInv
<1>7. CASE Reconsider
  <2>1. PICK s \in scan :
          /\ scan' = scan \ {s}
          /\ IF AllParentsExist(postponed[s])
               THEN /\ out' = Extended(out, s, postponed[s])
                    /\ symsOrder' = Append(symsOrder, s)
               ELSE UNCHANGED <<out, symsOrder>>
    BY <1>7 DEF Reconsider
  <2>2. pc = "pass" /\ UNCHANGED <<visited, importMap, rows, parentOids, queue, postponed, pc>>
    BY <1>7 DEF Reconsider, text
  <2>3. /\ s \in Names /\ s \in DOMAIN postponed /\ s \notin DOMAIN out
        /\ postponed[s] \in SUBSET (Names \cup TableClasses)
    BY <2>2 DEF IInv, TypeOK, OutOrPostponed
  <2>4. CASE AllParentsExist(postponed[s])
    <3>1. out' = Extended(out, s, postponed[s]) /\ symsOrder' = Append(symsOrder, s)
      BY <2>1, <2>4
    <3>2. /\ ParentsPrecede' /\ OrderIsOfTable' /\ OrderIsRegistered'
          /\ symsOrder' \in Seq(Names)
          /\ DOMAIN out' = DOMAIN out \cup {s} /\ DOMAIN out' \subseteq Names
          /\ \A x \in DOMAIN out' : out'[x] \subseteq Names \cup TableClasses
      BY <2>2, <2>3, <2>4, <3>1, Registering
    <3>3. TypeOK'
      BY <2>1, <2>2, <3>2 DEF IInv, TypeOK
    <3>4. OutOrPostponed' /\ NothingYet'
      BY <2>1, <2>2, <3>2 DEF IInv, OutOrPostponed, NothingYet
    <3>5. ClausesAreKept'
      BY <2>2, <3>2 DEF IInv, ClausesAreKept, Queued
    <3> QED
      BY <3>2, <3>3, <3>4, <3>5 DEF IInv
  <2>5. CASE ~AllParentsExist(postponed[s])
    <3>1. UNCHANGED <<out, symsOrder>>
      BY <2>1, <2>5
    <3>2. ParentsPrecede' /\ OrderIsOfTable' /\ OrderIsRegistered'
      BY <2>2, <3>1, TableUnchanged
    <3>3. TypeOK' /\ OutOrPostponed' /\ ClausesAreKept' /\ NothingYet'
      BY <2>1, <2>2, <3>1 DEF IInv, TypeOK, OutOrPostponed, ClausesAreKept, NothingYet, Queued
    <3> QED
      BY <3>2, <3>3 DEF IInv
  <2> QED
    BY <2>4, <2>5
<1>8. CASE PassDone
  <2>1. /\ pc = "pass" /\ scan = {} /\ pc' = "register"
        /\ postponed' = [s \in StillPostponed |-> postponed[s]]
        /\ UNCHANGED <<visited, importMap, rows, parentOids, queue, out, symsOrder, scan>>
    BY <1>8 DEF PassDone, text
  <2>2. DOMAIN postponed' = DOMAIN postponed \ DOMAIN out
    BY <2>1 DEF StillPostponed
  <2>3. ParentsPrecede' /\ OrderIsOfTable' /\ OrderIsRegistered'
    BY <2>1, TableUnchanged
  <2>4. TypeOK'
    BY <2>1 DEF IInv, TypeOK, StillPostponed
  <2>5. OutOrPostponed' /\ ClausesAreKept' /\ NothingYet'
    BY <2>1, <2>2 DEF IInv, OutOrPostponed, ClausesAreKept, NothingYet, Queued
  <2> QED
    BY <2>3, <2>4, <2>5 DEF IInv
<1>9. CASE Finish
  <2>1. TypeOK' /\ OutOrPostponed' /\ NothingYet'
    BY <1>9 DEF Finish, IInv, TypeOK, OutOrPostponed, NothingYet, text, table
  <2>2. ClausesAreKept'
    BY <1>9 DEF Finish, IInv, ClausesAreKept, Queued, UnknownOids, text, table
  <2>3. ParentsPrecede' /\ OrderIsOfTable' /\ OrderIsRegistered'
    BY <1>9, TableUnchanged DEF Finish, text, table
  <2> QED
    BY <2>1, <2>2, <2>3 DEF IInv
<1>10. CASE UNCHANGED vars
  <2>1. TypeOK' /\ OutOrPostponed' /\ ClausesAreKept' /\ NothingYet'
    BY <1>10 DEF vars, text, table, IInv, TypeOK, OutOrPostponed, ClausesAreKept,
                 NothingYet, Queued
  <2>2. ParentsPrecede' /\ OrderIsOfTable' /\ OrderIsRegistered'
    BY <1>10, TableUnchanged DEF vars, text, table
  <2> QED
    BY <2>1, <2>2 DEF IInv
<1> QED
  BY <1>1, <1>2, <1>3, <1>4, <1>5, <1>6, <1>7, <1>8, <1>9, <1>10 DEF Next

\* Every behaviour keeps the strengthened invariant.
THEOREM Invariant == Spec => []IInv
BY InitIInv, NextIInv, PTL DEF Spec

-----------------------------------------------------------------------------
(* The theorems.                                                           *)

\* The variables keep their types.
THEOREM TypeCorrect == Spec => []TypeOK
<1>1. IInv => TypeOK
  BY DEF IInv
<1> QED
  BY Invariant, <1>1, PTL

\* The order of generation is a topological sort of the table, whatever the
\* order of the clauses and of the postponed symbols.
THEOREM Topological == Spec => []OrderIsTopological
<1>1. IInv => OrderIsTopological
  BY DEF IInv, OrderIsTopological
<1> QED
  BY Invariant, <1>1, PTL

\* No declared symbol is lost in a module that is accepted.
THEOREM Complete == Spec => []AcceptedIsComplete
<1>1. IInv => AcceptedIsComplete
  <2> SUFFICES ASSUME IInv, pc = "done", NEW c \in visited
               PROVE  /\ c.is_sequence \/ c.name \in DOMAIN out
                      /\ c.oid \subseteq DOMAIN out \cup DOMAIN importMap
    BY DEF AcceptedIsComplete
  <2>1. queue = <<>> /\ DOMAIN postponed = {}
    BY DEF IInv, ClausesAreKept
  <2>2. ~Queued(c.name)
    BY <2>1 DEF Queued
  <2> QED
    BY <2>1, <2>2 DEF IInv, ClausesAreKept
<1> QED
  BY Invariant, <1>1, PTL
=============================================================================
