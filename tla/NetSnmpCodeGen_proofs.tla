------------------------ MODULE NetSnmpCodeGen_proofs ------------------------
(***************************************************************************)
(* Proofs about NetSnmpCodeGen for every set of jobs: any MIBs, with any   *)
(* clauses in any order, that share names or not, any order of the dicts   *)
(* and any mapping file.                                                   *)
(***************************************************************************)
EXTENDS NetSnmpCodeGen, FiniteSetTheorems, WellFoundedInduction, TLAPS

\* Where generation is still under way, or has ended well.
Reading    == {"imports", "clauses"}
Generating == {"json", "scalars", "tables", "traps", "done"}
Dead       == {"failed", "crash", "loop"}

\* Clause i of MIB m was visited.
Visited(m, i) ==
  CASE pc = "imports" -> m \notin rest \cup {module}
    [] pc = "clauses" -> m \notin rest /\ (m = module => i < at)
    [] OTHER          -> TRUE

\* The modules that declare a name, and those that it is imported from.
Users(n) ==
  {m \in Known : Declares(m, n)} \cup {job.imports[m][n] : m \in {m \in Known : n \in DOMAIN job.imports[m]}}

\* A sequence of whatever it holds.
IsSequence(s) == s \in Seq({s[i] : i \in DOMAIN s})

-----------------------------------------------------------------------------
(* The invariant.                                                          *)

Control ==
  /\ job \in Jobs
  /\ pc \in Reading \cup Generating \cup Dead
  /\ module \in job.handed
  /\ at \in Nat \ {0}
  /\ main_flag \in BOOLEAN
  /\ main_flag => module = job.main
  /\ pc \in Generating => ~main_flag
  /\ pc \in Reading => /\ rest \subseteq job.handed
                       /\ module \notin rest /\ job.main \notin rest
                       /\ ~main_flag => module # job.main
  /\ pc = "json" => job.json # <<>>

\* importMap holds what some MIB imports, and all that the present one does.
ImportsKnown ==
  /\ \A n \in DOMAIN importMap :
       \E m \in job.handed : n \in DOMAIN job.imports[m] /\ importMap[n] = job.imports[m][n]
  /\ pc = "clauses" => DOMAIN job.imports[module] \subseteq DOMAIN importMap

\* An entry is that of a clause, with the OID of the clause: but for the columns
\* that are made up for an INDEX.
IsOfClause(e) ==
  e.clause.kind # "text" =>
    /\ e.in \in job.handed
    /\ e.clause \in Clauses(e.in)
    /\ e.clause.kind # "type" /\ Sole(e.clause.parent) =>
         e.oid = <<Scope(e.in, e.clause.parent), e.clause.parent>>

Entries ==
  /\ \A n \in DOMAIN out : out[n].clause.name = n /\ IsOfClause(out[n])
  /\ \A t \in DOMAIN tables : tables[t] = None \/ tables[t] \in DOMAIN tableRows
  /\ \A r \in DOMAIN tableRows :
       LET row == tableRows[r]
       IN  /\ row = [index |-> row.index, augments |-> row.augments, columns |-> row.columns]
           /\ IsSequence(row.columns)
           /\ \A i \in DOMAIN row.columns : IsOfClause(row.columns[i])

\* The scalars are those of the main MIB, as far as it was visited.
ScalarsOfMain ==
  /\ IsSequence(scalars)
  /\ \A k \in DOMAIN scalars : scalars[k] \in DOMAIN out
  /\ \A k \in DOMAIN scalars : \E c \in Clauses(job.main) : c.kind = "scalar" /\ c.name = scalars[k]
  /\ pc \notin Dead =>
       \A i \in DOMAIN job.text[job.main] :
         job.text[job.main][i].kind = "scalar" /\ Visited(job.main, i) =>
           \E k \in DOMAIN scalars : scalars[k] = job.text[job.main][i].name

\* The traps are those of every MIB, as far as it was visited, each once.
IsTrap(m, i, n) == job.text[m][i].kind = "notification" /\ job.text[m][i].name = n

TrapsOfAll ==
  /\ IsSequence(traps)
  /\ \A k \in DOMAIN traps : traps[k] \in DOMAIN out
  /\ \A k, l \in DOMAIN traps : traps[k] = traps[l] /\ Sole(traps[k]) => k = l
  /\ pc \notin Dead =>
       /\ \A k \in DOMAIN traps : \E m \in job.handed : \E i \in DOMAIN job.text[m] :
            IsTrap(m, i, traps[k]) /\ Visited(m, i)
       /\ \A m \in job.handed : \A i \in DOMAIN job.text[m] :
            job.text[m][i].kind = "notification" /\ Visited(m, i) =>
              \E k \in DOMAIN traps : traps[k] = job.text[m][i].name

\* What is initialised, and what is defined so far.
CallsOfPlugin == {scalars[i] : i \in DOMAIN scalars} \cup MappedTables
MappedBefore(k) == {scalars[i] : i \in {i \in DOMAIN scalars : i < k /\ Mapped(scalars[i])}}
MappedScalars == {scalars[i] : i \in {i \in DOMAIN scalars : Mapped(scalars[i])}}

PluginKnown ==
  /\ pc \in Reading \cup {"json"} => defined = {}
  /\ pc = "scalars" => defined = MappedBefore(at)
  /\ pc = "tables" => /\ rest \subseteq DOMAIN tables
                      /\ calls = CallsOfPlugin
                      /\ defined = MappedScalars \cup (MappedTables \ rest)
  /\ pc = "traps" \/ (pc = "done" /\ job.json = <<>>) =>
       calls = CallsOfPlugin /\ defined = MappedScalars \cup MappedTables

\* The mapping file reads the function's column from its rows.
IsMapped(g) ==
  /\ g = <<g[1], g[2]>>
  /\ \E x \in DOMAIN job.mapping : g[1] \in DOMAIN job.mapping[x] /\ job.mapping[x][g[1]] = g[2]

GettersKnown ==
  /\ \A g, h \in getters : g[1] = h[1] => g = h
  /\ \A d \in declared : \E g \in getters : g[1] = d[1]
  /\ \A g \in getters \cup declared : IsMapped(g)

HasOwnOid(x) ==
  LET c == ClauseOf(x.in, x.name)
  IN  x.what # "object" /\ Sole(c.parent) => x.oid = <<Scope(x.in, c.parent), c.parent>>

\* The scalar x is one of the main MIB, its entry of a MIB that declares it.
NamesScalar(n) == \E c \in Clauses(job.main) : c.kind = "scalar" /\ c.name = n

IsScalarOfMain(x) ==
  x.what = "scalar" => NamesScalar(x.name) /\ x.in \in job.handed /\ Declares(x.in, x.name)

EmittedKnown ==
  /\ \A x \in emitted : HasOwnOid(x) /\ IsScalarOfMain(x)
  /\ \A n \in DOMAIN objids : IsObject(objids[n], n)
  /\ \A e \in emitted : e.what = "object" => IsObject(e.in, e.name)

\* The traps in S have their functions.
SentBy(S) ==
  /\ senders = {<<k, traps[k], out[traps[k]].in>> : k \in S}
  /\ \A k \in S : out[traps[k]].clause.kind = "notification"

SendersKnown ==
  /\ pc \notin {"traps", "done"} \cup Dead => senders = {}
  /\ pc = "traps" => SentBy({k \in DOMAIN traps : k < at})
  /\ pc = "done" /\ job.json = <<>> => SentBy(DOMAIN traps)

IInv ==
  /\ Control /\ ImportsKnown /\ Entries /\ ScalarsOfMain /\ TrapsOfAll
  /\ PluginKnown /\ GettersKnown /\ EmittedKnown /\ SendersKnown

-----------------------------------------------------------------------------
(* Sequences, and names of one MIB.                                        *)

LEMMA Appended ==
  ASSUME NEW s, IsSequence(s), NEW e
  PROVE  /\ IsSequence(Append(s, e))
         /\ Len(s) \in Nat
         /\ DOMAIN s = 1 .. Len(s)
         /\ DOMAIN Append(s, e) = 1 .. Len(s) + 1
         /\ \A i \in DOMAIN s : Append(s, e)[i] = s[i]
         /\ Append(s, e)[Len(s) + 1] = e
<1> DEFINE S == {s[i] : i \in DOMAIN s}
           a == Append(s, e)
<1>1. s \in Seq(S)
  BY DEF IsSequence
<1>2. /\ Len(s) \in Nat /\ DOMAIN s = 1 .. Len(s)
      /\ DOMAIN a = 1 .. Len(s) + 1 /\ Len(a) = Len(s) + 1
      /\ \A i \in DOMAIN s : a[i] = s[i]
      /\ a[Len(s) + 1] = e
  <2>1. s \in Seq(S \cup {e})
    BY <1>1
  <2>2. QED
    BY <2>1
<1>3. a \in Seq({a[i] : i \in DOMAIN a})
  <2>1. a \in Seq(S \cup {e})
    BY <1>1
  <2>2. S \cup {e} \subseteq {a[i] : i \in DOMAIN a}
    BY <1>2
  <2>3. a \in Seq({a[i] : i \in DOMAIN a})
    BY <2>1, <1>2
  <2>4. QED
    BY <2>3
<1>4. QED
  BY <1>2, <1>3 DEF IsSequence

LEMMA UsersAreFinite ==
  ASSUME job \in Jobs, NEW n
  PROVE  IsFiniteSet(Users(n))
<1>1. IsFiniteSet(Known)
  <2> DEFINE f == [i \in DOMAIN job.known |-> job.known[i]]
  <2>1. IsFiniteSet(DOMAIN job.known)
    BY NetSnmpCodeGenAssumption
  <2>2. f \in Surjection(DOMAIN job.known, Known)
    BY DEF Surjection, Known
  <2>3. QED
    BY <2>1, <2>2, FS_Surjection
<1> DEFINE A == {m \in Known : Declares(m, n)}
           B == {m \in Known : n \in DOMAIN job.imports[m]}
           C == {job.imports[m][n] : m \in B}
           g == [m \in B |-> job.imports[m][n]]
<1>2. IsFiniteSet(A) /\ IsFiniteSet(B)
  BY <1>1, FS_Subset
<1>3. IsFiniteSet(C)
  <2>1. g \in Surjection(B, C)
    BY DEF Surjection
  <2>2. QED
    BY <1>2, <2>1, FS_Surjection
<1>4. QED
  BY <1>2, <1>3, FS_Union DEF Users

\* Whoever declares or imports a name that one MIB uses means the same module.
LEMMA SoleUser ==
  ASSUME job \in Jobs, NEW n, Sole(n), NEW a \in Users(n), NEW b \in Users(n)
  PROVE  a = b
<1>1. IsFiniteSet(Users(n)) /\ Cardinality(Users(n)) <= 1
  BY UsersAreFinite DEF Sole, Users
<1>2. SUFFICES ASSUME a # b PROVE FALSE
  OBVIOUS
<1>3. Cardinality({a, b}) = 2
  <2>1. Cardinality({a}) = 1 /\ IsFiniteSet({a})
    BY FS_Singleton
  <2>2. Cardinality({a} \cup {b}) = Cardinality({a}) + 1
    BY <1>2, <2>1, FS_AddElement
  <2>3. {a, b} = {a} \cup {b}
    OBVIOUS
  <2>4. QED
    BY <2>1, <2>2, <2>3
<1>4. Cardinality({a, b}) <= Cardinality(Users(n))
  BY <1>1, FS_Subset
<1>5. QED
  BY <1>1, <1>3, <1>4, FS_CardinalityType

\* A clause of a MIB that is handed over is found under its name.
LEMMA ClauseByName ==
  ASSUME job \in Jobs, NEW m \in job.handed, NEW c \in Clauses(m)
  PROVE  m \in Known /\ Declares(m, c.name) /\ ClauseOf(m, c.name) = c
<1>1. m \in Known
  BY NetSnmpCodeGenAssumption DEF Known
<1>2. \A d \in Clauses(m) : d.name = c.name => d = c
  BY NetSnmpCodeGenAssumption DEF Clauses
<1>3. ClauseOf(m, c.name) = c
  BY <1>2 DEF ClauseOf
<1>4. QED
  BY <1>1, <1>3 DEF Declares

-----------------------------------------------------------------------------
(* The kinds of steps.                                                     *)

\* Generation ends badly.
DeadEnd ==
  /\ pc \notin Dead /\ pc' \in Dead
  /\ UNCHANGED <<job, module, at, rest, main_flag, symbols, code>>

Visits ==
  \/ GenTypeDeclaration \/ GenNode \/ GenScalarCode \/ GenTableCode \/ GenTableRowCode
  \/ GenTableColumnCode \/ GenNotificationType

TemplateDone == GenJsonFile /\ pc' = "done"

Generates ==
  \/ SkipScalar \/ GenScalar \/ GenPlugin \/ SkipTable \/ GenTable \/ TablesDone
  \/ GenTrap \/ GenCustomFiles \/ TemplateDone

LEMMA StatusIsKnown ==
  ASSUME NEW c, NEW n
  PROVE  Status(c) \in {"done", "failed", "crash"} /\ TrapStatus(n) \in {"done", "failed", "crash"}
BY DEF Status, OidStatus, DefaultStatus, TrapStatus

LEMMA KindsOfSteps ==
  ASSUME [Next]_vars
  PROVE  \/ DeadEnd \/ GenImports \/ Visits \/ NextModule \/ AllModulesDone \/ Generates
         \/ UNCHANGED vars
<1>1. ImportsEndBadly => DeadEnd
  BY DEF ImportsEndBadly, DeadEnd, Dead
<1>2. ClauseFails => DeadEnd
  BY StatusIsKnown DEF ClauseFails, DeadEnd, Dead
<1>3. ScalarFails => DeadEnd
  BY DEF ScalarFails, DeadEnd, Dead
<1>4. TableFails => DeadEnd
  BY DEF TableFails, DeadEnd, Dead
<1>5. TrapFails => DeadEnd
  BY StatusIsKnown DEF TrapFails, DeadEnd, Dead
<1>6. GenJsonFile => DeadEnd \/ TemplateDone
  BY DEF GenJsonFile, TemplateDone, DeadEnd, Dead
<1>7. QED
  BY <1>1, <1>2, <1>3, <1>4, <1>5, <1>6 DEF Next, Visits, Generates

\* A clause that is visited is the one at "at"; importMap and the code stay.
LEMMA VisitFrame ==
  ASSUME Visits
  PROVE  /\ pc = "clauses" /\ pc' = pc
         /\ at <= Len(job.text[module]) /\ at' = at + 1
         /\ UNCHANGED <<job, module, rest, main_flag, importMap, code>>
BY DEF Visits, Visit, GenTypeDeclaration, GenNode, GenScalarCode, GenTableCode, GenTableRowCode,
       GenTableColumnCode, GenNotificationType

\* What was collected stays while it is turned into code.
LEMMA GenerateFrame ==
  ASSUME Generates
  PROVE  /\ pc \in Generating /\ pc' \in Generating
         /\ UNCHANGED <<job, module, main_flag, symbols>>
BY DEF Generates, SkipScalar, GenScalar, GenPlugin, SkipTable, GenTable, TablesDone, GenTrap,
       GenCustomFiles, TemplateDone, GenJsonFile, Generating

\* A job is not changed, and what has ended badly does not go on.
LEMMA JobStays ==
  ASSUME [Next]_vars
  PROVE  job' = job /\ (pc' \notin Dead => pc \notin Dead)
BY KindsOfSteps, VisitFrame, GenerateFrame
   DEF DeadEnd, GenImports, NextModule, AllModulesDone, ClausesDone, Generating, Dead, vars

LEMMA InitIInv == Init => IInv
<1> SUFFICES ASSUME Init PROVE IInv
  OBVIOUS
<1>1. job.main \in job.handed
  BY NetSnmpCodeGenAssumption DEF Init
<1>2. DOMAIN Empty = {} /\ DOMAIN scalars = {} /\ DOMAIN traps = {}
  BY DEF Init, Empty
<1>3. IsSequence(<<>>)
  BY DEF IsSequence
<1>4. Control
  BY <1>1 DEF Init, Control, Reading, Generating, Dead
<1>5. ImportsKnown /\ Entries
  BY <1>2 DEF Init, ImportsKnown, Entries
<1>6. \A i \in DOMAIN job.text[job.main] : ~Visited(job.main, i)
  BY DEF Init, Visited
<1>7. ScalarsOfMain
  BY <1>2, <1>3, <1>6 DEF Init, ScalarsOfMain
<1>8. TrapsOfAll
  <2>1. \A m \in job.handed : \A i \in DOMAIN job.text[m] : ~Visited(m, i)
    BY DEF Init, Visited
  <2>2. QED
    BY <1>2, <1>3, <2>1 DEF Init, TrapsOfAll
<1>9. PluginKnown /\ GettersKnown /\ EmittedKnown /\ SendersKnown
  BY <1>2 DEF Init, PluginKnown, GettersKnown, EmittedKnown, SendersKnown, Reading, Dead
<1>10. QED
  BY <1>4, <1>5, <1>7, <1>8, <1>9 DEF IInv

LEMMA ControlStep ==
  ASSUME Control, [Next]_vars
  PROVE  Control'
<1> USE DEF Reading, Generating, Dead
<1>1. CASE DeadEnd
  BY <1>1 DEF Control, DeadEnd
<1>2. CASE GenImports
  BY <1>2 DEF Control, GenImports
<1>3. CASE Visits
  BY <1>3, VisitFrame DEF Control
<1>4. CASE NextModule
  BY <1>4 DEF Control, NextModule, ClausesDone
<1>5. CASE AllModulesDone
  <2>1. job.main \in job.handed
    BY NetSnmpCodeGenAssumption DEF Control
  <2>2. job' = job /\ module' = job.main /\ at' = 1
    BY <1>5 DEF AllModulesDone
  <2>3. pc' \in {"scalars", "json"} /\ (pc' = "json" => job.json # <<>>)
    BY <1>5 DEF AllModulesDone
  <2>4. ~main_flag' /\ main_flag' \in BOOLEAN
    BY <1>5 DEF AllModulesDone
  <2>5. QED
    BY <2>1, <2>2, <2>3, <2>4 DEF Control
<1>6. CASE Generates
  <2>1. at' \in Nat \ {0}
    BY <1>6 DEF Control, Generates, SkipScalar, GenScalar, GenPlugin, SkipTable, GenTable, TablesDone,
                GenTrap, GenCustomFiles, TemplateDone, GenJsonFile
  <2>2. pc' # "json"
    BY <1>6 DEF Generates, SkipScalar, GenScalar, GenPlugin, SkipTable, GenTable, TablesDone,
                GenTrap, GenCustomFiles, TemplateDone, GenJsonFile
  <2>3. QED
    BY <1>6, <2>1, <2>2, GenerateFrame DEF Control
<1>7. CASE UNCHANGED vars
  BY <1>7 DEF Control, vars
<1>8. QED
  BY <1>1, <1>2, <1>3, <1>4, <1>5, <1>6, <1>7, KindsOfSteps

LEMMA ImportsStep ==
  ASSUME Control, ImportsKnown, [Next]_vars
  PROVE  ImportsKnown'
<1> USE DEF Reading, Generating, Dead
<1>1. CASE DeadEnd
  BY <1>1 DEF ImportsKnown, DeadEnd, symbols
<1>2. CASE GenImports
  BY <1>2 DEF Control, ImportsKnown, GenImports, Overwrite
<1>3. CASE Visits
  BY <1>3, VisitFrame DEF ImportsKnown
<1>4. CASE NextModule
  BY <1>4 DEF ImportsKnown, NextModule, symbols
<1>5. CASE AllModulesDone
  BY <1>5 DEF ImportsKnown, AllModulesDone, symbols
<1>6. CASE Generates
  BY <1>6, GenerateFrame DEF ImportsKnown, symbols
<1>7. CASE UNCHANGED vars
  BY <1>7 DEF ImportsKnown, vars, symbols
<1>8. QED
  BY <1>1, <1>2, <1>3, <1>4, <1>5, <1>6, <1>7, KindsOfSteps

-----------------------------------------------------------------------------
(* What is collected.                                                      *)

\* The job stays, and with it what its texts mean.
LEMMA SameJob ==
  ASSUME job' = job
  PROVE  /\ \A m : Clauses(m)' = Clauses(m)
         /\ \A n : Sole(n)' <=> Sole(n)
         /\ \A m, n : Scope(m, n)' = Scope(m, n)
         /\ \A m, n : ClauseOf(m, n)' = ClauseOf(m, n)
         /\ \A m, n : IsObject(m, n)' <=> IsObject(m, n)
         /\ \A n : Mapped(n)' <=> Mapped(n)
         /\ \A e : IsOfClause(e)' <=> IsOfClause(e)
<1>1. Known' = Known
  BY DEF Known
<1>2. \A m : Clauses(m)' = Clauses(m)
  BY DEF Clauses
<1>3. \A m, n : Declares(m, n)' <=> Declares(m, n)
  BY <1>1, <1>2 DEF Declares
<1>4. \A n : Sole(n)' <=> Sole(n)
  <2> SUFFICES ASSUME NEW n PROVE Sole(n)' <=> Sole(n)
    OBVIOUS
  <2>1. Users(n)' = Users(n)
    BY <1>1, <1>3 DEF Users
  <2>2. Sole(n) <=> Cardinality(Users(n)) <= 1
    BY DEF Sole, Users
  <2>3. Sole(n)' <=> Cardinality(Users(n)') <= 1
    BY DEF Sole, Users
  <2>4. QED
    BY <2>1, <2>2, <2>3
<1>5. \A m, n : Scope(m, n)' = Scope(m, n)
  BY DEF Scope
<1>6. \A m, n : ClauseOf(m, n)' = ClauseOf(m, n)
  BY <1>2 DEF ClauseOf
<1>7. \A m, n : IsObject(m, n)' <=> IsObject(m, n)
  BY <1>3, <1>6 DEF IsObject
<1>8. \A n : Mapped(n)' <=> Mapped(n)
  BY DEF Mapped
<1>9. \A e : IsOfClause(e)' <=> IsOfClause(e)
  BY <1>2, <1>4, <1>5 DEF IsOfClause
<1>10. QED
  BY <1>2, <1>4, <1>5, <1>6, <1>7, <1>8, <1>9

\* importMap is of all MIBs visited, and yet finds the parent of a clause where
\* its own MIB has it from.
LEMMA EntryIsOfClause ==
  ASSUME Control, ImportsKnown, pc = "clauses", at <= Len(job.text[module])
  PROVE  Here \in Clauses(module) /\ IsOfClause(Entry(Here))
<1> DEFINE p == Here.parent
<1>1. at \in DOMAIN job.text[module]
  BY NetSnmpCodeGenAssumption DEF Control
<1>2. Here \in Clauses(module)
  BY <1>1 DEF Here, Clauses
<1>3. ASSUME Here.kind # "type", Sole(p)
      PROVE  ImportedFrom(p) = Scope(module, p)
  <2>1. job.handed \subseteq Known
    BY NetSnmpCodeGenAssumption DEF Control, Known
  <2>2. p \in DOMAIN job.imports[module] \/ \E k \in DOMAIN job.text[module] : job.text[module][k].name = p
    BY <1>1, <1>3, NetSnmpCodeGenAssumption DEF Control, Here
  <2>3. Scope(module, p) \in Users(p)
    BY <2>1, <2>2 DEF Scope, Users, Declares, Clauses, Control
  <2>4. p \in DOMAIN importMap => importMap[p] \in Users(p)
    BY <2>1 DEF ImportsKnown, Users
  <2>5. p \notin DOMAIN importMap => Scope(module, p) = module
    BY DEF ImportsKnown, Scope
  <2>6. QED
    BY <1>3, <2>3, <2>4, <2>5, SoleUser DEF ImportedFrom, Control
<1>4. /\ Entry(Here).in = module
      /\ Entry(Here).clause = Here
      /\ Entry(Here).oid = <<ImportedFrom(p), p>>
  BY DEF Entry
<1>5. QED
  BY <1>2, <1>3, <1>4 DEF IsOfClause, Control

LEMMA EntriesStep ==
  ASSUME Control, ImportsKnown, Entries, [Next]_vars
  PROVE  Entries'
<1>1. CASE job' = job /\ UNCHANGED <<out, tables, tableRows>>
  <2>1. \A e : IsOfClause(e)' <=> IsOfClause(e)
    BY <1>1, SameJob
  <2>2. QED
    BY <1>1, <2>1 DEF Entries
<1>2. CASE Visits
  <2>1. job' = job /\ pc = "clauses" /\ at <= Len(job.text[module])
    BY <1>2, VisitFrame
  <2>2. IsOfClause(Entry(Here)) /\ Entry(Here).clause = Here
    BY <2>1, EntryIsOfClause DEF Entry
  <2>3. \A n \in DOMAIN out' : out'[n].clause.name = n /\ IsOfClause(out'[n])
    <3>1. CASE GenTableRowCode
      <4> DEFINE made == {Here.index[i] : i \in DOMAIN Here.index} \cap FakeTypes
      <4>1. \A t \in made : FakeEntry(t).clause.name = t /\ IsOfClause(FakeEntry(t))
        BY DEF FakeEntry, IsOfClause
      <4>2. out' = Overwrite(Put(out, Here.name, Entry(Here)), [t \in made |-> FakeEntry(t)])
        BY <3>1 DEF GenTableRowCode
      <4> HIDE DEF made
      <4>3. QED
        BY <2>2, <4>1, <4>2 DEF Entries, Overwrite, Put
    <3>2. CASE ~GenTableRowCode
      <4>1. out' = Put(out, Here.name, Entry(Here))
        BY <1>2, <3>2 DEF Visits, Visit, Here, GenTypeDeclaration, GenNode, GenScalarCode, GenTableCode,
                          GenTableColumnCode, GenNotificationType
      <4>2. QED
        BY <2>2, <4>1 DEF Entries, Put
    <3>3. QED
      BY <3>1, <3>2
  <2>4. /\ \A t \in DOMAIN tables' : tables'[t] = None \/ tables'[t] \in DOMAIN tableRows'
        /\ \A r \in DOMAIN tableRows' :
             LET row == tableRows'[r]
             IN  /\ row = [index |-> row.index, augments |-> row.augments, columns |-> row.columns]
                 /\ IsSequence(row.columns)
                 /\ \A i \in DOMAIN row.columns : IsOfClause(row.columns[i])
    <3>1. CASE GenTableRowCode
      <4>1. IsSequence(<<>>)
        BY DEF IsSequence
      <4>2. /\ tables' = Put(tables, Here.parent, Here.name)
            /\ tableRows' = Put(tableRows, Here.name,
                 [index |-> Here.index, augments |-> Here.augments, columns |-> <<>>])
        BY <3>1 DEF GenTableRowCode
      <4>3. QED
        BY <4>1, <4>2 DEF Entries, Put
    <3>2. CASE GenTableColumnCode
      <4> DEFINE r == Here.parent
                 columns == Append(tableRows[r].columns, Entry(Here))
      <4>1. /\ tables' = tables
            /\ tableRows' = [tableRows EXCEPT ![r].columns = columns]
        BY <3>2 DEF GenTableColumnCode
      <4>2. r \in DOMAIN tableRows
        <5>1. Here.kind = "column"
          BY <3>2 DEF GenTableColumnCode, Visit, Here
        <5>2. QED
          BY <3>2, <5>1 DEF GenTableColumnCode, HasPlace
      <4>3. IsSequence(columns) /\ \A i \in DOMAIN columns : IsOfClause(columns[i])
        <5>1. IsSequence(tableRows[r].columns)
          BY <4>2 DEF Entries
        <5>2. /\ IsSequence(columns)
              /\ Len(tableRows[r].columns) \in Nat
              /\ DOMAIN tableRows[r].columns = 1 .. Len(tableRows[r].columns)
              /\ DOMAIN columns = 1 .. Len(tableRows[r].columns) + 1
              /\ \A i \in DOMAIN tableRows[r].columns : columns[i] = tableRows[r].columns[i]
              /\ columns[Len(tableRows[r].columns) + 1] = Entry(Here)
          BY <5>1, Appended
        <5>3. \A i \in DOMAIN tableRows[r].columns : IsOfClause(tableRows[r].columns[i])
          BY <4>2 DEF Entries
        <5> HIDE DEF columns
        <5>4. QED
          BY <2>2, <5>2, <5>3
      <4>4. tableRows[r] = [index |-> tableRows[r].index, augments |-> tableRows[r].augments,
                            columns |-> tableRows[r].columns]
        BY <4>2 DEF Entries
      <4> HIDE DEF columns
      <4>5. DOMAIN tableRows' = DOMAIN tableRows /\ \A q \in DOMAIN tableRows : q # r => tableRows'[q] = tableRows[q]
        BY <4>1
      <4>6. tableRows'[r] = [index |-> tableRows[r].index, augments |-> tableRows[r].augments, columns |-> columns]
        BY <4>1, <4>2, <4>4
      <4>7. QED
        BY <4>1, <4>2, <4>3, <4>5, <4>6 DEF Entries
    <3>3. CASE GenTableCode
      BY <3>3 DEF GenTableCode, Entries, Put
    <3>4. CASE ~GenTableRowCode /\ ~GenTableColumnCode /\ ~GenTableCode
      <4>1. UNCHANGED <<tables, tableRows>>
        BY <1>2, <3>4 DEF Visits, GenTypeDeclaration, GenNode, GenScalarCode, GenNotificationType
      <4>2. QED
        BY <4>1 DEF Entries
    <3>5. QED
      BY <3>1, <3>2, <3>3, <3>4
  <2>5. QED
    BY <2>1, <2>3, <2>4, SameJob DEF Entries
<1>3. QED
  BY <1>1, <1>2, KindsOfSteps, GenerateFrame DEF DeadEnd, GenImports, NextModule, AllModulesDone,
                                                 symbols, vars

\* A step visits at most the clause at "at", and forgets none.
LEMMA VisitedStep ==
  ASSUME Control, [Next]_vars, pc' \notin Dead, NEW m \in job.handed, NEW i \in DOMAIN job.text[m]
  PROVE  job' = job /\ (Visited(m, i)' <=> Visited(m, i) \/ (Visits /\ m = module /\ i = at))
<1>1. i \in 1 .. Len(job.text[m]) /\ Len(job.text[m]) \in Nat
  BY NetSnmpCodeGenAssumption DEF Control
<1> USE DEF Reading, Generating, Dead
<1>2. CASE DeadEnd
  BY <1>2 DEF DeadEnd
<1>3. CASE GenImports
  BY <1>1, <1>3, VisitFrame DEF GenImports, Visited, Control
<1>4. CASE Visits
  BY <1>1, <1>4, VisitFrame DEF Visited, Control
<1>5. CASE NextModule
  <2>1. ~Visits
    BY <1>5, VisitFrame DEF NextModule, ClausesDone, Control
  <2>2. QED
    BY <1>1, <1>5, <2>1 DEF NextModule, ClausesDone, Visited, Control
<1>6. CASE AllModulesDone
  <2>1. pc = "clauses" /\ rest = {} /\ at > Len(job.text[module]) /\ job' = job /\ pc' \in {"scalars", "json"}
    BY <1>6 DEF AllModulesDone, ClausesDone
  <2>2. QED
    BY <1>1, <2>1 DEF Visited, Control
<1>7. CASE Generates
  BY <1>7, GenerateFrame DEF Visited
<1>8. CASE UNCHANGED vars
  <2>1. ~Visits
    BY <1>8, VisitFrame DEF vars, Control
  <2>2. QED
    BY <1>8, <2>1 DEF Visited, vars
<1>9. QED
  BY <1>2, <1>3, <1>4, <1>5, <1>6, <1>7, <1>8, KindsOfSteps

\* The clause at "at" is of the kind that its step is for.
LEMMA KindOfVisit ==
  ASSUME Visits
  PROVE  /\ Here.kind = "scalar" => GenScalarCode
         /\ Here.kind = "notification" => GenNotificationType
         /\ GenScalarCode => Here.kind = "scalar"
         /\ GenNotificationType => Here.kind = "notification"
         /\ ~GenScalarCode => scalars' = scalars
         /\ ~GenNotificationType => traps' = traps
         /\ Here.name \in DOMAIN out' /\ DOMAIN out \subseteq DOMAIN out'
BY DEF Visits, Visit, Here, GenTypeDeclaration, GenNode, GenScalarCode, GenTableCode, GenTableRowCode,
       GenTableColumnCode, GenNotificationType, Put, Overwrite

LEMMA OutGrows ==
  ASSUME [Next]_vars
  PROVE  DOMAIN out \subseteq DOMAIN out'
BY KindsOfSteps, KindOfVisit, GenerateFrame DEF DeadEnd, GenImports, NextModule, AllModulesDone,
                                                symbols, vars

LEMMA ScalarsStep ==
  ASSUME Control, ScalarsOfMain, [Next]_vars
  PROVE  ScalarsOfMain'
<1>1. job' = job
  BY JobStays
<1>2. job.main \in job.handed
  BY NetSnmpCodeGenAssumption DEF Control
<1>3. Clauses(job.main)' = Clauses(job.main)
  BY <1>1 DEF Clauses
<1>4. CASE Visits /\ GenScalarCode /\ main_flag
  <2>1. module = job.main /\ pc = "clauses" /\ at <= Len(job.text[module])
    BY <1>4, VisitFrame DEF Control
  <2>2. at \in DOMAIN job.text[job.main] /\ Here = job.text[job.main][at]
    BY <1>2, <2>1, NetSnmpCodeGenAssumption DEF Control, Here
  <2>3. scalars' = Append(scalars, Here.name)
    BY <1>4 DEF GenScalarCode, ScalarsWith
  <2>4. /\ IsSequence(scalars')
        /\ Len(scalars) \in Nat
        /\ DOMAIN scalars = 1 .. Len(scalars)
        /\ DOMAIN scalars' = 1 .. Len(scalars) + 1
        /\ \A i \in DOMAIN scalars : scalars'[i] = scalars[i]
        /\ scalars'[Len(scalars) + 1] = Here.name
    BY <2>3, Appended DEF ScalarsOfMain
  <2>5. Here \in Clauses(job.main) /\ Here.kind = "scalar"
    BY <1>4, <2>2, KindOfVisit DEF Clauses
  <2>6. \A k \in DOMAIN scalars' : \E c \in Clauses(job.main) : c.kind = "scalar" /\ c.name = scalars'[k]
    BY <2>4, <2>5 DEF ScalarsOfMain
  <2>7. ASSUME NEW i \in DOMAIN job.text[job.main], pc' \notin Dead,
               job.text[job.main][i].kind = "scalar", Visited(job.main, i)'
        PROVE  \E k \in DOMAIN scalars' : scalars'[k] = job.text[job.main][i].name
    <3>1. Visited(job.main, i) \/ i = at
      BY <1>2, <2>7, VisitedStep
    <3>2. pc \notin Dead
      BY <2>1 DEF Dead
    <3>3. QED
      BY <2>2, <2>4, <2>7, <3>1, <3>2 DEF ScalarsOfMain
  <2>8. \A k \in DOMAIN scalars' : scalars'[k] \in DOMAIN out'
    BY <1>4, <2>4, KindOfVisit DEF ScalarsOfMain
  <2>9. QED
    BY <1>1, <1>3, <2>4, <2>6, <2>7, <2>8 DEF ScalarsOfMain
<1>5. CASE ~(Visits /\ GenScalarCode /\ main_flag)
  <2>1. scalars' = scalars
    BY <1>5, KindsOfSteps, KindOfVisit, GenerateFrame
       DEF DeadEnd, GenImports, NextModule, AllModulesDone, GenScalarCode, ScalarsWith, symbols, vars
  <2>2. ASSUME NEW i \in DOMAIN job.text[job.main], pc' \notin Dead,
               job.text[job.main][i].kind = "scalar", Visited(job.main, i)'
        PROVE  pc \notin Dead /\ Visited(job.main, i)
    <3>1. pc \notin Dead
      BY <2>2, JobStays
    <3>2. Visited(job.main, i) \/ (Visits /\ job.main = module /\ i = at)
      BY <1>2, <2>2, VisitedStep
    <3>3. Visits /\ job.main = module /\ i = at => FALSE
      BY <1>5, <2>2, KindOfVisit, VisitFrame DEF Control, Here, Reading
    <3>4. QED
      BY <3>1, <3>2, <3>3
  <2>3. QED
    BY <1>1, <1>3, <2>1, <2>2, OutGrows DEF ScalarsOfMain
<1>6. QED
  BY <1>4, <1>5

LEMMA TrapsStep ==
  ASSUME Control, TrapsOfAll, [Next]_vars
  PROVE  TrapsOfAll'
<1>1. job' = job
  BY JobStays
<1>2. \A n : Sole(n)' <=> Sole(n)
  BY <1>1, SameJob
<1>3. \A m, i, n : IsTrap(m, i, n)' <=> IsTrap(m, i, n)
  BY <1>1 DEF IsTrap
<1>4. DOMAIN out \subseteq DOMAIN out'
  BY OutGrows
<1>5. CASE Visits /\ GenNotificationType
  <2>1. pc = "clauses" /\ pc \notin Dead /\ module \in job.handed /\ at \in DOMAIN job.text[module]
    BY <1>5, VisitFrame, NetSnmpCodeGenAssumption DEF Control, Dead
  <2>2. traps' = Append(traps, Here.name)
    BY <1>5 DEF GenNotificationType, TrapsWith
  <2>3. /\ IsSequence(traps')
        /\ Len(traps) \in Nat
        /\ DOMAIN traps = 1 .. Len(traps)
        /\ DOMAIN traps' = 1 .. Len(traps) + 1
        /\ \A i \in DOMAIN traps : traps'[i] = traps[i]
        /\ traps'[Len(traps) + 1] = Here.name
    BY <2>2, Appended DEF TrapsOfAll
  <2>4. IsTrap(module, at, Here.name)
    BY <1>5, KindOfVisit DEF IsTrap, Here
  <2>5. Here.name \in DOMAIN out'
    BY <1>5, KindOfVisit
  <2>6. ASSUME NEW k \in DOMAIN traps, traps[k] = Here.name, Sole(Here.name)
        PROVE  FALSE
    <3>1. PICK m \in job.handed : \E i \in DOMAIN job.text[m] : IsTrap(m, i, Here.name) /\ Visited(m, i)
      BY <2>1, <2>6 DEF TrapsOfAll
    <3>2. PICK i \in DOMAIN job.text[m] : IsTrap(m, i, Here.name) /\ Visited(m, i)
      BY <3>1
    <3>3. m \in Users(Here.name) /\ module \in Users(Here.name)
      <4>1. m \in Known /\ module \in Known
        BY <2>1, NetSnmpCodeGenAssumption DEF Control, Known
      <4>2. Declares(m, Here.name) /\ Declares(module, Here.name)
        BY <2>1, <2>4, <3>2, <4>1 DEF Declares, Clauses, IsTrap
      <4>3. QED
        BY <4>1, <4>2 DEF Users
    <3>4. m = module
      BY <2>6, <3>3, SoleUser DEF Control
    <3>5. i = at
      BY <2>1, <2>4, <3>2, <3>4, NetSnmpCodeGenAssumption DEF IsTrap, Control
    <3>6. ~Visited(module, at)
      BY <2>1 DEF Visited, Control
    <3>7. QED
      BY <3>2, <3>4, <3>5, <3>6
  <2>7. \A k, l \in DOMAIN traps' : traps'[k] = traps'[l] /\ Sole(traps'[k]) => k = l
    BY <2>3, <2>6 DEF TrapsOfAll
  <2>8. \A k \in DOMAIN traps' : traps'[k] \in DOMAIN out'
    BY <1>4, <2>3, <2>5 DEF TrapsOfAll
  <2>9. pc' \notin Dead =>
          \A k \in DOMAIN traps' : \E m \in job.handed : \E i \in DOMAIN job.text[m] :
            IsTrap(m, i, traps'[k]) /\ Visited(m, i)'
    <3> SUFFICES ASSUME pc' \notin Dead, NEW k \in DOMAIN traps'
                 PROVE  \E m \in job.handed : \E i \in DOMAIN job.text[m] :
                          IsTrap(m, i, traps'[k]) /\ Visited(m, i)'
      OBVIOUS
    <3>1. CASE k \in DOMAIN traps
      <4>1. \E m \in job.handed : \E i \in DOMAIN job.text[m] : IsTrap(m, i, traps[k]) /\ Visited(m, i)
        BY <2>1, <3>1 DEF TrapsOfAll
      <4>2. traps'[k] = traps[k]
        BY <2>3, <3>1
      <4>3. QED
        BY <4>1, <4>2, VisitedStep
    <3>2. CASE k \notin DOMAIN traps
      <4>1. k = Len(traps) + 1
        BY <2>3, <3>2
      <4>2. PICK m \in job.handed : \E i \in DOMAIN job.text[m] : m = module /\ i = at
        BY <2>1
      <4>3. PICK i \in DOMAIN job.text[m] : m = module /\ i = at
        BY <4>2
      <4>4. Visited(m, i)'
        BY <1>5, <4>3, VisitedStep
      <4>5. QED
        BY <2>3, <2>4, <4>1, <4>3, <4>4
    <3>3. QED
      BY <3>1, <3>2
  <2>10. ASSUME NEW m \in job.handed, NEW i \in DOMAIN job.text[m], pc' \notin Dead,
                job.text[m][i].kind = "notification", Visited(m, i)'
         PROVE  \E k \in DOMAIN traps' : traps'[k] = job.text[m][i].name
    <3>1. Visited(m, i) \/ (m = module /\ i = at)
      BY <2>10, VisitedStep
    <3>2. CASE Visited(m, i)
      <4>1. \E k \in DOMAIN traps : traps[k] = job.text[m][i].name
        BY <2>1, <2>10, <3>2 DEF TrapsOfAll
      <4>2. QED
        BY <2>3, <4>1
    <3>3. CASE m = module /\ i = at
      BY <2>3, <3>3 DEF Here
    <3>4. QED
      BY <3>1, <3>2, <3>3
  <2>11. QED
    BY <1>1, <1>2, <1>3, <2>3, <2>7, <2>8, <2>9, <2>10 DEF TrapsOfAll
<1>6. CASE ~(Visits /\ GenNotificationType)
  <2>1. traps' = traps
    BY <1>6, KindsOfSteps, KindOfVisit, GenerateFrame
       DEF DeadEnd, GenImports, NextModule, AllModulesDone, symbols, vars
  <2>2. ASSUME pc' \notin Dead
        PROVE  /\ pc \notin Dead
               /\ \A m \in job.handed : \A i \in DOMAIN job.text[m] : Visited(m, i) => Visited(m, i)'
               /\ \A m \in job.handed : \A i \in DOMAIN job.text[m] :
                    job.text[m][i].kind = "notification" /\ Visited(m, i)' => Visited(m, i)
    <3>1. pc \notin Dead
      BY <2>2, JobStays
    <3>2. \A m \in job.handed : \A i \in DOMAIN job.text[m] :
            Visited(m, i)' <=> Visited(m, i) \/ (Visits /\ m = module /\ i = at)
      BY <2>2, VisitedStep
    <3>3. Visits => job.text[module][at].kind # "notification"
      BY <1>6, KindOfVisit DEF Here
    <3>4. QED
      BY <3>1, <3>2, <3>3
  <2>3. QED
    BY <1>1, <1>2, <1>3, <1>4, <2>1, <2>2 DEF TrapsOfAll
<1>7. QED
  BY <1>5, <1>6

-----------------------------------------------------------------------------
(* What is generated.                                                      *)

\* Outside of its own steps the code does not change.
LEMMA CodeStays ==
  ASSUME [Next]_vars, ~Generates
  PROVE  UNCHANGED code
BY KindsOfSteps, VisitFrame DEF DeadEnd, GenImports, NextModule, AllModulesDone, vars

LEMMA PluginStep ==
  ASSUME Control, IsSequence(scalars), PluginKnown, [Next]_vars
  PROVE  PluginKnown'
<1>1. /\ job' = job
      /\ DOMAIN scalars = 1 .. Len(scalars) /\ Len(scalars) \in Nat
  BY JobStays, Appended
<1>2. CASE ~Generates
  <2>1. defined' = defined
    BY <1>2, CodeStays DEF code
  <2>2. pc' \in Dead \/ pc' \in Reading \/ (AllModulesDone /\ pc' \in {"scalars", "json"}) \/ UNCHANGED vars
    BY <1>2, KindsOfSteps, VisitFrame DEF DeadEnd, GenImports, NextModule, AllModulesDone, Reading
  <2>3. CASE pc' \in Dead
    BY <2>3 DEF PluginKnown, Dead, Reading
  <2>4. CASE pc' \in Reading
    <3>1. pc \in Reading
      BY <1>2, <2>4, KindsOfSteps, VisitFrame
         DEF DeadEnd, GenImports, NextModule, AllModulesDone, ClausesDone, Reading, Dead, vars
    <3>2. QED
      BY <2>1, <2>4, <3>1 DEF PluginKnown, Reading
  <2>5. CASE AllModulesDone /\ pc' \in {"scalars", "json"}
    <3>1. pc = "clauses" /\ at' = 1 /\ scalars' = scalars
      BY <2>5 DEF AllModulesDone, ClausesDone, symbols
    <3>2. defined' = {} /\ MappedBefore(at)' = {}
      BY <1>1, <2>1, <3>1 DEF PluginKnown, Reading, MappedBefore
    <3>3. QED
      BY <2>5, <3>2 DEF PluginKnown, Reading
  <2>6. CASE UNCHANGED vars
    BY <2>6 DEF PluginKnown, vars, symbols, code, CallsOfPlugin, MappedBefore, MappedScalars,
                MappedTables, Mapped
  <2>7. QED
    BY <2>2, <2>3, <2>4, <2>5, <2>6
<1>3. CASE Generates
  <2>1. /\ scalars' = scalars /\ tables' = tables
        /\ \A n : Mapped(n)' <=> Mapped(n)
    BY <1>1, <1>3, GenerateFrame, SameJob DEF symbols
  <2>2. MappedScalars' = MappedScalars /\ MappedTables' = MappedTables
    BY <2>1 DEF MappedScalars, MappedTables
  <2>3. CASE SkipScalar \/ GenScalar
    <3>1. /\ pc = "scalars" /\ pc' = pc /\ at' = at + 1 /\ at <= Len(scalars)
          /\ defined' = IF Mapped(scalars[at]) THEN defined \cup {scalars[at]} ELSE defined
      BY <2>3 DEF SkipScalar, GenScalar, code
    <3>2. MappedBefore(at)' = IF Mapped(scalars[at]) THEN MappedBefore(at) \cup {scalars[at]} ELSE MappedBefore(at)
      <4>1. \A i \in DOMAIN scalars : i < at' <=> i < at \/ i = at
        BY <1>1, <3>1 DEF Control
      <4>2. at \in DOMAIN scalars
        BY <1>1, <3>1 DEF Control
      <4>3. MappedBefore(at)' = {scalars[i] : i \in {i \in DOMAIN scalars : i < at' /\ Mapped(scalars[i])}}
        BY <2>1 DEF MappedBefore
      <4>4. QED
        BY <4>1, <4>2, <4>3 DEF MappedBefore
    <3>3. QED
      BY <3>1, <3>2 DEF PluginKnown, Reading
  <2>4. CASE GenPlugin
    <3>1. /\ pc = "scalars" /\ at > Len(scalars) /\ pc' = "tables"
          /\ rest' = DOMAIN tables
          /\ calls' = CallsOfPlugin /\ defined' = defined
      BY <2>4 DEF GenPlugin, CallsOfPlugin
    <3>2. MappedBefore(at) = MappedScalars
      BY <1>1, <3>1 DEF MappedBefore, MappedScalars, Control
    <3>3. MappedTables \ rest' = {}
      BY <3>1 DEF MappedTables
    <3>4. CallsOfPlugin' = CallsOfPlugin
      BY <2>1, <2>2 DEF CallsOfPlugin
    <3>5. QED
      BY <2>1, <2>2, <3>1, <3>2, <3>3, <3>4 DEF PluginKnown, Reading
  <2>5. CASE SkipTable \/ GenTable
    <3>1. PICK t \in rest : /\ rest' = rest \ {t}
                            /\ defined' = IF Mapped(t) THEN defined \cup {t} ELSE defined
      BY <2>5 DEF SkipTable, GenTable, code
    <3>2. pc = "tables" /\ pc' = pc /\ calls' = calls
      BY <2>5 DEF SkipTable, GenTable, code
    <3>3. /\ rest \subseteq DOMAIN tables /\ calls = CallsOfPlugin
          /\ defined = MappedScalars \cup (MappedTables \ rest)
      BY <3>2 DEF PluginKnown
    <3>4. MappedTables \ rest' = IF Mapped(t) THEN (MappedTables \ rest) \cup {t} ELSE MappedTables \ rest
      BY <3>1, <3>3 DEF MappedTables
    <3>5. CallsOfPlugin' = CallsOfPlugin
      BY <2>1, <2>2 DEF CallsOfPlugin
    <3>6. QED
      BY <2>1, <2>2, <3>1, <3>2, <3>3, <3>4, <3>5 DEF PluginKnown, Reading
  <2>6. CASE TablesDone \/ GenTrap \/ GenCustomFiles
    <3>1. /\ calls' = calls /\ defined' = defined
          /\ pc' \in {"traps", "done"}
          /\ (pc = "tables" /\ rest = {}) \/ pc = "traps"
      BY <2>6 DEF TablesDone, GenTrap, GenCustomFiles, code
    <3>2. CallsOfPlugin' = CallsOfPlugin
      BY <2>1, <2>2 DEF CallsOfPlugin
    <3>3. QED
      BY <2>2, <3>1, <3>2 DEF PluginKnown, Reading
  <2>7. CASE TemplateDone
    BY <1>1, <2>7 DEF TemplateDone, GenJsonFile, PluginKnown, Control, Reading
  <2>8. QED
    BY <1>3, <2>3, <2>4, <2>5, <2>6, <2>7 DEF Generates
<1>4. QED
  BY <1>2, <1>3

LEMMA GettersStep ==
  ASSUME GettersKnown, [Next]_vars
  PROVE  GettersKnown'
<1>1. /\ job' = job
      /\ \A g : IsMapped(g)' <=> IsMapped(g)
  BY JobStays DEF IsMapped
<1>2. CASE UNCHANGED <<getters, declared>>
  BY <1>1, <1>2 DEF GettersKnown
<1>3. CASE GenScalar
  <2> DEFINE n == scalars[at]
             rows == job.mapping[n][n]
  <2>1. /\ getters' = getters \cup (IF n \in GeneratedNames THEN {} ELSE {<<n, rows>>})
        /\ declared' = declared \cup {<<n, rows>>}
        /\ Mapped(n) /\ ~ScalarIsBad(n)
    BY <1>3 DEF GenScalar
  <2>2. IsMapped(<<n, rows>>)
    BY <2>1 DEF IsMapped, Mapped, ScalarIsBad
  <2> HIDE DEF n, rows
  <2>3. QED
    BY <1>1, <2>1, <2>2 DEF GettersKnown, GeneratedNames
<1>4. CASE GenTable
  <2>1. PICK t \in rest : /\ Mapped(t) /\ ~TableIsBad(t)
                          /\ getters' = getters \cup NewGetters(GettersOf(t))
                          /\ declared' = declared \cup GettersOf(t)
    BY <1>4 DEF GenTable
  <2>2. \A g \in GettersOf(t) : IsMapped(g)
    BY <2>1 DEF GettersOf, IsMapped, TableIsBad, Mapped
  <2>3. \A g, h \in GettersOf(t) : g[1] = h[1] => g = h
    BY DEF GettersOf
  <2>4. QED
    BY <1>1, <2>1, <2>2, <2>3 DEF GettersKnown, NewGetters, GeneratedNames
<1>5. QED
  BY <1>2, <1>3, <1>4, CodeStays
     DEF Generates, SkipScalar, GenPlugin, SkipTable, TablesDone, GenTrap, GenCustomFiles, TemplateDone,
         GenJsonFile, code

\* Code of an entry that is a scalar's or a column's has the OID of its clause.
LEMMA EmittedHasOwnOid ==
  ASSUME job \in Jobs, NEW e, IsOfClause(e), EntryType(e) # None, NEW what
  PROVE  /\ HasOwnOid(Emitted(what, e))
         /\ Emitted(what, e).in \in job.handed
         /\ Declares(Emitted(what, e).in, Emitted(what, e).name)
<1>1. e.clause.kind \in {"scalar", "column"}
  BY DEF EntryType
<1>2. /\ e.in \in job.handed /\ e.clause \in Clauses(e.in)
      /\ Sole(e.clause.parent) => e.oid = <<Scope(e.in, e.clause.parent), e.clause.parent>>
  BY <1>1 DEF IsOfClause
<1>3. ClauseOf(e.in, e.clause.name) = e.clause
  BY <1>2, ClauseByName
<1>4. /\ Emitted(what, e).in = e.in
      /\ Emitted(what, e).name = e.clause.name
      /\ Emitted(what, e).oid = e.oid
  BY DEF Emitted
<1>5. Declares(e.in, e.clause.name)
  BY <1>2, ClauseByName
<1>6. QED
  BY <1>2, <1>3, <1>4, <1>5 DEF HasOwnOid

\* What is generated of a scalar or a column.
IsField(x) ==
  \E e, what : /\ x = Emitted(what, e) /\ IsOfClause(e) /\ EntryType(e) # None
               /\ what = "column" \/ (what = "scalar" /\ NamesScalar(e.clause.name))

\* What is generated of an object of a trap.
IsTrapObject(x) ==
  /\ x.what = "object" /\ IsObject(x.in, x.name)
  /\ \E m : IsObject(m, x.name) /\ x.type = TypeOf(ClauseOf(m, x.name).syntax) /\ x.type \in TrapTypes

LEMMA Emits ==
  ASSUME Control, Entries, ScalarsOfMain, PluginKnown, EmittedKnown, [Next]_vars
  PROVE  /\ \A n \in DOMAIN objids' : IsObject(objids'[n], n)
         /\ \A x \in emitted' : x \in emitted \/ IsField(x) \/ IsTrapObject(x)
<1>1. CASE UNCHANGED <<emitted, objids>>
  BY <1>1 DEF EmittedKnown
<1>2. CASE GenScalar
  <2> DEFINE e == out[scalars[at]]
  <2>1. /\ emitted' = emitted \cup {Emitted("scalar", e)}
        /\ objids' = objids
        /\ Mapped(scalars[at]) /\ ~ScalarIsBad(scalars[at]) /\ at <= Len(scalars)
    BY <1>2 DEF GenScalar
  <2>2. at \in DOMAIN scalars
    <3>1. IsSequence(scalars)
      BY DEF ScalarsOfMain
    <3>2. DOMAIN scalars = 1 .. Len(scalars) /\ Len(scalars) \in Nat
      BY <3>1, Appended
    <3>3. QED
      BY <2>1, <3>2 DEF Control
  <2>3. IsOfClause(e) /\ EntryType(e) # None /\ e.clause.name = scalars[at]
    BY <2>1, <2>2 DEF ScalarsOfMain, Entries, ScalarIsBad
  <2>4. IsField(Emitted("scalar", e))
    <3>1. NamesScalar(e.clause.name)
      BY <2>2, <2>3 DEF ScalarsOfMain, NamesScalar
    <3> HIDE DEF e
    <3>2. QED
      BY <2>3, <3>1 DEF IsField
  <2> HIDE DEF e
  <2>5. QED
    BY <2>1, <2>4 DEF EmittedKnown
<1>3. CASE GenTable
  <2>1. PICK t \in rest : /\ Mapped(t) /\ ~TableIsBad(t)
                          /\ emitted' = emitted \cup {Emitted("column", e) : e \in Fields(t)}
    BY <1>3 DEF GenTable
  <2>2. objids' = objids
    BY <1>3 DEF GenTable
  <2>3. t \in DOMAIN tables => \A e \in Fields(t) : IsOfClause(e) /\ EntryType(e) # None
    <3> SUFFICES ASSUME t \in DOMAIN tables, NEW e \in Fields(t)
                 PROVE  IsOfClause(e) /\ EntryType(e) # None
      OBVIOUS
    <3>1. EntryType(e) # None
      BY <2>1 DEF TableIsBad
    <3>2. ~IndexesAreBad(t)
      BY <2>1 DEF TableIsBad
    <3>3. CASE e \in Indexes(t)
      <4>1. IsOfClause(e)
        BY <3>2, <3>3 DEF Indexes, IndexesAreBad, Entries
      <4>2. QED
        BY <3>1, <4>1
    <3>4. CASE e \in ColumnsOf(t)
      <4>1. tables[t] \in DOMAIN tableRows
        BY <3>2 DEF IndexesAreBad, Entries
      <4>2. PICK i \in DOMAIN tableRows[tables[t]].columns : e = tableRows[tables[t]].columns[i]
        BY <3>4 DEF ColumnsOf
      <4>3. IsOfClause(e)
        BY <4>1, <4>2 DEF Entries
      <4>4. QED
        BY <3>1, <4>3
    <3>5. QED
      BY <3>1, <3>3, <3>4 DEF Fields
  <2>4. t \in DOMAIN tables
    BY <1>3, <2>1 DEF GenTable, PluginKnown
  <2>5. \A e \in Fields(t) : IsField(Emitted("column", e))
    BY <2>3, <2>4 DEF IsField
  <2>6. QED
    BY <2>1, <2>2, <2>5 DEF EmittedKnown
<1>4. CASE GenTrap
  <2> DEFINE e == out[traps[at]]
             object(o) == [what |-> "object", name |-> o[2], in |-> objids'[o[2]], oid |-> <<e.in, traps[at]>>,
                           type |-> TypeOf(ClauseOf(o[1], o[2]).syntax)]
             Objects == {e.objects[i] : i \in DOMAIN e.objects}
  <2>1. /\ TrapStatus(traps[at]) = "done"
        /\ objids' = ObjidsWith(e.objects)
        /\ emitted' = emitted \cup {object(o) : o \in Objects}
    BY <1>4 DEF GenTrap
  <2>2. \A o \in Objects : IsObject(o[1], o[2])
    BY <2>1 DEF TrapStatus
  <2>3. \A n \in {o[2] : o \in Objects} :
          LET i == CHOOSE i \in DOMAIN e.objects : e.objects[i][2] = n
          IN  IsObject(e.objects[i][1], n)
    <3> SUFFICES ASSUME NEW n, \E i \in DOMAIN e.objects : e.objects[i][2] = n
                 PROVE  LET i == CHOOSE i \in DOMAIN e.objects : e.objects[i][2] = n
                        IN  IsObject(e.objects[i][1], n)
      OBVIOUS
    <3> DEFINE i == CHOOSE i \in DOMAIN e.objects : e.objects[i][2] = n
    <3>1. i \in DOMAIN e.objects /\ e.objects[i][2] = n
      OBVIOUS
    <3>2. e.objects[i] \in Objects
      BY <3>1
    <3>3. QED
      BY <2>2, <3>1, <3>2
  <2>4. /\ \A n \in DOMAIN objids' : IsObject(objids'[n], n)
        /\ \A o \in Objects : o[2] \in DOMAIN objids'
    <3> DEFINE Names == {e.objects[i][2] : i \in DOMAIN e.objects}
               new == [n \in Names |-> e.objects[CHOOSE i \in DOMAIN e.objects : e.objects[i][2] = n][1]]
    <3>1. objids' = Overwrite(new, objids)
      BY <2>1 DEF ObjidsWith
    <3>2. Names = {o[2] : o \in Objects}
      OBVIOUS
    <3>3. \A n \in DOMAIN new : IsObject(new[n], n)
      BY <2>3, <3>2
    <3>4. DOMAIN new = Names
      OBVIOUS
    <3> HIDE DEF new, Names
    <3>5. \A n \in DOMAIN objids' : IsObject(objids'[n], n)
      BY <3>1, <3>3 DEF Overwrite, EmittedKnown
    <3>6. \A o \in Objects : o[2] \in DOMAIN objids'
      BY <3>1, <3>2, <3>4 DEF Overwrite
    <3>7. QED
      BY <3>5, <3>6
  <2>5. \A o \in Objects : IsTrapObject(object(o))
    <3> SUFFICES ASSUME NEW o \in Objects PROVE IsTrapObject(object(o))
      OBVIOUS
    <3>1. object(o).what = "object" /\ object(o).name = o[2] /\ IsObject(object(o).in, o[2])
      BY <2>4
    <3>2. IsObject(o[1], o[2]) /\ object(o).type = TypeOf(ClauseOf(o[1], o[2]).syntax)
      BY <2>2
    <3>3. TypeOf(ClauseOf(o[1], o[2]).syntax) \in TrapTypes
      BY <2>1 DEF TrapStatus
    <3> HIDE DEF object, Objects
    <3>4. QED
      BY <3>1, <3>2, <3>3 DEF IsTrapObject
  <2> HIDE DEF object, Objects
  <2>6. QED
    BY <2>1, <2>4, <2>5 DEF EmittedKnown
<1>5. QED
  BY <1>1, <1>2, <1>3, <1>4, CodeStays
     DEF Generates, SkipScalar, GenPlugin, SkipTable, TablesDone, GenCustomFiles, TemplateDone,
         GenJsonFile, code

LEMMA EmittedStep ==
  ASSUME Control, Entries, ScalarsOfMain, PluginKnown, EmittedKnown, [Next]_vars
  PROVE  EmittedKnown'
<1>1. /\ job' = job
      /\ \A x : HasOwnOid(x)' <=> HasOwnOid(x)
      /\ \A x : IsScalarOfMain(x)' <=> IsScalarOfMain(x)
      /\ \A m, n : IsObject(m, n)' <=> IsObject(m, n)
  <2>1. job' = job
    BY JobStays
  <2>2. /\ \A x : HasOwnOid(x)' <=> HasOwnOid(x)
        /\ \A m, n : IsObject(m, n)' <=> IsObject(m, n)
    BY <2>1, SameJob DEF HasOwnOid
  <2>3. \A n : NamesScalar(n)' <=> NamesScalar(n)
    BY <2>1, SameJob DEF NamesScalar
  <2>4. \A m, n : Declares(m, n)' <=> Declares(m, n)
    BY <2>1, SameJob DEF Declares, Known
  <2>5. \A x : IsScalarOfMain(x)' <=> IsScalarOfMain(x)
    BY <2>1, <2>3, <2>4 DEF IsScalarOfMain
  <2>6. QED
    BY <2>1, <2>2, <2>5
<1>2. /\ \A n \in DOMAIN objids' : IsObject(objids'[n], n)
      /\ \A x \in emitted' : x \in emitted \/ IsField(x) \/ IsTrapObject(x)
  BY Emits
<1>3. \A x : IsField(x) => HasOwnOid(x) /\ IsScalarOfMain(x) /\ x.what # "object"
  BY EmittedHasOwnOid DEF IsField, IsScalarOfMain, Emitted, Control
<1>4. \A x : IsTrapObject(x) => HasOwnOid(x) /\ IsScalarOfMain(x) /\ IsObject(x.in, x.name)
  BY DEF IsTrapObject, HasOwnOid, IsScalarOfMain
<1>5. QED
  BY <1>1, <1>2, <1>3, <1>4 DEF EmittedKnown

LEMMA SendersStep ==
  ASSUME Control, TrapsOfAll, SendersKnown, [Next]_vars
  PROVE  SendersKnown'
<1>1. /\ job' = job
      /\ DOMAIN traps = 1 .. Len(traps) /\ Len(traps) \in Nat
  BY JobStays, Appended DEF TrapsOfAll
<1>2. CASE ~Generates
  <2>1. senders' = senders
    BY <1>2, CodeStays DEF code
  <2>2. CASE UNCHANGED vars
    BY <2>2 DEF SendersKnown, SentBy, vars, symbols, code
  <2>3. CASE ~UNCHANGED vars
    <3>1. pc' \in Dead \/ (pc \in Reading /\ pc' \in Reading \cup {"scalars", "json"})
      BY <1>2, <2>3, KindsOfSteps, VisitFrame
         DEF DeadEnd, GenImports, NextModule, AllModulesDone, ClausesDone, Reading
    <3>2. QED
      BY <2>1, <3>1 DEF SendersKnown, Reading, Dead
  <2>4. QED
    BY <2>2, <2>3
<1>3. CASE Generates
  <2>1. traps' = traps /\ out' = out
    BY <1>3, GenerateFrame DEF symbols
  <2>2. \A S : SentBy(S)' <=> /\ senders' = {<<k, traps[k], out[traps[k]].in>> : k \in S}
                              /\ \A k \in S : out[traps[k]].clause.kind = "notification"
    BY <2>1 DEF SentBy
  <2>3. CASE SkipScalar \/ GenScalar \/ GenPlugin \/ SkipTable \/ GenTable
    BY <2>3 DEF SkipScalar, GenScalar, GenPlugin, SkipTable, GenTable, SendersKnown, Dead, code
  <2>4. CASE TablesDone
    <3>1. senders' = {} /\ pc' = "traps" /\ at' = 1
      BY <2>4 DEF TablesDone, SendersKnown, Dead, code
    <3>2. {k \in DOMAIN traps' : k < at'} = {}
      BY <1>1, <2>1, <3>1
    <3>3. SentBy({})'
      BY <2>2, <3>1
    <3>4. QED
      BY <3>1, <3>2, <3>3 DEF SendersKnown, Dead
  <2>5. CASE GenTrap
    <3> DEFINE S == {k \in DOMAIN traps : k < at}
    <3>1. /\ pc = "traps" /\ pc' = "traps" /\ at' = at + 1
          /\ at <= Len(traps) /\ TrapStatus(traps[at]) = "done"
          /\ senders' = senders \cup {<<at, traps[at], out[traps[at]].in>>}
      BY <2>5 DEF GenTrap
    <3>2. out[traps[at]].clause.kind = "notification"
      BY <3>1 DEF TrapStatus
    <3>3. SentBy(S)
      BY <3>1 DEF SendersKnown
    <3>4. {k \in DOMAIN traps' : k < at'} = S \cup {at}
      BY <1>1, <2>1, <3>1 DEF Control
    <3> HIDE DEF S
    <3>5. /\ senders' = {<<k, traps[k], out[traps[k]].in>> : k \in S \cup {at}}
          /\ \A k \in S \cup {at} : out[traps[k]].clause.kind = "notification"
      BY <3>1, <3>2, <3>3 DEF SentBy
    <3>6. SentBy({k \in DOMAIN traps : k < at})'
      BY <2>1, <3>4, <3>5 DEF SentBy
    <3>7. QED
      BY <3>1, <3>6 DEF SendersKnown, Dead
  <2>6. CASE GenCustomFiles
    <3>1. pc = "traps" /\ pc' = "done" /\ at > Len(traps) /\ senders' = senders
      BY <2>6 DEF GenCustomFiles, code
    <3>2. {k \in DOMAIN traps : k < at} = DOMAIN traps
      BY <1>1, <3>1 DEF Control
    <3>3. QED
      BY <2>1, <3>1, <3>2 DEF SendersKnown, SentBy, Dead
  <2>7. CASE TemplateDone
    BY <1>1, <2>7 DEF TemplateDone, GenJsonFile, SendersKnown, Control, Dead
  <2>8. QED
    BY <1>3, <2>3, <2>4, <2>5, <2>6, <2>7 DEF Generates
<1>4. QED
  BY <1>2, <1>3

LEMMA Always == Spec => []IInv
<1>1. IInv /\ [Next]_vars => IInv'
  BY ControlStep, ImportsStep, EntriesStep, ScalarsStep, TrapsStep, PluginStep, GettersStep, EmittedStep,
     SendersStep DEF IInv, ScalarsOfMain
<1>2. QED
  BY InitIInv, <1>1, PTL DEF Spec

-----------------------------------------------------------------------------
(* The properties.                                                         *)

\* generate_plugin_c and addSymbolsFromImports (netsnmp.py): whatever MIBs are
\* visited after the main one, ops_snmp_init calls the init functions of all
\* its scalars and of no other's, and of the mapped tables of all; those without
\* a definition are the main MIB's scalars that the mapping file leaves out.
THEOREM ThePluginIsOfTheMainMib == Spec => []PluginIsOfMain
<1>1. ASSUME IInv PROVE PluginIsOfMain
  <2> SUFFICES ASSUME pc = "done", job.json = <<>>
               PROVE  /\ \A n \in calls : \/ n \in DOMAIN tables
                                          \/ \E c \in Clauses(job.main) : c.name = n /\ c.kind = "scalar"
                      /\ \A c \in Clauses(job.main) : c.kind = "scalar" => c.name \in calls
                      /\ defined \subseteq calls
                      /\ calls \ defined =
                           {c.name : c \in {c \in Clauses(job.main) : c.kind = "scalar" /\ ~Mapped(c.name)}}
    BY DEF PluginIsOfMain
  <2>1. calls = CallsOfPlugin /\ defined = MappedScalars \cup MappedTables
    BY <1>1 DEF IInv, PluginKnown
  <2>2. \A k \in DOMAIN scalars : \E c \in Clauses(job.main) : c.kind = "scalar" /\ c.name = scalars[k]
    BY <1>1 DEF IInv, ScalarsOfMain
  <2>3. \A c \in Clauses(job.main) : c.kind = "scalar" => \E k \in DOMAIN scalars : scalars[k] = c.name
    BY <1>1 DEF IInv, ScalarsOfMain, Visited, Clauses, Dead
  <2>4. \A n \in CallsOfPlugin : n \in DOMAIN tables \/ \E k \in DOMAIN scalars : scalars[k] = n
    BY DEF CallsOfPlugin, MappedTables
  <2>5. \A k \in DOMAIN scalars : scalars[k] \in CallsOfPlugin
    BY DEF CallsOfPlugin
  <2>6. \A n \in CallsOfPlugin : n \in MappedScalars \cup MappedTables <=> Mapped(n)
    BY DEF CallsOfPlugin, MappedScalars, MappedTables
  <2>7. MappedScalars \cup MappedTables \subseteq CallsOfPlugin
    BY DEF CallsOfPlugin, MappedScalars
  <2>8. \A n \in CallsOfPlugin : ~Mapped(n) => \E k \in DOMAIN scalars : scalars[k] = n
    BY DEF CallsOfPlugin, MappedTables
  <2>9. \A n : n \in calls \ defined <=>
                 \E c \in Clauses(job.main) : c.kind = "scalar" /\ ~Mapped(c.name) /\ c.name = n
    BY <2>1, <2>2, <2>3, <2>5, <2>6, <2>8
  <2>10. QED
    BY <2>1, <2>2, <2>3, <2>4, <2>5, <2>7, <2>9
<1>2. QED
  BY <1>1, Always, PTL

\* genCTableFiles and genCFile (netsnmp.py, generatedFunctions): however many
\* tables share a column, its function is defined once, and every declaration
\* is of that definition or the mapping file contradicts itself.
THEOREM EveryGetterLinks == Spec => []GettersLink
<1>1. ASSUME IInv PROVE GettersLink
  <2> SUFFICES ASSUME NEW d \in declared
               PROVE  /\ Cardinality({g \in getters : g[1] = d[1]}) = 1
                      /\ \/ d \in getters
                         \/ \E x, y \in DOMAIN job.mapping :
                              /\ d[1] \in DOMAIN job.mapping[x] \cap DOMAIN job.mapping[y]
                              /\ job.mapping[x][d[1]] # job.mapping[y][d[1]]
    BY DEF GettersLink
  <2>1. GettersKnown
    BY <1>1 DEF IInv
  <2>2. PICK g \in getters : g[1] = d[1]
    BY <2>1 DEF GettersKnown
  <2>3. {h \in getters : h[1] = d[1]} = {g}
    BY <2>1, <2>2 DEF GettersKnown
  <2>4. Cardinality({h \in getters : h[1] = d[1]}) = 1
    BY <2>3, FS_Singleton
  <2>5. IsMapped(g) /\ IsMapped(d)
    BY <2>1 DEF GettersKnown
  <2>6. PICK x \in DOMAIN job.mapping : g[1] \in DOMAIN job.mapping[x] /\ job.mapping[x][g[1]] = g[2]
    BY <2>5 DEF IsMapped
  <2>7. PICK y \in DOMAIN job.mapping : d[1] \in DOMAIN job.mapping[y] /\ job.mapping[y][d[1]] = d[2]
    BY <2>5 DEF IsMapped
  <2>8. d \in getters \/ g[2] # d[2]
    BY <2>2, <2>5 DEF IsMapped
  <2>9. QED
    BY <2>2, <2>4, <2>6, <2>7, <2>8
<1>2. QED
  BY <1>1, Always, PTL

\* genOid and genImports (netsnmp.py): importMap and _out are shared by all MIBs
\* and overwritten by each; yet the OID that code is generated with is the one
\* the MIB of its entry gives it, if only one MIB has the name of its parent.
\* Code for a scalar has the name of a scalar of the main MIB, and its entry is
\* of the main MIB, if no other declares the name: then the OID may be the
\* other's, though code is generated for the main one.
THEOREM OidsAreTheMibsOwn == Spec => []OidsAsDeclared
<1>1. IInv => OidsAsDeclared
  BY DEF IInv, EmittedKnown, HasOwnOid, IsScalarOfMain, NamesScalar, OidsAsDeclared
<1>2. QED
  BY <1>1, Always, PTL

\* genNotificationType and genNotificationFile (netsnmp.py): when generation has
\* ended every notification whose name is used once has one sender, its own, and an
\* object whose name is used once is sent with the OID its MIB gives it. Excepted
\* are names that two MIBs use, where the notification visited last takes the
\* place of the other, and objects which another MIB imports and the MIB of the
\* notification does not, which are looked up where the other has them from.
THEOREM EveryTrapIsSentOnce == Spec => []TrapsCarryTheirObjects
<1>1. ASSUME IInv PROVE TrapsCarryTheirObjects
  <2>1. job \in Jobs
    BY <1>1 DEF IInv, Control
  <2>2. ASSUME NEW e \in emitted, e.what = "object", Sole(e.name), Declares(Scope(e.oid[1], e.name), e.name)
        PROVE  e.in = Scope(e.oid[1], e.name)
    <3>1. Declares(e.in, e.name)
      BY <1>1, <2>2 DEF IInv, EmittedKnown, IsObject
    <3>2. e.in \in Users(e.name) /\ Scope(e.oid[1], e.name) \in Users(e.name)
      BY <2>2, <3>1 DEF Users, Declares
    <3>3. QED
      BY <2>1, <2>2, <3>2, SoleUser
  <2>3. ASSUME pc = "done", job.json = <<>>, NEW m \in job.handed, NEW c \in Clauses(m),
               c.kind = "notification", Sole(c.name)
        PROVE  /\ Cardinality({s \in senders : s[2] = c.name}) = 1
               /\ \E s \in senders : s[2] = c.name /\ s[3] = m
    <3>1. TrapsOfAll /\ Entries /\ SentBy(DOMAIN traps)
      BY <1>1, <2>3 DEF IInv, SendersKnown
    <3>2. PICK i \in DOMAIN job.text[m] : c = job.text[m][i]
      BY DEF Clauses
    <3>3. Visited(m, i) /\ pc \notin Dead
      BY <2>3 DEF Visited, Dead
    <3>4. PICK k \in DOMAIN traps : traps[k] = c.name
      BY <2>3, <3>1, <3>2, <3>3 DEF TrapsOfAll
    <3>5. \A l \in DOMAIN traps : traps[l] = c.name => l = k
      BY <2>3, <3>1, <3>4 DEF TrapsOfAll
    <3> DEFINE n == c.name
               s == <<k, n, out[n].in>>
    <3>6. {r \in senders : r[2] = n} = {s}
      BY <3>1, <3>4, <3>5 DEF SentBy
    <3>7. Cardinality({r \in senders : r[2] = n}) = 1
      BY <3>6, FS_Singleton
    <3>8. s \in senders
      BY <3>1, <3>4 DEF SentBy
    <3>9. n \in DOMAIN out /\ out[n].clause.kind = "notification"
      BY <3>1, <3>4 DEF TrapsOfAll, SentBy
    <3>10. out[n].in \in job.handed /\ out[n].clause \in Clauses(out[n].in) /\ out[n].clause.name = n
      BY <3>1, <3>9 DEF Entries, IsOfClause
    <3>11. out[n].in \in Users(n)
      BY <2>1, <3>10, ClauseByName DEF Users
    <3>12. m \in Users(n)
      BY <2>1, <2>3, ClauseByName DEF Users
    <3>13. out[n].in = m
      BY <2>1, <2>3, <3>11, <3>12, SoleUser
    <3>14. QED
      BY <3>7, <3>8, <3>13
  <2>4. QED
    BY <2>2, <2>3 DEF TrapsCarryTheirObjects
<1>2. QED
  BY <1>1, Always, PTL

-----------------------------------------------------------------------------
(* Induction over the natural numbers, and walks.                          *)

\* The order of the natural numbers.
Less == {ss \in Nat \X Nat : ss[1] < ss[2]}

\* A set of numbers that has a number has a least one.
LEMMA LeastNumber ==
  ASSUME NEW T, T \subseteq Nat, T # {}
  PROVE  \E x \in T : \A y \in T : x <= y
<1>1. IsWellFoundedOn(Less, Nat)
  BY NatLessThanWellFounded, Zenon DEF OpToRel, Less
<1>2. PICK x \in T : \A y \in T : ~(<<y, x>> \in Less)
  BY <1>1, WFMin
<1>3. ASSUME NEW y \in T, y < x PROVE FALSE
  <2>1. <<y, x>> \in Less
    BY <1>3 DEF Less
  <2>2. QED
    BY <1>2, <2>1
<1>4. QED
  BY <1>3

\* What holds of 0, and of the next number with each, holds of all.
LEMMA Induction ==
  ASSUME NEW S, 0 \in S, \A n \in Nat : n \in S => n + 1 \in S
  PROVE  Nat \subseteq S
<1> DEFINE T == {n \in Nat : n \notin S}
<1>1. SUFFICES ASSUME T # {} PROVE FALSE
  OBVIOUS
<1>2. PICK x \in T : \A y \in T : x <= y
  BY <1>1, LeastNumber
<1>3. x \in Nat \ {0} /\ x - 1 \in Nat
  OBVIOUS
<1>4. x - 1 \in T
  BY <1>3
<1>5. QED
  BY <1>2, <1>3, <1>4

\* p follows F from x, d steps far.
Follows(F, x, d, p) == p = [k \in 0 .. d |-> IF k = 0 THEN x ELSE F[p[k - 1]]]

\* F can be followed any number of steps.
LEMMA FollowsExists ==
  ASSUME NEW F, NEW x
  PROVE  \A d \in Nat : \E p : Follows(F, x, d, p)
<1> DEFINE S == {n \in Nat : \E p : Follows(F, x, n, p)}
<1>1. 0 \in S
  <2> DEFINE p == [k \in 0 .. 0 |-> x]
  <2>1. Follows(F, x, 0, p)
    BY DEF Follows
  <2>2. QED
    BY <2>1
<1>2. ASSUME NEW n \in Nat, n \in S PROVE n + 1 \in S
  <2>1. PICK p : Follows(F, x, n, p)
    BY <1>2
  <2> DEFINE q == [k \in 0 .. n + 1 |-> IF k = 0 THEN x ELSE F[p[k - 1]]]
  <2>2. \A k \in 0 .. n : q[k] = p[k]
    BY <2>1 DEF Follows
  <2>3. \A k \in 0 .. n + 1 : k # 0 => q[k - 1] = p[k - 1]
    BY <2>2
  <2>4. q = [k \in 0 .. n + 1 |-> IF k = 0 THEN x ELSE F[q[k - 1]]]
    BY <2>3
  <2>5. Follows(F, x, n + 1, q)
    BY <2>4 DEF Follows
  <2>6. QED
    BY <2>5
<1> HIDE DEF S
<1>3. Nat \subseteq S
  BY <1>1, <1>2, Induction
<1>4. QED
  BY <1>3 DEF S

\* p goes d steps with F, from x.
Walks(F, x, d, p) == p[0] = x /\ \A k \in 1 .. d : p[k] = F[p[k - 1]]

\* It stays where F stays.
LEMMA Walk ==
  ASSUME NEW S, NEW F \in [S -> S], NEW x \in S, NEW d \in Nat
  PROVE  \E p \in [0 .. d -> S] : Walks(F, x, d, p)
<1>1. PICK p : Follows(F, x, d, p)
  BY FollowsExists
<1>2. /\ DOMAIN p = 0 .. d /\ p = [k \in 0 .. d |-> p[k]]
      /\ \A k \in 0 .. d : p[k] = IF k = 0 THEN x ELSE F[p[k - 1]]
  BY <1>1 DEF Follows
<1> DEFINE T == {k \in Nat : k \in 0 .. d => p[k] \in S}
<1>3. Nat \subseteq T
  <2>1. 0 \in T
    BY <1>2
  <2>2. ASSUME NEW n \in Nat, n \in T PROVE n + 1 \in T
    <3>1. SUFFICES ASSUME n + 1 \in 0 .. d PROVE p[n + 1] \in S
      OBVIOUS
    <3>2. n \in 0 .. d /\ p[n] \in S
      BY <2>2, <3>1
    <3>3. p[n + 1] = F[p[n]]
      <4>1. n + 1 # 0 /\ (n + 1) - 1 = n
        OBVIOUS
      <4>2. p[n + 1] = F[p[(n + 1) - 1]]
        BY <1>2, <3>1, <4>1
      <4>3. QED
        BY <4>1, <4>2
    <3>4. QED
      BY <3>2, <3>3
  <2> HIDE DEF T
  <2>3. QED
    BY <2>1, <2>2, Induction
<1>4. \A k \in 0 .. d : p[k] \in S
  BY <1>3
<1>5. p \in [0 .. d -> S]
  BY <1>2, <1>4
<1>6. 0 \in 0 .. d /\ \A k \in 1 .. d : k \in 0 .. d /\ k # 0
  OBVIOUS
<1>7. Walks(F, x, d, p)
  BY <1>2, <1>6 DEF Walks
<1>8. QED
  BY <1>5, <1>7

\* Two that start alike, and go on alike as long as they are alike, are alike.
GoAlike(d, f, g) == f[0] = g[0] /\ \A k \in 1 .. d : f[k - 1] = g[k - 1] => f[k] = g[k]

\* Two functions that agree at 0 and from each number to the next are alike.
LEMMA SameSteps ==
  ASSUME NEW d \in Nat, NEW f, NEW g, GoAlike(d, f, g)
  PROVE  \A k \in 0 .. d : f[k] = g[k]
<1> DEFINE A == {k \in Nat : k \in 0 .. d => f[k] = g[k]}
<1>1. 0 \in A
  BY DEF GoAlike
<1>2. ASSUME NEW n \in Nat, n \in A PROVE n + 1 \in A
  <2>1. SUFFICES ASSUME n + 1 \in 0 .. d PROVE f[n + 1] = g[n + 1]
    OBVIOUS
  <2>2. n + 1 \in 1 .. d /\ (n + 1) - 1 = n /\ f[n] = g[n]
    BY <1>2, <2>1
  <2>3. f[(n + 1) - 1] = g[(n + 1) - 1] => f[n + 1] = g[n + 1]
    BY <2>2 DEF GoAlike
  <2>4. QED
    BY <2>2, <2>3
<1> HIDE DEF A
<1>3. Nat \subseteq A
  BY <1>1, <1>2, Induction
<1>4. QED
  BY <1>3 DEF A

\* What Trail is of the declarations of types, one after the other.
DeclarationsMet(ends, x, met) ==
  met = [k \in 0 .. Depth |-> IF k = 0 THEN {x} ELSE {Declaration(ends, y) : y \in met[k - 1]}]

DeclarationTrail(ends, x) == LET Step(y) == Declaration(ends, y) IN Trail(Step, x)

\* p goes from declaration to declaration.
DeclarationWalk(ends, x, p) ==
  /\ DOMAIN p = 0 .. Depth /\ p[0] = x
  /\ \A k \in 1 .. Depth : p[k] = Declaration(ends, p[k - 1])

\* A trail of declarations meets one type at each step.
LEMMA WalkOfDeclarations ==
  ASSUME job \in Jobs, NEW ends, NEW x
  PROVE  \E p : /\ DeclarationWalk(ends, x, p)
                /\ \A k \in 0 .. Depth : DeclarationTrail(ends, x)[k] = {p[k]}
<1>1. Depth \in Nat
  BY TypesAssumption
<1>2. PICK S : x \in S /\ \A y \in S : Declaration(ends, y) \in S
  <2> DEFINE S == {x} \cup UNION {{<<m, c.syntax>> : c \in Clauses(m)} : m \in Known}
  <2>1. SUFFICES ASSUME NEW y \in S, Declaration(ends, y) # y PROVE Declaration(ends, y) \in S
    OBVIOUS
  <2> DEFINE there == Scope(y[1], y[2])
  <2>2. IsType(there, y[2]) /\ Declaration(ends, y) = <<there, ClauseOf(there, y[2]).syntax>>
    BY <2>1 DEF Declaration
  <2>3. there \in Known /\ ClauseOf(there, y[2]) \in Clauses(there)
    BY <2>2 DEF IsType, Declares, ClauseOf
  <2>4. QED
    BY <2>2, <2>3
<1>3. PICK F \in [S -> S] : \A y \in S : F[y] = Declaration(ends, y)
  <2>1. [y \in S |-> Declaration(ends, y)] \in [S -> S]
    BY <1>2
  <2>2. QED
    BY <2>1
<1>4. PICK p \in [0 .. Depth -> S] : Walks(F, x, Depth, p)
  BY <1>1, <1>2, Walk
<1>5. DeclarationWalk(ends, x, p)
  <2>1. \A k \in 1 .. Depth : k - 1 \in 0 .. Depth
    BY <1>1
  <2>2. \A k \in 1 .. Depth : p[k] = Declaration(ends, p[k - 1])
    BY <1>3, <1>4, <2>1 DEF Walks
  <2>3. QED
    BY <1>4, <2>2 DEF DeclarationWalk, Walks
<1> DEFINE met == [k \in 0 .. Depth |-> {p[k]}]
<1>6. DeclarationsMet(ends, x, met)
  <2>1. ASSUME NEW k \in 0 .. Depth, k # 0 PROVE met[k] = {Declaration(ends, y) : y \in met[k - 1]}
    <3>1. k \in 1 .. Depth /\ k - 1 \in 0 .. Depth
      BY <1>1, <2>1
    <3>2. met[k - 1] = {p[k - 1]} /\ met[k] = {p[k]}
      BY <3>1
    <3>3. p[k] = Declaration(ends, p[k - 1])
      BY <1>5, <3>1 DEF DeclarationWalk
    <3>4. QED
      BY <3>2, <3>3
  <2>2. 0 \in 0 .. Depth /\ met[0] = {x}
    BY <1>1, <1>5 DEF DeclarationWalk
  <2> DEFINE Next1(f, k) == IF k = 0 THEN {x} ELSE {Declaration(ends, y) : y \in f[k - 1]}
  <2>3. \A k \in 0 .. Depth : met[k] = Next1(met, k)
    BY <2>1, <2>2
  <2>4. met = [k \in 0 .. Depth |-> Next1(met, k)]
    <3> HIDE DEF Next1
    <3>1. QED
      BY <2>3
  <2>5. QED
    BY <2>4, Zenon DEF DeclarationsMet
<1> DEFINE T == DeclarationTrail(ends, x)
<1>7. DeclarationsMet(ends, x, T)
  BY <1>6, Zenon DEF DeclarationTrail, Trail, DeclarationsMet
<1>8. GoAlike(Depth, T, met)
  <2> DEFINE Next1(f, k) == IF k = 0 THEN {x} ELSE {Declaration(ends, y) : y \in f[k - 1]}
  <2> HIDE DEF T, met
  <2>1. T = [k \in 0 .. Depth |-> Next1(T, k)] /\ met = [k \in 0 .. Depth |-> Next1(met, k)]
    BY <1>6, <1>7, Zenon DEF DeclarationsMet
  <2>2. \A k \in 0 .. Depth : T[k] = Next1(T, k) /\ met[k] = Next1(met, k)
    <3> HIDE DEF Next1
    <3>1. QED
      BY <2>1, Zenon
  <2>3. 0 \in 0 .. Depth /\ \A k \in 1 .. Depth : k \in 0 .. Depth /\ k # 0
    BY <1>1
  <2>4. QED
    BY <2>2, <2>3, Zenon DEF GoAlike
<1>9. \A k \in 0 .. Depth : T[k] = met[k]
  <2> HIDE DEF T, met
  <2>1. QED
    BY <1>1, <1>8, SameSteps
<1>10. QED
  <2>1. \A k \in 0 .. Depth : T[k] = {p[k]}
    BY <1>9
  <2> HIDE DEF T
  <2>2. QED
    BY <1>5, <2>1 DEF T

-----------------------------------------------------------------------------
(* Chains of types.                                                        *)

\* What is met on the way to a C type, and where it ends.
LEMMA ChainIsWalk ==
  ASSUME job \in Jobs, NEW m, NEW t
  PROVE  \E p : /\ DeclarationWalk(CTypes, <<m, t>>, p)
                /\ Chain(m, t) = {p[k] : k \in 0 .. Depth}
                /\ Lexical(CTypes, m, t) = IF p[Depth][2] \in CTypes THEN p[Depth][2] ELSE None
<1> DEFINE x == <<m, t>>
           T == DeclarationTrail(CTypes, x)
<1>1. PICK p : DeclarationWalk(CTypes, x, p) /\ \A k \in 0 .. Depth : T[k] = {p[k]}
  BY WalkOfDeclarations
<1>2. Chain(m, t) = UNION {T[k] : k \in 0 .. Depth}
  BY Zenon DEF Chain, DeclarationTrail
<1>3. (CHOOSE y \in T[Depth] : TRUE) = p[Depth]
  <2>1. Depth \in 0 .. Depth
    BY TypesAssumption
  <2>2. T[Depth] = {p[Depth]}
    BY <1>1, <2>1
  <2> HIDE DEF T
  <2>3. QED
    BY <2>2
<1>4. Lexical(CTypes, m, t) =
        LET end == CHOOSE y \in T[Depth] : TRUE IN IF end[2] \in CTypes THEN end[2] ELSE None
  BY Zenon DEF Lexical, LastOf, DeclarationTrail
<1>5. Lexical(CTypes, m, t) = IF p[Depth][2] \in CTypes THEN p[Depth][2] ELSE None
  <2> HIDE DEF T
  <2>1. QED
    BY <1>3, <1>4
<1>6. Chain(m, t) = {p[k] : k \in 0 .. Depth}
  <2> HIDE DEF T
  <2>1. QED
    BY <1>1, <1>2
<1>7. QED
  BY <1>1, <1>5, <1>6

\* A chain that comes back to a type it was at has met all it will meet.
LEMMA ComesBack ==
  ASSUME NEW x, NEW p, DeclarationWalk(CTypes, x, p), NEW j \in 0 .. Depth, Depth \in Nat,
         Declaration(CTypes, p[j]) \in {p[k] : k \in 0 .. j}
  PROVE  \A k \in 0 .. Depth : Declaration(CTypes, p[k]) \in {p[l] : l \in 0 .. Depth}
<1> DEFINE W == {p[k] : k \in 0 .. j}
<1>1. ASSUME NEW y \in W PROVE Declaration(CTypes, y) \in W
  <2>1. PICK k \in 0 .. j : y = p[k]
    OBVIOUS
  <2>2. CASE k = j
    BY <2>1, <2>2
  <2>3. CASE k # j
    <3>1. k + 1 \in 1 .. Depth /\ k + 1 \in 0 .. j /\ (k + 1) - 1 = k
      BY <2>3
    <3>2. p[k + 1] = Declaration(CTypes, p[(k + 1) - 1])
      BY <3>1 DEF DeclarationWalk
    <3>3. p[k + 1] = Declaration(CTypes, y)
      BY <2>1, <3>1, <3>2
    <3>4. QED
      BY <3>1, <3>3
  <2>4. QED
    BY <2>2, <2>3
<1> DEFINE A == {n \in Nat : n \in 0 .. Depth => p[n] \in W}
<1>2. Nat \subseteq A
  <2>1. 0 \in A
    <3>1. 0 \in 0 .. j
      OBVIOUS
    <3>2. QED
      BY <3>1
  <2>2. ASSUME NEW n \in Nat, n \in A PROVE n + 1 \in A
    <3>1. SUFFICES ASSUME n + 1 \in 0 .. Depth PROVE p[n + 1] \in W
      OBVIOUS
    <3>2. n + 1 \in 1 .. Depth /\ n \in 0 .. Depth /\ (n + 1) - 1 = n
      BY <3>1
    <3>3. p[n + 1] = Declaration(CTypes, p[(n + 1) - 1])
      BY <3>2 DEF DeclarationWalk
    <3>4. p[n] \in W
      BY <2>2, <3>2
    <3> HIDE DEF W
    <3>5. QED
      BY <1>1, <3>2, <3>3, <3>4
  <2> HIDE DEF A
  <2>3. QED
    BY <2>1, <2>2, Induction
<1>3. W \subseteq {p[l] : l \in 0 .. Depth}
  OBVIOUS
<1>4. ASSUME NEW k \in 0 .. Depth PROVE Declaration(CTypes, p[k]) \in W
  <2>1. p[k] \in W
    BY <1>2
  <2> HIDE DEF W
  <2>2. QED
    BY <1>1, <2>1
<1> HIDE DEF W
<1>5. QED
  BY <1>3, <1>4

\* The types of the MIBs in the symbol table.
Types == UNION {{<<m, c>> : c \in {c \in Clauses(m) : c.kind = "type"}} : m \in Known}

\* Where x goes on: the type it means.
TypeMeant(x) == <<Scope(x[1], x[2]), ClauseOf(Scope(x[1], x[2]), x[2])>>

\* Chains end, or go round: there are not more types than Depth.
LEMMA ChainIsClosed ==
  ASSUME job \in Jobs, NEW m, NEW t, NEW x \in Chain(m, t)
  PROVE  Declaration(CTypes, x) \in Chain(m, t)
<1>1. PICK p : DeclarationWalk(CTypes, <<m, t>>, p) /\ Chain(m, t) = {p[k] : k \in 0 .. Depth}
  BY ChainIsWalk
<1>2. Depth \in Nat /\ IsFiniteSet(Types) /\ Cardinality(Types) <= Depth
  BY TypesAssumption DEF Types, Known, Clauses
<1>3. \E j \in 0 .. Depth : Declaration(CTypes, p[j]) \in {p[k] : k \in 0 .. j}
  <2>1. SUFFICES ASSUME \A j \in 0 .. Depth : Declaration(CTypes, p[j]) \notin {p[k] : k \in 0 .. j}
                 PROVE  FALSE
    OBVIOUS
  <2>2. ASSUME NEW j \in 0 .. Depth
        PROVE  /\ TypeMeant(p[j]) \in Types
               /\ Declaration(CTypes, p[j]) = <<TypeMeant(p[j])[1], TypeMeant(p[j])[2].syntax>>
    <3>1. Declaration(CTypes, p[j]) # p[j]
      BY <2>1
    <3>2. /\ IsType(TypeMeant(p[j])[1], p[j][2])
          /\ Declaration(CTypes, p[j]) = <<TypeMeant(p[j])[1], TypeMeant(p[j])[2].syntax>>
      BY <3>1 DEF Declaration, TypeMeant
    <3>3. TypeMeant(p[j])[1] \in Known /\ TypeMeant(p[j])[2] \in {c \in Clauses(TypeMeant(p[j])[1]) : c.kind = "type"}
      BY <3>2 DEF IsType, Declares, ClauseOf, TypeMeant
    <3>4. TypeMeant(p[j]) = <<TypeMeant(p[j])[1], TypeMeant(p[j])[2]>>
      BY DEF TypeMeant
    <3>5. QED
      BY <3>2, <3>3, <3>4 DEF Types
  <2> DEFINE f == [j \in 0 .. Depth |-> TypeMeant(p[j])]
  <2>3. f \in [0 .. Depth -> Types]
    BY <2>2
  <2>4. IsFiniteSet(0 .. Depth) /\ Cardinality(0 .. Depth) = Depth + 1
    BY <1>2, FS_Interval
  <2>5. Cardinality(Types) < Cardinality(0 .. Depth)
    BY <1>2, <2>4, FS_CardinalityType
  <2>6. PICK a \in 0 .. Depth, b \in 0 .. Depth : a # b /\ f[a] = f[b]
    <3> HIDE DEF f
    <3>1. QED
      BY <1>2, <2>3, <2>4, <2>5, FS_PigeonHole
  <2>7. ASSUME NEW i \in 0 .. Depth, NEW j \in 0 .. Depth, i < j, f[i] = f[j] PROVE FALSE
    <3>1. Declaration(CTypes, p[i]) = Declaration(CTypes, p[j])
      BY <2>2, <2>7
    <3>2. i + 1 \in 1 .. Depth /\ i + 1 \in 0 .. j /\ (i + 1) - 1 = i
      BY <1>2, <2>7
    <3>3. p[i + 1] = Declaration(CTypes, p[(i + 1) - 1])
      BY <1>1, <3>2 DEF DeclarationWalk
    <3>4. Declaration(CTypes, p[j]) = p[i + 1]
      BY <3>1, <3>2, <3>3
    <3>5. QED
      BY <2>1, <3>2, <3>4
  <2>8. a < b \/ b < a
    BY <1>2, <2>6
  <2> HIDE DEF f
  <2>9. QED
    BY <2>6, <2>7, <2>8
<1>4. \A k \in 0 .. Depth : Declaration(CTypes, p[k]) \in {p[l] : l \in 0 .. Depth}
  BY <1>1, <1>2, <1>3, ComesBack
<1>5. QED
  BY <1>1, <1>4

\* Where nothing is declared the chain stays.
LEMMA ChainStays ==
  ASSUME job \in Jobs, NEW x, NEW p, DeclarationWalk(CTypes, x, p), NEW j \in 0 .. Depth,
         Declaration(CTypes, p[j]) = p[j]
  PROVE  p[Depth] = p[j]
<1>1. Depth \in Nat
  BY TypesAssumption
<1> DEFINE A == {n \in Nat : j + n \in 0 .. Depth => p[j + n] = p[j]}
<1>2. Nat \subseteq A
  <2>1. 0 \in A
    OBVIOUS
  <2>2. ASSUME NEW n \in Nat, n \in A PROVE n + 1 \in A
    <3>1. SUFFICES ASSUME j + (n + 1) \in 0 .. Depth PROVE p[j + (n + 1)] = p[j]
      OBVIOUS
    <3>2. j + (n + 1) \in 1 .. Depth /\ j + n \in 0 .. Depth /\ (j + (n + 1)) - 1 = j + n
      BY <1>1, <3>1
    <3>3. p[j + (n + 1)] = Declaration(CTypes, p[(j + (n + 1)) - 1])
      BY <3>2 DEF DeclarationWalk
    <3>4. p[j + n] = p[j]
      BY <2>2, <3>2
    <3>5. QED
      BY <3>2, <3>3, <3>4
  <2> HIDE DEF A
  <2>3. QED
    BY <2>1, <2>2, Induction
<1>3. Depth - j \in Nat /\ j + (Depth - j) = Depth /\ Depth \in 0 .. Depth
  BY <1>1
<1>4. Depth - j \in A
  BY <1>2, <1>3
<1>5. QED
  BY <1>3, <1>4

\* A chain that meets a C type ends there.
LEMMA ChainEndsAtCType ==
  ASSUME job \in Jobs, NEW m, NEW t, NEW x \in Chain(m, t), x[2] \in CTypes
  PROVE  Lexical(CTypes, m, t) = x[2]
<1>1. PICK p : /\ DeclarationWalk(CTypes, <<m, t>>, p) /\ Chain(m, t) = {p[k] : k \in 0 .. Depth}
               /\ Lexical(CTypes, m, t) = IF p[Depth][2] \in CTypes THEN p[Depth][2] ELSE None
  BY ChainIsWalk
<1>2. PICK k \in 0 .. Depth : x = p[k]
  BY <1>1
<1>3. Declaration(CTypes, p[k]) = p[k]
  BY <1>2 DEF Declaration
<1>4. p[Depth] = x
  BY <1>1, <1>2, <1>3, ChainStays
<1>5. QED
  BY <1>1, <1>4

\* p goes from type to type up to a C type.
Leads(p) ==
  /\ p[Depth][2] \in CTypes
  /\ \A k \in 0 .. Depth : p[k][2] \notin CTypes =>
       LET there == Scope(p[k][1], p[k][2])
       IN  /\ k + 1 \in 0 .. Depth
           /\ IsType(there, p[k][2])
           /\ p[k + 1] = <<there, ClauseOf(there, p[k][2]).syntax>>

\* A chain that has a C type is a walk from type to type that ends there.
LEMMA ChainLeads ==
  ASSUME job \in Jobs, NEW m, NEW t, Lexical(CTypes, m, t) # None
  PROVE  \E p : /\ DeclarationWalk(CTypes, <<m, t>>, p) /\ Chain(m, t) = {p[k] : k \in 0 .. Depth}
                /\ Leads(p)
<1>1. PICK p : /\ DeclarationWalk(CTypes, <<m, t>>, p) /\ Chain(m, t) = {p[k] : k \in 0 .. Depth}
               /\ Lexical(CTypes, m, t) = IF p[Depth][2] \in CTypes THEN p[Depth][2] ELSE None
  BY ChainIsWalk
<1>2. Depth \in Nat
  BY TypesAssumption
<1>3. p[Depth][2] \in CTypes
  BY <1>1
<1>4. ASSUME NEW k \in 0 .. Depth, p[k][2] \notin CTypes
      PROVE  LET there == Scope(p[k][1], p[k][2])
             IN  /\ k + 1 \in 0 .. Depth
                 /\ IsType(there, p[k][2])
                 /\ p[k + 1] = <<there, ClauseOf(there, p[k][2]).syntax>>
  <2>1. k # Depth
    BY <1>3, <1>4
  <2>2. k + 1 \in 1 .. Depth /\ k + 1 \in 0 .. Depth /\ (k + 1) - 1 = k
    BY <1>2, <2>1
  <2>3. p[k + 1] = Declaration(CTypes, p[(k + 1) - 1])
    BY <1>1, <2>2 DEF DeclarationWalk
  <2>4. p[k + 1] = Declaration(CTypes, p[k])
    BY <2>2, <2>3
  <2>5. IsType(Scope(p[k][1], p[k][2]), p[k][2])
    <3>1. SUFFICES ASSUME ~IsType(Scope(p[k][1], p[k][2]), p[k][2]) PROVE FALSE
      OBVIOUS
    <3>2. Declaration(CTypes, p[k]) = p[k]
      BY <3>1 DEF Declaration
    <3>3. p[Depth] = p[k]
      BY <1>1, <3>2, ChainStays
    <3>4. QED
      BY <1>3, <1>4, <3>3
  <2>6. QED
    BY <1>4, <2>2, <2>4, <2>5 DEF Declaration
<1>5. Leads(p)
  BY <1>3, <1>4 DEF Leads
<1>6. QED
  BY <1>1, <1>5

\* The first module of the dict that has a name is there, if one has it.
LEMMA FirstWithDeclares ==
  ASSUME job \in Jobs, NEW n, NEW m, Declares(m, n)
  PROVE  Declares(FirstWith(n), n)
<1>1. DOMAIN job.known = 1 .. Len(job.known) /\ Len(job.known) \in Nat
  BY TypesAssumption
<1> DEFINE T == {i \in DOMAIN job.known : Declares(job.known[i], n)}
<1>2. T # {} /\ T \subseteq Nat
  BY <1>1 DEF Declares, Known
<1>3. PICK i \in T : \A j \in T : i <= j
  <2> HIDE DEF T
  <2>1. QED
    BY <1>2, LeastNumber
<1>4. \A j \in 1 .. i - 1 : ~Declares(job.known[j], n)
  BY <1>1, <1>3
<1>5. \E k \in DOMAIN job.known : /\ Declares(job.known[k], n)
                                  /\ \A j \in 1 .. k - 1 : ~Declares(job.known[j], n)
  BY <1>3, <1>4
<1>6. QED
  BY <1>5, Zenon DEF FirstWith

TypedKinds == {"type", "scalar", "column"}

\* x is the syntax of a clause, in its module.
IsSyntax(x) == \E m \in Known : \E c \in Clauses(m) : c.kind \in TypedKinds /\ x = <<m, c.syntax>>

\* The names of a chain.
ChainNames(m, t) == {x[2] : x \in Chain(m, t)}

\* From a syntax the chain meets syntaxes only.
LEMMA ChainOfSyntaxes ==
  ASSUME job \in Jobs, NEW m, NEW t, IsSyntax(<<m, t>>)
  PROVE  \A x \in Chain(m, t) : IsSyntax(x)
<1>1. PICK p : DeclarationWalk(CTypes, <<m, t>>, p) /\ Chain(m, t) = {p[k] : k \in 0 .. Depth}
  BY ChainIsWalk
<1> DEFINE A == {n \in Nat : n \in 0 .. Depth => IsSyntax(p[n])}
<1>2. Depth \in Nat
  BY TypesAssumption
<1>3. Nat \subseteq A
  <2>1. 0 \in A
    BY <1>1 DEF DeclarationWalk
  <2>2. ASSUME NEW n \in Nat, n \in A PROVE n + 1 \in A
    <3>1. SUFFICES ASSUME n + 1 \in 0 .. Depth PROVE IsSyntax(p[n + 1])
      OBVIOUS
    <3>2. n + 1 \in 1 .. Depth /\ n \in 0 .. Depth /\ (n + 1) - 1 = n
      BY <1>2, <3>1
    <3>3. p[n + 1] = Declaration(CTypes, p[(n + 1) - 1])
      BY <1>1, <3>2 DEF DeclarationWalk
    <3>4. p[n + 1] = Declaration(CTypes, p[n]) /\ IsSyntax(p[n])
      BY <2>2, <3>2, <3>3
    <3> DEFINE there == Scope(p[n][1], p[n][2])
    <3>5. CASE Declaration(CTypes, p[n]) = p[n]
      BY <3>4, <3>5
    <3>6. CASE Declaration(CTypes, p[n]) # p[n]
      <4>1. IsType(there, p[n][2]) /\ p[n + 1] = <<there, ClauseOf(there, p[n][2]).syntax>>
        BY <3>4, <3>6 DEF Declaration
      <4>2. there \in Known /\ ClauseOf(there, p[n][2]) \in Clauses(there) /\ ClauseOf(there, p[n][2]).kind = "type"
        BY <4>1 DEF IsType, Declares, ClauseOf
      <4>3. QED
        BY <4>1, <4>2 DEF IsSyntax, TypedKinds
    <3>7. QED
      BY <3>5, <3>6
  <2> HIDE DEF A
  <2>3. QED
    BY <2>1, <2>2, Induction
<1>4. QED
  BY <1>1, <1>3

\* What the symbol table has made sure of.
LEMMA NamesAreResolved ==
  ASSUME job \in Jobs
  PROVE  /\ \A k \in Known : None \notin DOMAIN job.imports[k]
         /\ \A k \in Known : \A d \in Clauses(k) :
              /\ d.name # None
              /\ d.kind \in TypedKinds =>
                   /\ d.syntax \in CTypes \cup DOMAIN job.imports[k] \/ \E e \in Clauses(k) : e.name = d.syntax
                   /\ \A h \in Known : \A e \in Clauses(h) :
                        e.name = d.syntax => e.kind = "type" \/ e.syntax = None
BY TypesAssumption, Zenon DEF Known, Clauses, TypedKinds

\* What a syntax can be.
LEMMA SyntaxIsResolved ==
  ASSUME job \in Jobs, NEW x, IsSyntax(x)
  PROVE  /\ x[1] \in Known /\ x[2] # None
         /\ x[2] \in CTypes \/ x[2] \in DOMAIN job.imports[x[1]] \/ Declares(x[1], x[2])
         /\ \A h : Declares(h, x[2]) => ClauseOf(h, x[2]).kind = "type" \/ ClauseOf(h, x[2]).syntax = None
<1>1. PICK m \in Known : \E c \in Clauses(m) : c.kind \in TypedKinds /\ x = <<m, c.syntax>>
  BY DEF IsSyntax
<1>2. PICK c \in Clauses(m) : c.kind \in TypedKinds /\ x = <<m, c.syntax>>
  BY <1>1
<1>3. /\ \A k \in Known : None \notin DOMAIN job.imports[k]
      /\ \A k \in Known : \A d \in Clauses(k) :
           /\ d.name # None
           /\ d.kind \in TypedKinds =>
                /\ d.syntax \in CTypes \cup DOMAIN job.imports[k] \/ \E e \in Clauses(k) : e.name = d.syntax
                /\ \A h \in Known : \A e \in Clauses(h) :
                     e.name = d.syntax => e.kind = "type" \/ e.syntax = None
  BY NamesAreResolved
<1>4. /\ c.syntax \in CTypes \cup DOMAIN job.imports[m] \/ \E d \in Clauses(m) : d.name = c.syntax
      /\ \A h \in Known : \A d \in Clauses(h) : d.name = c.syntax => d.kind = "type" \/ d.syntax = None
      /\ None \notin DOMAIN job.imports[m]
      /\ \A d \in Clauses(m) : d.name # None
  BY <1>2, <1>3
<1>5. c.syntax # None
  BY <1>4, NetSnmpCodeGenAssumption
<1>6. ASSUME NEW h, Declares(h, x[2])
      PROVE  ClauseOf(h, x[2]).kind = "type" \/ ClauseOf(h, x[2]).syntax = None
  <2>1. h \in Known /\ ClauseOf(h, x[2]) \in Clauses(h) /\ ClauseOf(h, x[2]).name = x[2]
    BY <1>6 DEF Declares, ClauseOf
  <2>2. QED
    BY <1>2, <1>4, <2>1
<1>7. QED
  BY <1>2, <1>4, <1>5, <1>6 DEF Declares

\* Where a chain is the only user of its names, whoever declares a name on it
\* declares what the chain means by it.
LEMMA ChainMeans ==
  ASSUME job \in Jobs, NEW m, NEW t, IsSyntax(<<m, t>>), SoleChain(m, t),
         NEW x \in Chain(m, t), x[2] \notin CTypes, NEW h, Declares(h, x[2])
  PROVE  /\ Scope(x[1], x[2]) = h
         /\ ClauseOf(h, x[2]).syntax \in ChainNames(m, t) \cup {None}
         /\ IsType(h, x[2]) => ClauseOf(h, x[2]).syntax \in ChainNames(m, t)
<1>1. IsSyntax(x)
  BY ChainOfSyntaxes
<1>2. Sole(x[2])
  BY DEF SoleChain
<1>3. h \in Users(x[2])
  BY DEF Users, Declares
<1>4. Scope(x[1], x[2]) \in Users(x[2])
  BY <1>1, SyntaxIsResolved DEF Users, Scope
<1>5. Scope(x[1], x[2]) = h
  BY <1>2, <1>3, <1>4, SoleUser
<1>6. ASSUME IsType(h, x[2]) PROVE ClauseOf(h, x[2]).syntax \in ChainNames(m, t)
  <2>1. Declaration(CTypes, x) = <<h, ClauseOf(h, x[2]).syntax>>
    BY <1>5, <1>6 DEF Declaration
  <2>2. <<h, ClauseOf(h, x[2]).syntax>> \in Chain(m, t)
    BY <2>1, ChainIsClosed
  <2>3. QED
    BY <2>2 DEF ChainNames
<1>7. ClauseOf(h, x[2]).kind = "type" \/ ClauseOf(h, x[2]).syntax = None
  BY <1>1, SyntaxIsResolved
<1>8. QED
  BY <1>5, <1>6, <1>7 DEF IsType

-----------------------------------------------------------------------------
(* Where the searches by name come to.                                     *)

\* What Trail is of the search by name alone, across all MIBs.
SyntaxesMet(x, met) ==
  met = [k \in 0 .. Depth |-> IF k = 0 THEN {x} ELSE {SyntaxByName(y) : y \in met[k - 1]}]

SyntaxWalk(x, p) == p[0] = x /\ \A k \in 1 .. Depth : p[k] = SyntaxByName(p[k - 1])

\* Where the loop of getBaseTypeFromSymbolTable ends is the end of a walk.
LEMMA LastSyntaxWalk ==
  ASSUME NEW S, NEW x \in S, \A y \in S : SyntaxByName(y) \in S
  PROVE  \E p \in [0 .. Depth -> S] : SyntaxWalk(x, p) /\ LastOf(SyntaxByName, x) = p[Depth]
<1>1. Depth \in Nat
  BY TypesAssumption
<1>2. PICK F \in [S -> S] : \A y \in S : F[y] = SyntaxByName(y)
  <2>1. [y \in S |-> SyntaxByName(y)] \in [S -> S]
    OBVIOUS
  <2>2. QED
    BY <2>1
<1>3. PICK p \in [0 .. Depth -> S] : Walks(F, x, Depth, p)
  BY <1>1, Walk
<1> DEFINE Next1(f, k) == IF k = 0 THEN {x} ELSE {SyntaxByName(y) : y \in f[k - 1]}
           met == [k \in 0 .. Depth |-> {p[k]}]
           T == Trail(SyntaxByName, x)
<1>4. \A k \in 0 .. Depth : met[k] = Next1(met, k)
  <2>1. ASSUME NEW k \in 0 .. Depth, k # 0 PROVE met[k] = {SyntaxByName(y) : y \in met[k - 1]}
    <3>1. k \in 1 .. Depth /\ k - 1 \in 0 .. Depth
      BY <1>1, <2>1
    <3>2. met[k - 1] = {p[k - 1]} /\ met[k] = {p[k]} /\ p[k - 1] \in S
      BY <3>1
    <3>3. p[k] = SyntaxByName(p[k - 1])
      BY <1>2, <1>3, <3>1, <3>2 DEF Walks
    <3>4. QED
      BY <3>2, <3>3
  <2>2. 0 \in 0 .. Depth /\ met[0] = {x}
    BY <1>1, <1>3 DEF Walks
  <2>3. QED
    BY <2>1, <2>2
<1>5. SyntaxesMet(x, met)
  <2>1. met = [k \in 0 .. Depth |-> Next1(met, k)]
    <3> HIDE DEF Next1
    <3>1. QED
      BY <1>4
  <2>2. QED
    BY <2>1, Zenon DEF SyntaxesMet
<1>6. SyntaxesMet(x, T)
  BY <1>5, Zenon DEF Trail, SyntaxesMet
<1> HIDE DEF T
<1>7. GoAlike(Depth, T, met)
  <2> HIDE DEF met
  <2>1. T = [k \in 0 .. Depth |-> Next1(T, k)]
    BY <1>6, Zenon DEF SyntaxesMet
  <2>2. \A k \in 0 .. Depth : T[k] = Next1(T, k)
    <3> HIDE DEF Next1
    <3>1. QED
      BY <2>1, Zenon
  <2>3. 0 \in 0 .. Depth /\ \A k \in 1 .. Depth : k \in 0 .. Depth /\ k # 0
    BY <1>1
  <2>4. QED
    BY <1>4, <2>2, <2>3, Zenon DEF GoAlike
<1>8. T[Depth] = {p[Depth]}
  <2>1. \A k \in 0 .. Depth : T[k] = met[k]
    <3> HIDE DEF met
    <3>1. QED
      BY <1>1, <1>7, SameSteps
  <2>2. Depth \in 0 .. Depth
    BY <1>1
  <2>3. QED
    BY <2>1, <2>2
<1>9. LastOf(SyntaxByName, x) = CHOOSE y \in T[Depth] : TRUE
  BY Zenon DEF LastOf, T
<1>10. SyntaxWalk(x, p)
  <2>1. \A k \in 1 .. Depth : k - 1 \in 0 .. Depth
    BY <1>1
  <2>2. p[0] = x /\ \A k \in 1 .. Depth : p[k] = F[p[k - 1]]
    BY <1>3 DEF Walks
  <2>3. QED
    BY <1>2, <2>1, <2>2 DEF SyntaxWalk
<1>11. QED
  BY <1>8, <1>9, <1>10

\* It ends within every set that it does not leave.
LEMMA LastSyntaxStays ==
  ASSUME NEW S, NEW x \in S, \A y \in S : SyntaxByName(y) \in S
  PROVE  LastOf(SyntaxByName, x) \in S
<1>1. PICK p \in [0 .. Depth -> S] : LastOf(SyntaxByName, x) = p[Depth]
  BY LastSyntaxWalk
<1>2. Depth \in 0 .. Depth
  BY TypesAssumption
<1>3. QED
  BY <1>1, <1>2

\* The step of TypeOf.
NextType(n) == IF n \in CTypes \cup {None} THEN n ELSE TypeStep(n)

\* What Trail is of getObjTypeString calling itself.
TypesMet(x, met) ==
  met = [k \in 0 .. Depth |-> IF k = 0 THEN {x} ELSE {NextType(y) : y \in met[k - 1]}]

TypeWalk(x, p) == p[0] = x /\ \A k \in 1 .. Depth : p[k] = NextType(p[k - 1])

\* Where getObjTypeString's calls end is the end of a walk.
LEMMA LastTypeWalk ==
  ASSUME NEW S, NEW x \in S, \A y \in S : NextType(y) \in S
  PROVE  \E p \in [0 .. Depth -> S] : TypeWalk(x, p) /\ LastOf(NextType, x) = p[Depth]
<1>1. Depth \in Nat
  BY TypesAssumption
<1>2. PICK F \in [S -> S] : \A y \in S : F[y] = NextType(y)
  <2>1. [y \in S |-> NextType(y)] \in [S -> S]
    OBVIOUS
  <2>2. QED
    BY <2>1
<1>3. PICK p \in [0 .. Depth -> S] : Walks(F, x, Depth, p)
  BY <1>1, Walk
<1> DEFINE Next1(f, k) == IF k = 0 THEN {x} ELSE {NextType(y) : y \in f[k - 1]}
           met == [k \in 0 .. Depth |-> {p[k]}]
           T == Trail(NextType, x)
<1>4. \A k \in 0 .. Depth : met[k] = Next1(met, k)
  <2>1. ASSUME NEW k \in 0 .. Depth, k # 0 PROVE met[k] = {NextType(y) : y \in met[k - 1]}
    <3>1. k \in 1 .. Depth /\ k - 1 \in 0 .. Depth
      BY <1>1, <2>1
    <3>2. met[k - 1] = {p[k - 1]} /\ met[k] = {p[k]} /\ p[k - 1] \in S
      BY <3>1
    <3>3. p[k] = NextType(p[k - 1])
      BY <1>2, <1>3, <3>1, <3>2 DEF Walks
    <3>4. QED
      BY <3>2, <3>3
  <2>2. 0 \in 0 .. Depth /\ met[0] = {x}
    BY <1>1, <1>3 DEF Walks
  <2>3. QED
    BY <2>1, <2>2
<1>5. TypesMet(x, met)
  <2>1. met = [k \in 0 .. Depth |-> Next1(met, k)]
    <3> HIDE DEF Next1
    <3>1. QED
      BY <1>4
  <2>2. QED
    BY <2>1, Zenon DEF TypesMet
<1>6. TypesMet(x, T)
  BY <1>5, Zenon DEF Trail, TypesMet
<1> HIDE DEF T
<1>7. GoAlike(Depth, T, met)
  <2> HIDE DEF met
  <2>1. T = [k \in 0 .. Depth |-> Next1(T, k)]
    BY <1>6, Zenon DEF TypesMet
  <2>2. \A k \in 0 .. Depth : T[k] = Next1(T, k)
    <3> HIDE DEF Next1
    <3>1. QED
      BY <2>1, Zenon
  <2>3. 0 \in 0 .. Depth /\ \A k \in 1 .. Depth : k \in 0 .. Depth /\ k # 0
    BY <1>1
  <2>4. QED
    BY <1>4, <2>2, <2>3, Zenon DEF GoAlike
<1>8. T[Depth] = {p[Depth]}
  <2>1. \A k \in 0 .. Depth : T[k] = met[k]
    <3> HIDE DEF met
    <3>1. QED
      BY <1>1, <1>7, SameSteps
  <2>2. Depth \in 0 .. Depth
    BY <1>1
  <2>3. QED
    BY <2>1, <2>2
<1>9. LastOf(NextType, x) = CHOOSE y \in T[Depth] : TRUE
  BY Zenon DEF LastOf, T
<1>10. TypeWalk(x, p)
  <2>1. \A k \in 1 .. Depth : k - 1 \in 0 .. Depth
    BY <1>1
  <2>2. p[0] = x /\ \A k \in 1 .. Depth : p[k] = F[p[k - 1]]
    BY <1>3 DEF Walks
  <2>3. QED
    BY <1>2, <2>1, <2>2 DEF TypeWalk
<1>11. QED
  BY <1>8, <1>9, <1>10

\* It ends within every set that it does not leave.
LEMMA LastTypeStays ==
  ASSUME NEW S, NEW x \in S, \A y \in S : NextType(y) \in S
  PROVE  LastOf(NextType, x) \in S
<1>1. PICK p \in [0 .. Depth -> S] : LastOf(NextType, x) = p[Depth]
  BY LastTypeWalk
<1>2. Depth \in 0 .. Depth
  BY TypesAssumption
<1>3. QED
  BY <1>1, <1>2

\* What declarations lead to is a matter of the job, which does not change.
LEMMA SameTrails ==
  ASSUME job' = job, NEW ends
  PROVE  /\ \A x : DeclarationTrail(ends, x)' = DeclarationTrail(ends, x)
         /\ \A m, t : Lexical(ends, m, t)' = Lexical(ends, m, t)
<1>1. Known' = Known
  BY DEF Known
<1>2. \A m, n : IsType(m, n)' <=> IsType(m, n)
  BY <1>1, SameJob DEF IsType, Declares
<1>3. \A y : Declaration(ends, y)' = Declaration(ends, y)
  BY <1>2, SameJob DEF Declaration
<1>4. ASSUME NEW x PROVE DeclarationTrail(ends, x)' = DeclarationTrail(ends, x)
  <2>1. \A met : DeclarationsMet(ends, x, met)' <=> DeclarationsMet(ends, x, met)
    <3> SUFFICES ASSUME NEW met PROVE DeclarationsMet(ends, x, met)' <=> DeclarationsMet(ends, x, met)
      OBVIOUS
    <3>1. \A S : {Declaration(ends, y)' : y \in S} = {Declaration(ends, y) : y \in S}
      BY <1>3
    <3> DEFINE Next1(k) == IF k = 0 THEN {x} ELSE {Declaration(ends, y) : y \in met[k - 1]}
               Next2(k) == IF k = 0 THEN {x} ELSE {Declaration(ends, y)' : y \in met[k - 1]}
    <3>2. \A k : Next1(k) = Next2(k)
      BY <3>1, Zenon
    <3>3. DeclarationsMet(ends, x, met) <=> met = [k \in 0 .. Depth |-> Next1(k)]
      BY Zenon DEF DeclarationsMet
    <3>4. DeclarationsMet(ends, x, met)' <=> met = [k \in 0 .. Depth |-> Next2(k)]
      BY Zenon DEF DeclarationsMet
    <3>5. [k \in 0 .. Depth |-> Next1(k)] = [k \in 0 .. Depth |-> Next2(k)]
      <4> HIDE DEF Next1, Next2
      <4>1. QED
        BY <3>2
    <3> HIDE DEF Next1, Next2
    <3>6. QED
      BY <3>3, <3>4, <3>5
  <2>2. DeclarationTrail(ends, x) = CHOOSE met : DeclarationsMet(ends, x, met)
    BY Zenon DEF DeclarationTrail, Trail, DeclarationsMet
  <2>3. DeclarationTrail(ends, x)' = CHOOSE met : DeclarationsMet(ends, x, met)'
    BY Zenon DEF DeclarationTrail, Trail, DeclarationsMet
  <2>4. QED
    BY <2>1, <2>2, <2>3
<1>5. ASSUME NEW m, NEW t PROVE Lexical(ends, m, t)' = Lexical(ends, m, t)
  <2> DEFINE T == DeclarationTrail(ends, <<m, t>>)
  <2>1. Lexical(ends, m, t) =
        LET end == CHOOSE y \in T[Depth] : TRUE IN IF end[2] \in ends THEN end[2] ELSE None
    BY Zenon DEF Lexical, LastOf, DeclarationTrail
  <2>2. Lexical(ends, m, t)' =
        LET end == CHOOSE y \in T'[Depth] : TRUE IN IF end[2] \in ends THEN end[2] ELSE None
    BY Zenon DEF Trail, Lexical, LastOf, DeclarationTrail
  <2>3. T' = T
    BY <1>4
  <2> HIDE DEF T
  <2>4. QED
    BY <2>1, <2>2, <2>3
<1>6. QED
  BY <1>4, <1>5

\* Chains are those of the job, which does not change.
LEMMA SameChains ==
  ASSUME job' = job
  PROVE  /\ \A m, t : Chain(m, t)' = Chain(m, t)
         /\ \A m, t : Lexical(CTypes, m, t)' = Lexical(CTypes, m, t)
         /\ \A m, t : SoleChain(m, t)' <=> SoleChain(m, t)
<1>1. \A m, t : Chain(m, t)' = Chain(m, t)
  <2> SUFFICES ASSUME NEW m, NEW t PROVE Chain(m, t)' = Chain(m, t)
    OBVIOUS
  <2>1. Chain(m, t) = UNION {DeclarationTrail(CTypes, <<m, t>>)[k] : k \in 0 .. Depth}
    BY Zenon DEF Chain, DeclarationTrail
  <2>2. Chain(m, t)' = UNION {DeclarationTrail(CTypes, <<m, t>>)'[k] : k \in 0 .. Depth}
    BY Zenon DEF Trail, Chain, DeclarationTrail
  <2>3. DeclarationTrail(CTypes, <<m, t>>)' = DeclarationTrail(CTypes, <<m, t>>)
    BY SameTrails
  <2>4. QED
    BY <2>1, <2>2, <2>3
<1>2. \A m, t : Lexical(CTypes, m, t)' = Lexical(CTypes, m, t)
  BY SameTrails
<1>3. \A m, t : SoleChain(m, t)' <=> SoleChain(m, t)
  BY <1>1, SameJob DEF SoleChain
<1>4. QED
  BY <1>1, <1>2, <1>3

-----------------------------------------------------------------------------
(* Types are the MIB's own.                                                *)

\* What customTypes has for a name is on every chain that has the name, if the
\* chain is the only user of its names: whichever MIB it was kept of.
KeepsToChains(n, v) ==
  /\ n \notin CTypes
  /\ \A m \in Known : \A c \in Clauses(m) :
       c.kind \in TypedKinds /\ SoleChain(m, c.syntax) /\ n \in ChainNames(m, c.syntax)
         => v \in ChainNames(m, c.syntax)

CustomTypesKnown == \A n \in DOMAIN customTypes : KeepsToChains(n, customTypes[n])

\* The search by name alone does not leave the chain, if it finds a C type.
LEMMA BaseTypeIsOnChain ==
  ASSUME job \in Jobs, NEW m, NEW t, IsSyntax(<<m, t>>), SoleChain(m, t),
         NEW n \in ChainNames(m, t), n \notin CTypes, NEW g, IsType(g, n), BaseType(g, n) \in CTypes
  PROVE  BaseType(g, n) \in ChainNames(m, t)
<1> DEFINE S == ChainNames(m, t) \cup {None}
           s == ClauseOf(g, n).syntax
<1>1. PICK x \in Chain(m, t) : n = x[2]
  BY DEF ChainNames
<1>2. s \in ChainNames(m, t)
  <2>1. Declares(g, x[2]) /\ IsType(g, x[2])
    BY <1>1 DEF IsType
  <2>2. QED
    BY <1>1, <2>1, ChainMeans
<1>3. \A y \in S : SyntaxByName(y) \in S
  <2> SUFFICES ASSUME NEW y \in ChainNames(m, t), SyntaxByName(y) # y PROVE SyntaxByName(y) \in S
    BY DEF SyntaxByName
  <2>1. /\ y \notin CTypes /\ \E k \in Known : Declares(k, y)
        /\ SyntaxByName(y) = ClauseOf(FirstWith(y), y).syntax
    BY DEF SyntaxByName
  <2>2. Declares(FirstWith(y), y)
    BY <2>1, FirstWithDeclares
  <2>3. PICK z \in Chain(m, t) : y = z[2]
    BY DEF ChainNames
  <2>4. ClauseOf(FirstWith(y), y).syntax \in S
    BY <2>1, <2>2, <2>3, ChainMeans
  <2>5. QED
    BY <2>1, <2>4
<1>4. LastOf(SyntaxByName, s) \in S
  <2>1. s \in S
    BY <1>2
  <2> HIDE DEF S, s
  <2>2. QED
    BY <1>3, <2>1, LastSyntaxStays
<1>5. QED
  <2>1. BaseType(g, n) = LET end == LastOf(SyntaxByName, s)
                         IN  IF end \in CTypes THEN end ELSE IF end = None THEN "crash" ELSE "loop"
    BY Zenon DEF BaseType
  <2>2. QED
    BY <1>4, <2>1, TypesAssumption, NetSnmpCodeGenAssumption

\* Nor does what was declared last under the name.
LEMMA DeclaredIsOnChain ==
  ASSUME job \in Jobs, Entries, NEW m, NEW t, IsSyntax(<<m, t>>), SoleChain(m, t),
         NEW n \in ChainNames(m, t), n \notin CTypes, n \in DOMAIN out, out[n].clause.kind = "type"
  PROVE  out[n].clause.syntax \in ChainNames(m, t)
<1> DEFINE h == out[n].in
<1>1. PICK x \in Chain(m, t) : n = x[2]
  BY DEF ChainNames
<1>2. h \in job.handed /\ out[n].clause \in Clauses(h) /\ out[n].clause.name = n
  BY DEF Entries, IsOfClause
<1>3. Declares(h, n) /\ ClauseOf(h, n) = out[n].clause
  BY <1>2, ClauseByName
<1>4. IsType(h, n)
  BY <1>3 DEF IsType
<1>5. QED
  BY <1>1, <1>3, <1>4, ChainMeans

\* One call of getObjTypeString does not leave the chain.
LEMMA TypeStepStays ==
  ASSUME job \in Jobs, Entries, CustomTypesKnown, NEW m \in Known, NEW c \in Clauses(m),
         c.kind \in TypedKinds, SoleChain(m, c.syntax), NEW n \in ChainNames(m, c.syntax)
  PROVE  TypeStep(n) \in ChainNames(m, c.syntax) \cup {None}
<1> DEFINE N == ChainNames(m, c.syntax)
           custom == IF n \in DOMAIN customTypes THEN customTypes[n] ELSE n
           last(k) == IF k \notin CTypes /\ k \in DOMAIN out /\ out[k].clause.kind = "type"
                        THEN out[k].clause.syntax ELSE k
           named == last(custom)
<1>1. custom \in N
  BY DEF CustomTypesKnown, KeepsToChains
<1>2. \A k \in N : k \notin CTypes /\ k \in DOMAIN out /\ out[k].clause.kind = "type"
                   => out[k].clause.syntax \in N
  <2>1. IsSyntax(<<m, c.syntax>>)
    BY DEF IsSyntax
  <2>2. QED
    BY <2>1, DeclaredIsOnChain
<1>3. named \in N
  <2> HIDE DEF N, custom
  <2>1. QED
    BY <1>1, <1>2
<1>4. TypeStep(n) = IF named \in CTypes THEN named
                    ELSE IF named \in DOMAIN out /\ out[named].clause.kind = "type" THEN out[named].clause.syntax
                    ELSE None
  BY DEF TypeStep
<1> HIDE DEF N, named
<1>5. TypeStep(n) \in N \cup {None}
  BY <1>2, <1>3, <1>4
<1>6. QED
  BY <1>5 DEF N

\* getObjTypeString, which goes by names across all MIBs, comes to the type that
\* the text of the MIB means, if it comes to one at all.
LEMMA TypeOfIsLexical ==
  ASSUME job \in Jobs, Entries, CustomTypesKnown, NEW m \in Known, NEW c \in Clauses(m),
         c.kind \in TypedKinds, SoleChain(m, c.syntax), TypeOf(c.syntax) # None
  PROVE  TypeOf(c.syntax) = Lexical(CTypes, m, c.syntax)
<1> DEFINE t == c.syntax
           S == ChainNames(m, t) \cup {None}
<1>1. t \in ChainNames(m, t)
  <2>1. PICK p : DeclarationWalk(CTypes, <<m, t>>, p) /\ Chain(m, t) = {p[k] : k \in 0 .. Depth}
    BY ChainIsWalk
  <2>2. 0 \in 0 .. Depth
    BY TypesAssumption
  <2>3. <<m, t>> \in Chain(m, t)
    BY <2>1, <2>2 DEF DeclarationWalk
  <2>4. QED
    BY <2>3 DEF ChainNames
<1>2. \A y \in ChainNames(m, t) : TypeStep(y) \in S
  BY TypeStepStays
<1>3. \A y \in S : NextType(y) \in S
  <2> HIDE DEF S
  <2>1. S = ChainNames(m, t) \cup {None}
    BY DEF S
  <2>2. QED
    BY <1>2, <2>1 DEF NextType
<1>4. LastOf(NextType, TypeStep(t)) \in S
  <2>1. TypeStep(t) \in S
    BY <1>1, <1>2
  <2> HIDE DEF S, t
  <2>2. QED
    BY <1>3, <2>1, LastTypeStays
<1>5. TypeOf(t) = LET end == LastOf(NextType, TypeStep(t)) IN IF end \in CTypes THEN end ELSE None
  BY Zenon DEF TypeOf, NextType, LastOf, Trail
<1>6. TypeOf(t) \in ChainNames(m, t) /\ TypeOf(t) \in CTypes
  <2> HIDE DEF t
  <2>1. TypeOf(t) # None
    BY DEF t
  <2>2. QED
    BY <1>4, <1>5, <2>1, NetSnmpCodeGenAssumption
<1>7. PICK x \in Chain(m, t) : TypeOf(t) = x[2]
  BY <1>6 DEF ChainNames
<1>8. QED
  BY <1>6, <1>7, ChainEndsAtCType

\* customTypes is added to by imports and type declarations: what they add is on
\* the chains that have the name.
LEMMA CustomTypesStep ==
  ASSUME Control, ImportsKnown, CustomTypesKnown, [Next]_vars
  PROVE  CustomTypesKnown'
<1>1. job' = job /\ job \in Jobs /\ module \in job.handed /\ module \in Known
  BY JobStays, NetSnmpCodeGenAssumption DEF Control, Known
<1>2. \A n, v : KeepsToChains(n, v)' <=> KeepsToChains(n, v)
  <2> SUFFICES ASSUME NEW n, NEW v PROVE KeepsToChains(n, v)' <=> KeepsToChains(n, v)
    OBVIOUS
  <2>1. Known' = Known
    BY <1>1 DEF Known
  <2>2. \A m, t : ChainNames(m, t)' = ChainNames(m, t)
    BY <1>1, SameChains DEF ChainNames
  <2>3. QED
    BY <1>1, <2>1, <2>2, SameChains, SameJob DEF KeepsToChains
<1>5. CASE customTypes' = customTypes
  <2>1. QED
    BY <1>2, <1>5 DEF CustomTypesKnown
<1>6. CASE GenImports
  <2> DEFINE found == [t \in ImportedTypes(module) \ CTypes |-> BaseType(job.imports[module][t], t)]
  <2>1. customTypes' = Overwrite(customTypes, found) /\ BaseTypesOf(module) \subseteq CTypes
    BY <1>6 DEF GenImports
  <2>2. ASSUME NEW n \in DOMAIN found PROVE KeepsToChains(n, found[n])
    <3> DEFINE g == job.imports[module][n]
    <3>1. n \notin CTypes /\ n \in ImportedTypes(module) /\ found[n] = BaseType(g, n)
      OBVIOUS
    <3>2. IsType(g, n) /\ BaseType(g, n) \in CTypes
      BY <2>1, <3>1 DEF ImportedTypes, BaseTypesOf
    <3>3. ASSUME NEW m \in Known, NEW c \in Clauses(m), c.kind \in TypedKinds, SoleChain(m, c.syntax),
                 n \in ChainNames(m, c.syntax)
          PROVE  found[n] \in ChainNames(m, c.syntax)
      <4>1. IsSyntax(<<m, c.syntax>>)
        BY <3>3 DEF IsSyntax
      <4>2. QED
        BY <1>1, <3>1, <3>2, <3>3, <4>1, BaseTypeIsOnChain
    <3>4. QED
      BY <3>1, <3>3 DEF KeepsToChains
  <2> HIDE DEF found
  <2>3. QED
    BY <1>2, <2>1, <2>2 DEF Overwrite, CustomTypesKnown
<1>7. CASE GenTypeDeclaration
  <2>1. customTypes' = Put(customTypes, Here.name, Here.syntax) /\ Here.kind = "type"
    BY <1>7 DEF GenTypeDeclaration, Visit, Here
  <2>2. Here \in Clauses(module)
    <3>1. Visits
      BY <1>7 DEF Visits
    <3>2. pc = "clauses" /\ at <= Len(job.text[module])
      BY <3>1, VisitFrame
    <3>3. QED
      BY <3>2, EntryIsOfClause
  <2>3. ClauseOf(module, Here.name) = Here /\ IsType(module, Here.name)
    BY <1>1, <2>1, <2>2, ClauseByName DEF IsType
  <2>4. Here.name \notin CTypes
    BY <1>1, <2>2, NetSnmpCodeGenAssumption DEF Clauses
  <2>5. KeepsToChains(Here.name, Here.syntax)
    <3>1. ASSUME NEW m \in Known, NEW c \in Clauses(m), c.kind \in TypedKinds, SoleChain(m, c.syntax),
                 Here.name \in ChainNames(m, c.syntax)
          PROVE  Here.syntax \in ChainNames(m, c.syntax)
      <4>1. IsSyntax(<<m, c.syntax>>)
        BY <3>1 DEF IsSyntax
      <4>2. PICK x \in Chain(m, c.syntax) : Here.name = x[2]
        BY <3>1 DEF ChainNames
      <4>3. Declares(module, Here.name)
        BY <2>3 DEF IsType
      <4>4. QED
        BY <1>1, <2>3, <2>4, <3>1, <4>1, <4>2, <4>3, ChainMeans
    <3>2. QED
      BY <2>4, <3>1 DEF KeepsToChains
  <2>6. QED
    BY <1>2, <2>1, <2>5 DEF Put, CustomTypesKnown
<1>8. QED
  <2>1. GenImports \/ GenTypeDeclaration \/ customTypes' = customTypes
    BY KindsOfSteps, GenerateFrame
       DEF Visits, Visit, GenNode, GenScalarCode, GenTableCode, GenTableRowCode, GenTableColumnCode,
           GenNotificationType, DeadEnd, NextModule, AllModulesDone, symbols, vars
  <2>2. QED
    BY <1>5, <1>6, <1>7, <2>1

\* What TypesAsDeclared says of one emitted object.
HasOwnType(e) ==
  LET c == ClauseOf(e.in, e.name)
  IN  SoleChain(e.in, c.syntax) /\ (e.what = "object" => Sole(e.name)) => e.type = Lexical(CTypes, e.in, c.syntax)

\* Of scalars and columns, and of the objects of traps.
LEMMA FieldHasOwnType ==
  ASSUME job \in Jobs, Entries, CustomTypesKnown, NEW x, IsField(x)
  PROVE  HasOwnType(x)
<1>1. PICK e, what : x = Emitted(what, e) /\ what \in {"scalar", "column"} /\ IsOfClause(e) /\ EntryType(e) # None
  BY DEF IsField
<1>2. e.clause.kind \in {"scalar", "column"} /\ EntryType(e) = TypeOf(e.clause.syntax)
  BY <1>1 DEF EntryType
<1>3. e.in \in job.handed /\ e.clause \in Clauses(e.in)
  BY <1>1, <1>2 DEF IsOfClause
<1>4. e.in \in Known /\ ClauseOf(e.in, e.clause.name) = e.clause
  BY <1>3, ClauseByName
<1>5. x.in = e.in /\ x.name = e.clause.name /\ x.type = EntryType(e)
  BY <1>1 DEF Emitted
<1>6. SoleChain(e.in, e.clause.syntax) => TypeOf(e.clause.syntax) = Lexical(CTypes, e.in, e.clause.syntax)
  BY <1>1, <1>2, <1>3, <1>4, TypeOfIsLexical DEF TypedKinds
<1>7. QED
  BY <1>2, <1>4, <1>5, <1>6 DEF HasOwnType

\* So has what is generated of an object of a trap.
LEMMA TrapObjectHasOwnType ==
  ASSUME job \in Jobs, Entries, CustomTypesKnown, NEW x, IsTrapObject(x)
  PROVE  HasOwnType(x)
<1>1. PICK m : IsObject(m, x.name) /\ x.type = TypeOf(ClauseOf(m, x.name).syntax) /\ x.type \in TrapTypes
  BY DEF IsTrapObject
<1>2. x.what = "object" /\ IsObject(x.in, x.name)
  BY DEF IsTrapObject
<1> DEFINE c == ClauseOf(x.in, x.name)
<1>3. SUFFICES ASSUME Sole(x.name), SoleChain(x.in, c.syntax)
               PROVE  x.type = Lexical(CTypes, x.in, c.syntax)
  BY <1>2 DEF HasOwnType
<1>4. m = x.in
  <2>1. m \in Users(x.name) /\ x.in \in Users(x.name)
    BY <1>1, <1>2 DEF Users, IsObject, Declares
  <2>2. QED
    BY <1>3, <2>1, SoleUser
<1>5. x.in \in Known /\ c \in Clauses(x.in) /\ c.kind \in TypedKinds
  BY <1>2 DEF IsObject, Declares, ClauseOf, TypedKinds
<1>6. x.type = TypeOf(c.syntax) /\ x.type # None
  BY <1>1, <1>4, TypesAssumption
<1>7. QED
  BY <1>3, <1>5, <1>6, TypeOfIsLexical

\* Every step keeps it, while customTypes is known.
LEMMA TypesStep ==
  ASSUME Control, Entries, ScalarsOfMain, PluginKnown, EmittedKnown, CustomTypesKnown, TypesAsDeclared, [Next]_vars
  PROVE  TypesAsDeclared'
<1>1. /\ job' = job /\ job \in Jobs
      /\ \A x : HasOwnType(x)' <=> HasOwnType(x)
  <2>1. job' = job
    BY JobStays
  <2>2. QED
    BY <2>1, SameJob, SameChains DEF HasOwnType, Control
<1>2. \A x \in emitted' : x \in emitted \/ IsField(x) \/ IsTrapObject(x)
  BY Emits
<1>3. \A x \in emitted' : HasOwnType(x)
  BY <1>1, <1>2, FieldHasOwnType, TrapObjectHasOwnType DEF TypesAsDeclared, HasOwnType
<1>4. QED
  BY <1>1, <1>3 DEF TypesAsDeclared, HasOwnType

\* Every scalar, column and trap object has the C type that its own MIB gives it,
\* whatever the other MIBs call by the same names, as long as the names on its own
\* way to the C type are declared once: getBaseTypeFromSymbolTable and
\* getObjTypeString go by names alone, across all MIBs, in the order of a dict.
THEOREM TypesAreTheMibsOwn == Spec => []TypesAsDeclared
<1>1. Init => CustomTypesKnown /\ TypesAsDeclared
  BY DEF Init, Empty, CustomTypesKnown, TypesAsDeclared
<1>2. IInv /\ CustomTypesKnown /\ TypesAsDeclared /\ [Next]_vars => CustomTypesKnown' /\ TypesAsDeclared'
  BY CustomTypesStep, TypesStep DEF IInv
<1>3. QED
  BY <1>1, <1>2, Always, PTL DEF Spec

-----------------------------------------------------------------------------
(* A job in order.                                                         *)

\* The MIB's imports were looked at.
ImportsDone(m) ==
  CASE pc = "imports" -> m \notin rest \cup {module}
    [] pc = "clauses" -> m \notin rest
    [] OTHER          -> TRUE

\* The present MIB's own imports are in force.
ImportsInForce ==
  pc = "clauses" => \A n \in DOMAIN job.imports[module] : importMap[n] = job.imports[module][n]

\* What is kept of a clause that was visited.
Kept(c) ==
  /\ c.name \in DOMAIN out
  /\ c.kind = "table" => c.name \in DOMAIN tables
  /\ c.kind = "row" => c.name \in DOMAIN tableRows /\ c.parent \in DOMAIN tables /\ tables[c.parent] # None
  /\ c.kind = "column" =>
       /\ c.parent \in DOMAIN tableRows
       /\ \E k \in DOMAIN tableRows[c.parent].columns : tableRows[c.parent].columns[k].clause = c

\* Nothing that was visited is lost.
AllIsKept ==
  /\ \A m \in job.handed : \A i \in DOMAIN job.text[m] : Visited(m, i) => Kept(job.text[m][i])
  /\ \A m \in job.handed : ImportsDone(m) => ImportedTypes(m) \ CTypes \subseteq DOMAIN customTypes

\* An entry of a MIB in order has the objects that the MIB means.
HasOwnObjects(e) ==
  e.clause.kind # "text" =>
    /\ DOMAIN e.objects = DOMAIN e.clause.objects
    /\ \A i \in DOMAIN e.objects : e.objects[i] = <<Scope(e.in, e.clause.objects[i]), e.clause.objects[i]>>

\* What tableRows has of a row, and tables of a table, is of a clause.
IsRow(r, row) ==
  \E m \in job.handed : \E c \in Clauses(m) :
    c.kind = "row" /\ c.name = r /\ c.index = row.index /\ c.augments = row.augments

IsRowOf(t, r) == \E m \in job.handed : \E c \in Clauses(m) : c.kind = "row" /\ c.name = r /\ c.parent = t

\* All that is kept is of a clause.
TypeIsOf(n, v) == v \in CTypes \/ \E m \in job.handed : IsType(m, n) /\ v = ClauseOf(m, n).syntax

EntryIsOf(n, e) == (e.clause.kind = "text" => n \in FakeTypes) /\ HasOwnObjects(e)

TableIsOf(t, r) ==
  /\ \E m \in job.handed : \E c \in Clauses(m) : c.kind = "table" /\ c.name = t
  /\ r # None => IsRowOf(t, r)

RowIsOf(r, row) ==
  /\ IsRow(r, row)
  /\ \A k \in DOMAIN row.columns : LET c == row.columns[k].clause IN c.kind = "column" /\ c.parent = r

NothingElse ==
  /\ \A n \in DOMAIN customTypes : TypeIsOf(n, customTypes[n])
  /\ \A n \in DOMAIN out : EntryIsOf(n, out[n])
  /\ \A t \in DOMAIN tables : TableIsOf(t, tables[t])
  /\ \A r \in DOMAIN tableRows : RowIsOf(r, tableRows[r])

\* Generation of a job that is in order.
InOrder == pc \notin Dead /\ ImportsInForce /\ AllIsKept /\ NothingElse

TidyJobKnown == TidyJob => InOrder

\* What Trail is of the OIDs, from parent to parent.
ParentsMet(x, met) ==
  met = [k \in 0 .. Depth |-> IF k = 0 THEN {x} ELSE {ParentOf(y) : y \in met[k - 1]}]

ParentTrail(x) == LET Step(y) == ParentOf(y) IN Trail(Step, x)

\* OIDs, names and order are matters of the job, which does not change.
LEMMA SameOids ==
  ASSUME job' = job
  PROVE  \A m, n : OidStatus(m, n)' = OidStatus(m, n)
<1>1. Known' = Known
  BY DEF Known
<1>2. \A m, n : Declares(m, n)' <=> Declares(m, n)
  BY <1>1, SameJob DEF Declares
<1>3. \A y : ParentOf(y)' = ParentOf(y)
  <2>1. \A m, n : IsType(m, n)' <=> IsType(m, n)
    BY <1>2, SameJob DEF IsType
  <2>2. QED
    BY <1>2, <2>1, SameJob DEF ParentOf
<1>4. ASSUME NEW x PROVE ParentTrail(x)' = ParentTrail(x)
  <2>1. \A met : ParentsMet(x, met)' <=> ParentsMet(x, met)
    <3> SUFFICES ASSUME NEW met PROVE ParentsMet(x, met)' <=> ParentsMet(x, met)
      OBVIOUS
    <3>1. \A S : {ParentOf(y)' : y \in S} = {ParentOf(y) : y \in S}
      BY <1>3
    <3> DEFINE Next1(k) == IF k = 0 THEN {x} ELSE {ParentOf(y) : y \in met[k - 1]}
               Next2(k) == IF k = 0 THEN {x} ELSE {ParentOf(y)' : y \in met[k - 1]}
    <3>2. \A k : Next1(k) = Next2(k)
      BY <3>1, Zenon
    <3>3. ParentsMet(x, met) <=> met = [k \in 0 .. Depth |-> Next1(k)]
      BY Zenon DEF ParentsMet
    <3>4. ParentsMet(x, met)' <=> met = [k \in 0 .. Depth |-> Next2(k)]
      BY Zenon DEF ParentsMet
    <3>5. [k \in 0 .. Depth |-> Next1(k)] = [k \in 0 .. Depth |-> Next2(k)]
      <4> HIDE DEF Next1, Next2
      <4>1. QED
        BY <3>2
    <3> HIDE DEF Next1, Next2
    <3>6. QED
      BY <3>3, <3>4, <3>5
  <2>2. ParentTrail(x) = CHOOSE met : ParentsMet(x, met)
    BY Zenon DEF ParentTrail, Trail, ParentsMet
  <2>3. ParentTrail(x)' = CHOOSE met : ParentsMet(x, met)'
    BY Zenon DEF ParentTrail, Trail, ParentsMet
  <2>4. QED
    BY <2>1, <2>2, <2>3
<1>5. ASSUME NEW m, NEW n PROVE OidStatus(m, n)' = OidStatus(m, n)
  <2> DEFINE T == ParentTrail(<<m, n>>)
  <2>1. PICK end : end = CHOOSE y \in T[Depth] : TRUE
    OBVIOUS
  <2>2. end = CHOOSE y \in T'[Depth] : TRUE
    <3>1. T' = T
      BY <1>4
    <3> HIDE DEF T
    <3>2. QED
      BY <2>1, <3>1
  <2>3. OidStatus(m, n) =
          IF end[2] = Iso THEN "done" ELSE IF Declares(end[1], end[2]) THEN "crash" ELSE "failed"
    BY <2>1, Zenon DEF Trail, OidStatus, LastOf, ParentTrail
  <2>4. OidStatus(m, n)' =
          IF end[2] = Iso THEN "done" ELSE IF Declares(end[1], end[2])' THEN "crash" ELSE "failed"
    BY <2>2, Zenon DEF Trail, OidStatus, LastOf, ParentTrail
  <2>5. QED
    BY <1>2, <2>3, <2>4
<1>6. QED
  BY <1>5

\* So are the names that a MIB declares and the types it imports.
LEMMA SameNames ==
  ASSUME job' = job
  PROVE  /\ Known' = Known
         /\ \A m, n : Declares(m, n)' <=> Declares(m, n)
         /\ \A m, n : IsType(m, n)' <=> IsType(m, n)
         /\ \A m : ImportedTypes(m)' = ImportedTypes(m)
<1>1. Known' = Known
  BY DEF Known
<1>2. \A m, n : Declares(m, n)' <=> Declares(m, n)
  BY <1>1, SameJob DEF Declares
<1>3. \A m, n : IsType(m, n)' <=> IsType(m, n)
  BY <1>2, SameJob DEF IsType
<1>4. \A m : ImportedTypes(m)' = ImportedTypes(m)
  BY <1>3 DEF ImportedTypes
<1>5. QED
  BY <1>1, <1>2, <1>3, <1>4

\* And so is whether it is in order.
LEMMA SameTidy ==
  ASSUME job' = job
  PROVE  TidyJob' <=> TidyJob
<1>1. ImportsAreTyped' <=> ImportsAreTyped
  BY SameNames, SameJob, SameChains DEF ImportsAreTyped
<1>2. \A m, t : Reachable(m, t)' <=> Reachable(m, t)
  BY SameJob, SameChains DEF Reachable
<1>3. \A m, parent, c, kind : Before(m, parent, c, kind)' <=> Before(m, parent, c, kind)
  BY DEF Before
<1>4. \A m, c : IndexOf(m, c)' = IndexOf(m, c)
  BY SameJob DEF IndexOf
<1>5. \A m, r : ColumnsIn(m, r)' = ColumnsIn(m, r)
  BY SameJob DEF ColumnsIn
<1>6. \A m, c : TidyRow(m, c)' <=> TidyRow(m, c)
  BY <1>3, <1>4, <1>5, SameNames, SameJob DEF TidyRow
<1>7. ASSUME NEW m, NEW c PROVE TidyClause(m, c)' <=> TidyClause(m, c)
  <2>1. \A t : Lexical(BaseTypes, m, t)' = Lexical(BaseTypes, m, t)
    BY SameTrails
  <2>2. QED
    BY <1>2, <1>3, <1>6, <2>1, SameNames, SameJob, SameChains, SameOids DEF TidyClause
<1>8. QED
  BY <1>1, <1>7, SameJob DEF TidyJob

\* A syntax is the first name of its chain.
LEMMA ChainOfClause ==
  ASSUME job \in Jobs, NEW m \in Known, NEW c \in Clauses(m), c.kind \in TypedKinds,
         Lexical(CTypes, m, c.syntax) # None
  PROVE  /\ IsSyntax(<<m, c.syntax>>)
         /\ \E p : /\ DeclarationWalk(CTypes, <<m, c.syntax>>, p)
                   /\ Chain(m, c.syntax) = {p[k] : k \in 0 .. Depth}
                   /\ Leads(p) /\ p[0] = <<m, c.syntax>>
BY ChainLeads DEF IsSyntax, DeclarationWalk

\* The loop of getBaseTypeFromSymbolTable follows the chain, to its end.
LEMMA BaseTypeFound ==
  ASSUME job \in Jobs, ImportsAreTyped, NEW m \in job.handed, NEW t \in ImportedTypes(m)
  PROVE  BaseType(job.imports[m][t], t) \in CTypes
<1> DEFINE g == job.imports[m][t]
           s == ClauseOf(g, t).syntax
<1>1. Depth \in Nat
  BY TypesAssumption
<1>2. IsType(g, t) /\ SoleChain(g, s) /\ Lexical(CTypes, g, s) # None
  BY DEF ImportsAreTyped, ImportedTypes
<1>3. g \in Known /\ ClauseOf(g, t) \in Clauses(g) /\ ClauseOf(g, t).kind \in TypedKinds
  BY <1>2 DEF IsType, Declares, ClauseOf, TypedKinds
<1>4. /\ IsSyntax(<<g, s>>)
      /\ \E p : /\ DeclarationWalk(CTypes, <<g, s>>, p) /\ Chain(g, s) = {p[k] : k \in 0 .. Depth}
                /\ Leads(p) /\ p[0] = <<g, s>>
  BY <1>2, <1>3, ChainOfClause
<1> HIDE DEF s
<1>5. PICK p : /\ DeclarationWalk(CTypes, <<g, s>>, p) /\ Chain(g, s) = {p[k] : k \in 0 .. Depth}
               /\ Leads(p) /\ p[0] = <<g, s>>
  BY <1>4
<1>6. ASSUME NEW k \in 1 .. Depth PROVE SyntaxByName(p[k - 1][2]) = p[k][2]
  <2> DEFINE y == p[k - 1]
             n == y[2]
             there == Scope(y[1], n)
  <2>1. k - 1 \in 0 .. Depth /\ (k - 1) + 1 = k /\ p[k] = Declaration(CTypes, y)
    BY <1>1, <1>5 DEF DeclarationWalk
  <2>2. CASE n \in CTypes
    BY <2>1, <2>2 DEF Declaration, SyntaxByName
  <2>3. CASE n \notin CTypes
    <3>1. IsType(there, n) /\ p[k] = <<there, ClauseOf(there, n).syntax>>
      BY <1>5, <2>1, <2>3 DEF Leads
    <3>2. Declares(there, n) /\ there \in Known
      BY <3>1 DEF IsType, Declares
    <3>3. y \in Chain(g, s)
      BY <1>5, <2>1
    <3>4. Declares(FirstWith(n), n)
      BY <3>2, FirstWithDeclares
    <3>5. FirstWith(n) = there
      <4> HIDE DEF y
      <4>1. QED
        BY <1>2, <1>4, <2>3, <3>3, <3>4, ChainMeans DEF s
    <3>6. n # None
      <4>1. IsSyntax(y)
        BY <1>4, <3>3, ChainOfSyntaxes
      <4> HIDE DEF y
      <4>2. QED
        BY <4>1, SyntaxIsResolved
    <3> HIDE DEF there, y
    <3>7. SyntaxByName(n) = ClauseOf(there, n).syntax
      BY <2>3, <3>2, <3>5, <3>6 DEF SyntaxByName
    <3>8. QED
      BY <3>1, <3>7 DEF y
  <2>4. QED
    BY <2>2, <2>3
<1> DEFINE S == {p[k][2] : k \in 0 .. Depth}
<1>7. s \in S
  <2>1. 0 \in 0 .. Depth /\ p[0][2] = s
    BY <1>1, <1>5
  <2>2. QED
    BY <2>1
<1>8. \A y \in S : SyntaxByName(y) \in S
  <2> SUFFICES ASSUME NEW j \in 0 .. Depth PROVE SyntaxByName(p[j][2]) \in S
    OBVIOUS
  <2>1. CASE j = Depth
    BY <1>5, <2>1 DEF Leads, SyntaxByName
  <2>2. CASE j # Depth
    <3>1. j + 1 \in 1 .. Depth /\ j + 1 \in 0 .. Depth /\ (j + 1) - 1 = j
      BY <1>1, <2>2
    <3>2. SyntaxByName(p[(j + 1) - 1][2]) = p[j + 1][2]
      BY <1>6, <3>1
    <3>3. QED
      BY <3>1, <3>2
  <2>3. QED
    BY <2>1, <2>2
<1>9. PICK q \in [0 .. Depth -> S] : SyntaxWalk(s, q) /\ LastOf(SyntaxByName, s) = q[Depth]
  <2> HIDE DEF S
  <2>1. QED
    BY <1>7, <1>8, LastSyntaxWalk
<1> DEFINE names == [k \in 0 .. Depth |-> p[k][2]]
<1>10. GoAlike(Depth, q, names)
  <2>1. q[0] = names[0]
    BY <1>1, <1>5, <1>9 DEF SyntaxWalk
  <2>2. ASSUME NEW k \in 1 .. Depth, q[k - 1] = names[k - 1] PROVE q[k] = names[k]
    <3>1. k - 1 \in 0 .. Depth /\ k \in 0 .. Depth
      BY <1>1
    <3>2. q[k] = SyntaxByName(q[k - 1])
      BY <1>9 DEF SyntaxWalk
    <3>3. names[k - 1] = p[k - 1][2] /\ names[k] = p[k][2]
      BY <3>1
    <3> HIDE DEF names, S
    <3>4. QED
      BY <1>6, <2>2, <3>2, <3>3
  <2>3. QED
    BY <2>1, <2>2 DEF GoAlike
<1>11. q[Depth] = p[Depth][2]
  <2>1. \A k \in 0 .. Depth : q[k] = names[k]
    <3> HIDE DEF names, S
    <3>1. QED
      BY <1>1, <1>10, SameSteps
  <2>2. Depth \in 0 .. Depth
    BY <1>1
  <2>3. QED
    BY <2>1, <2>2
<1>12. BaseType(g, t) = LET end == LastOf(SyntaxByName, s)
                        IN  IF end \in CTypes THEN end ELSE IF end = None THEN "crash" ELSE "loop"
  BY Zenon DEF BaseType, s
<1>13. QED
  BY <1>5, <1>9, <1>11, <1>12 DEF Leads

\* The clauses of the MIBs that are handed over are in order.
TidyClauses == \A m \in job.handed : \A c \in Clauses(m) : TidyClause(m, c)

\* A chain that is at types of such MIBs stays with them.
LEMMA ChainIsHanded ==
  ASSUME job \in Jobs, TidyClauses, NEW x, NEW p, DeclarationWalk(CTypes, x, p), Leads(p), NEW j \in 0 .. Depth,
         p[j][2] \in CTypes \/ Scope(p[j][1], p[j][2]) \in job.handed
  PROVE  \A k \in j .. Depth : p[k][2] \in CTypes \/ Scope(p[k][1], p[k][2]) \in job.handed
<1> DEFINE Good(y) == y[2] \in CTypes \/ Scope(y[1], y[2]) \in job.handed
           A == {n \in Nat : j + n \in 0 .. Depth => Good(p[j + n])}
<1>1. Depth \in Nat
  BY TypesAssumption
<1>2. Nat \subseteq A
  <2>1. 0 \in A
    OBVIOUS
  <2>2. ASSUME NEW n \in Nat, n \in A PROVE n + 1 \in A
    <3>1. SUFFICES ASSUME j + (n + 1) \in 0 .. Depth PROVE Good(p[j + (n + 1)])
      OBVIOUS
    <3>2. j + (n + 1) \in 1 .. Depth /\ j + n \in 0 .. Depth /\ (j + (n + 1)) - 1 = j + n /\ (j + n) + 1 = j + (n + 1)
      BY <1>1, <3>1
    <3>3. PICK y : y = p[j + n]
      OBVIOUS
    <3>4. Good(y)
      BY <2>2, <3>2, <3>3
    <3>5. CASE y[2] \in CTypes
      <4>1. p[j + (n + 1)] = Declaration(CTypes, p[(j + (n + 1)) - 1])
        BY <3>2 DEF DeclarationWalk
      <4>2. p[j + (n + 1)] = y
        BY <3>2, <3>3, <3>5, <4>1 DEF Declaration
      <4>3. QED
        BY <3>5, <4>2
    <3>6. CASE y[2] \notin CTypes
      <4> DEFINE there == Scope(y[1], y[2])
                 c == ClauseOf(there, y[2])
      <4>1. there \in job.handed
        BY <3>4, <3>6
      <4>2. IsType(there, y[2]) /\ p[(j + n) + 1] = <<there, c.syntax>>
        BY <3>2, <3>3, <3>6 DEF Leads
      <4>3. c \in Clauses(there) /\ c.kind = "type"
        BY <4>2 DEF IsType, Declares, ClauseOf
      <4>4. c.syntax \in CTypes \/ Scope(there, c.syntax) \in job.handed
        BY <4>1, <4>3 DEF TidyClauses, TidyClause
      <4>5. p[j + (n + 1)] = <<there, c.syntax>>
        BY <3>2, <4>2
      <4> HIDE DEF there, c
      <4>6. QED
        BY <4>4, <4>5
    <3>7. QED
      BY <3>5, <3>6
  <2> HIDE DEF A
  <2>3. QED
    BY <2>1, <2>2, Induction
<1>3. ASSUME NEW k \in j .. Depth PROVE Good(p[k])
  <2>1. k - j \in Nat /\ j + (k - j) = k /\ k \in 0 .. Depth
    BY <1>1
  <2>2. k - j \in A
    BY <1>2, <2>1
  <2>3. QED
    BY <2>1, <2>2
<1>4. QED
  BY <1>3

\* A name that one MIB alone uses is one of its clauses in _out.
LEMMA EntryOfClause ==
  ASSUME job \in Jobs, Entries, NothingElse, NEW m \in job.handed, NEW c \in Clauses(m), Sole(c.name),
         c.name \in DOMAIN out
  PROVE  out[c.name].in = m /\ out[c.name].clause = c
<1> DEFINE e == out[c.name]
<1>1. c.name \notin FakeTypes
  <2>1. \A h \in job.handed : \A d \in Clauses(h) : d.name \notin FakeTypes /\ d.defval \in {None, "fits", "unfit", "bits"}
    BY TypesAssumption, Zenon DEF Clauses
  <2>2. QED
    BY <2>1
<1>2. e.clause.kind # "text"
  BY <1>1 DEF NothingElse, EntryIsOf
<1>3. e.in \in job.handed /\ e.clause \in Clauses(e.in) /\ e.clause.name = c.name
  BY <1>2 DEF Entries, IsOfClause
<1>4. e.in \in Users(c.name) /\ m \in Users(c.name)
  <2>1. e.in \in Known /\ Declares(e.in, e.clause.name) /\ m \in Known /\ Declares(m, c.name)
    BY <1>3, ClauseByName
  <2>2. QED
    BY <1>3, <2>1 DEF Users
<1>5. e.in = m
  BY <1>4, SoleUser
<1>6. QED
  BY <1>3, <1>5, ClauseByName

\* All clauses were visited.
AllVisited ==
  /\ \A m \in job.handed : \A c \in Clauses(m) : Kept(c)
  /\ \A m \in job.handed : ImportedTypes(m) \ CTypes \subseteq DOMAIN customTypes

\* When code is generated, all MIBs were visited.
LEMMA AllIsVisited ==
  ASSUME AllIsKept, pc \in Generating
  PROVE  AllVisited
<1>1. \A m \in job.handed : ImportsDone(m)
  BY DEF Generating, ImportsDone
<1>2. \A m \in job.handed : \A i \in DOMAIN job.text[m] : Visited(m, i)
  BY DEF Generating, Visited
<1>3. QED
  BY <1>1, <1>2 DEF AllIsKept, AllVisited, Clauses

\* What is collected of types when all was visited.
Collected == job \in Jobs /\ Entries /\ CustomTypesKnown /\ NothingElse /\ AllVisited /\ TidyClauses

\* p is the chain of the syntax t of MIB m, up to a C type.
IsChain(m, t, p) ==
  /\ IsSyntax(<<m, t>>) /\ SoleChain(m, t)
  /\ DeclarationWalk(CTypes, <<m, t>>, p) /\ Chain(m, t) = {p[k] : k \in 0 .. Depth} /\ Leads(p)

\* A type of a MIB that is handed over is in _out.
LEMMA OutHasType ==
  ASSUME Collected, NEW m, NEW t, NEW p, IsChain(m, t, p), NEW k \in 0 .. Depth, p[k][2] \notin CTypes,
         Scope(p[k][1], p[k][2]) \in job.handed
  PROVE  /\ p[k][2] \in DOMAIN out /\ out[p[k][2]].clause.kind = "type"
         /\ out[p[k][2]].clause.syntax = p[k + 1][2]
<1> DEFINE n == p[k][2]
           h == Scope(p[k][1], n)
           c == ClauseOf(h, n)
<1>1. IsType(h, n) /\ p[k + 1] = <<h, c.syntax>>
  BY DEF IsChain, Leads
<1>2. c \in Clauses(h) /\ c.kind = "type" /\ c.name = n
  BY <1>1 DEF IsType, Declares, ClauseOf
<1>3. Sole(n)
  <2>1. p[k] \in Chain(m, t)
    BY DEF IsChain
  <2>2. QED
    BY <2>1 DEF IsChain, SoleChain
<1> HIDE DEF c, n, h
<1>4. h \in job.handed
  BY DEF h, n
<1>5. n \in DOMAIN out
  BY <1>2, <1>4 DEF Collected, AllVisited, Kept
<1>6. out[n].clause = c
  BY <1>2, <1>3, <1>4, <1>5, EntryOfClause DEF Collected
<1>7. QED
  BY <1>1, <1>2, <1>5, <1>6 DEF n

\* What customTypes has for a name of the chain is further on.
LEMMA CustomTypeIsAhead ==
  ASSUME Collected, NEW m \in Known, NEW c \in Clauses(m), c.kind \in TypedKinds,
         NEW p, IsChain(m, c.syntax, p), NEW k \in 0 .. Depth, p[k][2] \notin CTypes,
         p[k][2] \in DOMAIN customTypes
  PROVE  \/ customTypes[p[k][2]] = p[Depth][2]
         \/ /\ customTypes[p[k][2]] = p[k + 1][2]
            /\ Scope(p[k][1], p[k][2]) \in job.handed
<1> DEFINE t == c.syntax
           n == p[k][2]
           v == customTypes[n]
<1>1. p[k] \in Chain(m, t) /\ n \in ChainNames(m, t)
  BY DEF IsChain, ChainNames
<1>2. CASE v \in CTypes
  <2>1. v \in ChainNames(m, t)
    BY <1>1 DEF Collected, CustomTypesKnown, KeepsToChains, IsChain
  <2>2. PICK x \in Chain(m, t) : v = x[2]
    BY <2>1 DEF ChainNames
  <2>3. Lexical(CTypes, m, t) = v
    BY <1>2, <2>2, ChainEndsAtCType DEF Collected
  <2>4. p[Depth] \in Chain(m, t) /\ p[Depth][2] \in CTypes
    <3>1. Depth \in 0 .. Depth
      BY TypesAssumption
    <3>2. QED
      BY <3>1 DEF IsChain, Leads
  <2>5. Lexical(CTypes, m, t) = p[Depth][2]
    BY <2>4, ChainEndsAtCType DEF Collected
  <2>6. QED
    BY <2>3, <2>5
<1>3. CASE v \notin CTypes
  <2>1. PICK h \in job.handed : IsType(h, n) /\ v = ClauseOf(h, n).syntax
    BY <1>3 DEF Collected, NothingElse, TypeIsOf
  <2>2. Declares(h, p[k][2])
    BY <2>1 DEF IsType
  <2>3. Scope(p[k][1], p[k][2]) = h
    BY <1>1, <2>2, ChainMeans DEF Collected, IsChain
  <2>4. p[k + 1] = <<Scope(p[k][1], n), ClauseOf(Scope(p[k][1], n), n).syntax>>
    BY DEF IsChain, Leads
  <2>5. QED
    BY <2>1, <2>3, <2>4
<1>4. QED
  BY <1>2, <1>3

\* A call of getObjTypeString goes ahead from name to name.
GoesAhead(p) ==
  \A k \in 0 .. Depth : \E l \in 0 .. Depth :
    TypeStep(p[k][2]) = p[l][2] /\ (l > k \/ p[l][2] \in CTypes)

\* customTypes and _out have each name of a chain of MIBs that are handed over.
LEMMA CallGoesAhead ==
  ASSUME Collected, NEW m \in Known, NEW c \in Clauses(m), c.kind \in TypedKinds,
         NEW p, IsChain(m, c.syntax, p),
         \A k \in 0 .. Depth : p[k][2] \in CTypes \/ Scope(p[k][1], p[k][2]) \in job.handed
  PROVE  GoesAhead(p)
<1>1. Depth \in Nat
  BY TypesAssumption
<1> SUFFICES ASSUME NEW k \in 0 .. Depth
             PROVE  \E l \in 0 .. Depth : TypeStep(p[k][2]) = p[l][2] /\ (l > k \/ p[l][2] \in CTypes)
  BY DEF GoesAhead
<1> DEFINE n == p[k][2]
           custom == IF n \in DOMAIN customTypes THEN customTypes[n] ELSE n
           last(i) == IF i \notin CTypes /\ i \in DOMAIN out /\ out[i].clause.kind = "type"
                        THEN out[i].clause.syntax ELSE i
           named == last(custom)
<1>2. TypeStep(n) = IF named \in CTypes THEN named
                    ELSE IF named \in DOMAIN out /\ out[named].clause.kind = "type" THEN out[named].clause.syntax
                    ELSE None
  BY DEF TypeStep
<1>3. ASSUME NEW i \in 0 .. Depth, p[i][2] \notin CTypes
      PROVE  /\ i + 1 \in 0 .. Depth /\ i + 1 > i
             /\ p[i][2] \in DOMAIN out /\ out[p[i][2]].clause.kind = "type"
             /\ out[p[i][2]].clause.syntax = p[i + 1][2]
  BY <1>1, <1>3, OutHasType DEF IsChain, Leads
<1>4. \E a \in 0 .. Depth : custom = p[a][2] /\ a >= k
  <2>1. CASE n \notin DOMAIN customTypes
    BY <1>1, <2>1
  <2>2. CASE n \in DOMAIN customTypes
    <3>1. n \notin CTypes
      BY <2>2 DEF Collected, CustomTypesKnown, KeepsToChains
    <3>2. customTypes[n] = p[Depth][2] \/ customTypes[n] = p[k + 1][2]
      BY <2>2, <3>1, CustomTypeIsAhead
    <3>3. Depth \in 0 .. Depth /\ Depth >= k /\ k + 1 \in 0 .. Depth /\ k + 1 >= k
      BY <1>1, <1>3, <3>1
    <3> HIDE DEF n
    <3>4. QED
      BY <2>2, <3>2, <3>3
  <2>3. QED
    BY <2>1, <2>2
<1> HIDE DEF custom
<1>5. PICK a \in 0 .. Depth : custom = p[a][2] /\ a >= k
  BY <1>4
<1>6. CASE custom \in CTypes
  <2>1. named = custom
    BY <1>6
  <2> HIDE DEF named, n
  <2>2. TypeStep(n) = p[a][2]
    BY <1>2, <1>5, <1>6, <2>1
  <2>3. QED
    BY <1>5, <1>6, <2>2 DEF n
<1>7. CASE custom \notin CTypes
  <2>1. a + 1 \in 0 .. Depth /\ a + 1 > k /\ named = p[a + 1][2]
    BY <1>1, <1>3, <1>5, <1>7
  <2> HIDE DEF named, n
  <2>2. CASE named \in CTypes
    BY <1>2, <2>1, <2>2 DEF n
  <2>3. CASE named \notin CTypes
    <3>1. /\ (a + 1) + 1 \in 0 .. Depth /\ (a + 1) + 1 > a + 1
          /\ named \in DOMAIN out /\ out[named].clause.kind = "type"
          /\ out[named].clause.syntax = p[(a + 1) + 1][2]
      BY <1>3, <2>1, <2>3
    <3>2. TypeStep(n) = p[(a + 1) + 1][2]
      BY <1>2, <2>3, <3>1
    <3>3. (a + 1) + 1 > k
      BY <1>1, <2>1
    <3>4. QED
      BY <3>1, <3>2, <3>3 DEF n
  <2>4. QED
    BY <2>2, <2>3
<1>8. QED
  BY <1>6, <1>7

\* One call after the other comes to the end of the chain.
LEMMA CallsComeToTheEnd ==
  ASSUME NEW t, NEW p, GoesAhead(p), p[0][2] = t, p[Depth][2] \in CTypes,
         \A k \in 0 .. Depth : p[k][2] # None
  PROVE  TypeOf(t) \in CTypes
<1>1. Depth \in Nat
  BY TypesAssumption
<1> DEFINE S == {p[k][2] : k \in 0 .. Depth}
<1>2. TypeStep(t) \in S
  <2>1. 0 \in 0 .. Depth
    BY <1>1
  <2>2. \E l \in 0 .. Depth : TypeStep(p[0][2]) = p[l][2]
    BY <2>1 DEF GoesAhead
  <2>3. QED
    BY <2>2
<1>3. \A y \in S : NextType(y) \in S
  <2> SUFFICES ASSUME NEW k \in 0 .. Depth PROVE NextType(p[k][2]) \in S
    OBVIOUS
  <2>1. \E l \in 0 .. Depth : TypeStep(p[k][2]) = p[l][2]
    BY DEF GoesAhead
  <2>2. QED
    BY <2>1 DEF NextType
<1>4. PICK q \in [0 .. Depth -> S] : TypeWalk(TypeStep(t), q) /\ LastOf(NextType, TypeStep(t)) = q[Depth]
  <2> HIDE DEF S
  <2>1. QED
    BY <1>2, <1>3, LastTypeWalk
<1> DEFINE Far(n) == \E l \in 0 .. Depth : q[n] = p[l][2] /\ (l >= n \/ p[l][2] \in CTypes)
           A == {n \in Nat : n \in 0 .. Depth => Far(n)}
<1>5. Nat \subseteq A
  <2>1. 0 \in A
    <3>1. q[0] = TypeStep(t) /\ 0 \in 0 .. Depth
      BY <1>1, <1>4 DEF TypeWalk
    <3>2. \E l \in 0 .. Depth : TypeStep(p[0][2]) = p[l][2]
      BY <3>1 DEF GoesAhead
    <3>3. QED
      BY <3>1, <3>2
  <2>2. ASSUME NEW n \in Nat, n \in A PROVE n + 1 \in A
    <3>1. SUFFICES ASSUME n + 1 \in 0 .. Depth PROVE Far(n + 1)
      OBVIOUS
    <3>2. n + 1 \in 1 .. Depth /\ n \in 0 .. Depth /\ (n + 1) - 1 = n
      BY <1>1, <3>1
    <3>3. q[n + 1] = NextType(q[(n + 1) - 1])
      BY <1>4, <3>2 DEF TypeWalk
    <3>4. q[n + 1] = NextType(q[n])
      BY <3>2, <3>3
    <3>5. PICK l \in 0 .. Depth : q[n] = p[l][2] /\ (l >= n \/ p[l][2] \in CTypes)
      BY <2>2, <3>2
    <3>6. CASE p[l][2] \in CTypes
      BY <3>4, <3>5, <3>6 DEF NextType
    <3>7. CASE p[l][2] \notin CTypes
      <4>1. PICK i \in 0 .. Depth : TypeStep(p[l][2]) = p[i][2] /\ (i > l \/ p[i][2] \in CTypes)
        BY DEF GoesAhead
      <4>2. q[n + 1] = p[i][2]
        BY <3>4, <3>5, <3>7, <4>1 DEF NextType
      <4>3. i >= n + 1 \/ p[i][2] \in CTypes
        BY <3>5, <3>7, <4>1
      <4>4. QED
        BY <4>2, <4>3
    <3>8. QED
      BY <3>6, <3>7
  <2> HIDE DEF A
  <2>3. QED
    BY <2>1, <2>2, Induction
<1>6. q[Depth] \in CTypes
  <2>1. Depth \in 0 .. Depth
    BY <1>1
  <2>2. PICK l \in 0 .. Depth : q[Depth] = p[l][2] /\ (l >= Depth \/ p[l][2] \in CTypes)
    BY <1>1, <1>5, <2>1
  <2>3. l >= Depth => l = Depth
    BY <1>1
  <2>4. QED
    BY <2>2, <2>3
<1>7. TypeOf(t) = LET end == LastOf(NextType, TypeStep(t)) IN IF end \in CTypes THEN end ELSE None
  BY Zenon DEF TypeOf, NextType, LastOf, Trail
<1>8. QED
  BY <1>4, <1>6, <1>7

\* getObjTypeString finds the type that the text of the MIB means, when all MIBs
\* that are handed over were visited.
LEMMA TypeFound ==
  ASSUME Collected, NEW m \in Known, NEW c \in Clauses(m), c.kind \in TypedKinds,
         SoleChain(m, c.syntax), Reachable(m, c.syntax)
  PROVE  TypeOf(c.syntax) # None /\ TypeOf(c.syntax) = Lexical(CTypes, m, c.syntax)
<1> DEFINE t == c.syntax
<1>1. Depth \in Nat /\ 0 \in 0 .. Depth
  BY TypesAssumption
<1>2. PICK p : IsChain(m, t, p) /\ p[0] = <<m, t>>
  BY ChainOfClause DEF IsChain, Reachable, Collected
<1>3. p[Depth][2] \in CTypes
  BY <1>2 DEF IsChain, Leads
<1>4. \A k \in 0 .. Depth : p[k][2] # None
  <2> SUFFICES ASSUME NEW k \in 0 .. Depth PROVE p[k][2] # None
    OBVIOUS
  <2>1. p[k] \in Chain(m, t)
    BY <1>2 DEF IsChain
  <2>2. IsSyntax(p[k])
    BY <1>2, <2>1, ChainOfSyntaxes DEF IsChain, Collected
  <2>3. PICK y : y = p[k]
    OBVIOUS
  <2>4. y[2] # None
    BY <2>2, <2>3, SyntaxIsResolved DEF Collected
  <2>5. QED
    BY <2>3, <2>4
<1> DEFINE Handed == \A k \in 0 .. Depth : p[k][2] \in CTypes \/ Scope(p[k][1], p[k][2]) \in job.handed
<1>5. Handed => TypeOf(t) \in CTypes
  <2>1. Handed => GoesAhead(p)
    BY <1>2, CallGoesAhead
  <2>2. p[0][2] = t
    BY <1>2
  <2> HIDE DEF Handed
  <2>3. QED
    BY <1>3, <1>4, <2>1, <2>2, CallsComeToTheEnd
<1>6. t \in CTypes \/ Scope(m, t) \in job.handed => Handed
  <2>1. p[0][2] = t /\ p[0][1] = m
    BY <1>2
  <2>2. t \in CTypes \/ Scope(m, t) \in job.handed =>
          \A k \in 0 .. Depth : p[k][2] \in CTypes \/ Scope(p[k][1], p[k][2]) \in job.handed
    BY <1>1, <1>2, <2>1, ChainIsHanded DEF IsChain, Collected
  <2>3. QED
    BY <2>2
<1>7. ASSUME t \notin CTypes, Scope(m, t) \notin job.handed, NEW h \in job.handed, t \in DOMAIN job.imports[h]
      PROVE  TypeOf(t) \in CTypes
  <2> DEFINE g == job.imports[h][t]
  <2>1. IsType(Scope(m, t), t)
    <3>1. p[0][2] = t /\ p[0][1] = m
      BY <1>2
    <3>2. QED
      BY <1>1, <1>2, <1>7, <3>1 DEF IsChain, Leads
  <2>2. g = Scope(m, t)
    <3>1. <<m, t>> \in Chain(m, t)
      BY <1>1, <1>2 DEF IsChain
    <3>2. Sole(t)
      BY <1>2, <3>1 DEF IsChain, SoleChain
    <3>3. h \in Known
      BY NetSnmpCodeGenAssumption DEF Collected, Known
    <3>4. g \in Users(t) /\ Scope(m, t) \in Users(t)
      BY <1>7, <2>1, <3>3 DEF Users, IsType, Declares
    <3>5. QED
      BY <3>2, <3>4, SoleUser DEF Collected
  <2>3. t \in ImportedTypes(h) \ CTypes
    BY <1>7, <2>1, <2>2 DEF ImportedTypes
  <2>4. t \in DOMAIN customTypes
    BY <2>3 DEF Collected, AllVisited
  <2>5. customTypes[t] \in CTypes
    <3>1. p[0][2] = t /\ p[0][1] = m
      BY <1>2
    <3>2. \/ customTypes[p[0][2]] = p[Depth][2]
          \/ customTypes[p[0][2]] = p[0 + 1][2] /\ Scope(p[0][1], p[0][2]) \in job.handed
      BY <1>1, <1>2, <1>7, <2>4, <3>1, CustomTypeIsAhead
    <3>3. QED
      BY <1>3, <1>7, <3>1, <3>2
  <2> DEFINE v == customTypes[t]
  <2>6. TypeStep(t) = v
    BY <2>4, <2>5 DEF TypeStep
  <2>7. LastOf(NextType, TypeStep(t)) \in {v}
    <3>1. \A y \in {v} : NextType(y) \in {v}
      BY <2>5 DEF NextType
    <3>2. TypeStep(t) \in {v}
      BY <2>6
    <3> HIDE DEF v
    <3>3. QED
      BY <3>1, <3>2, LastTypeStays
  <2>8. TypeOf(t) = LET end == LastOf(NextType, TypeStep(t)) IN IF end \in CTypes THEN end ELSE None
    BY Zenon DEF TypeOf, NextType, LastOf, Trail
  <2> HIDE DEF t
  <2>9. QED
    BY <2>5, <2>7, <2>8
<1>8. TypeOf(t) \in CTypes
  <2>1. CASE \A x \in Chain(m, t) : x[2] \in CTypes \/ Scope(x[1], x[2]) \in job.handed
    <3>1. Handed
      BY <1>2, <2>1 DEF IsChain
    <3> HIDE DEF Handed
    <3>2. QED
      BY <1>5, <3>1
  <2>2. CASE \E h \in job.handed : t \in DOMAIN job.imports[h]
    <3> HIDE DEF Handed, t
    <3>1. QED
      BY <1>5, <1>6, <1>7, <2>2
  <2>3. QED
    BY <2>1, <2>2 DEF Reachable
<1>9. TypeOf(t) # None
  BY <1>8, NetSnmpCodeGenAssumption
<1>10. QED
  BY <1>9, TypeOfIsLexical DEF Collected

\* Imports and declarations of one MIB agree with importMap, which is of all.
LEMMA ImportedFromIsScope ==
  ASSUME Control, ImportsKnown, ImportsInForce, pc = "clauses", NEW n,
         n \in DOMAIN job.imports[module] \/ (Sole(n) /\ Scope(module, n) \in Users(n))
  PROVE  ImportedFrom(n) = Scope(module, n)
<1>1. CASE n \in DOMAIN job.imports[module]
  BY <1>1 DEF ImportsKnown, ImportsInForce, ImportedFrom, Scope
<1>2. CASE n \notin DOMAIN job.imports[module]
  <2>1. Scope(module, n) = module
    BY <1>2 DEF Scope
  <2>2. CASE n \in DOMAIN importMap
    <3>1. job.handed \subseteq Known
      BY NetSnmpCodeGenAssumption DEF Control, Known
    <3>2. importMap[n] \in Users(n)
      BY <2>2, <3>1 DEF ImportsKnown, Users
    <3>3. importMap[n] = Scope(module, n)
      BY <1>2, <3>2, SoleUser DEF Control
    <3>4. QED
      BY <2>2, <3>3 DEF ImportedFrom
  <2>3. CASE n \notin DOMAIN importMap
    BY <2>1, <2>3 DEF ImportedFrom
  <2>4. QED
    BY <2>2, <2>3
<1>3. QED
  BY <1>1, <1>2

\* genImports finds a C type for every imported type.
LEMMA ImportsEndWell ==
  ASSUME Control, ImportsAreTyped
  PROVE  ~ImportsEndBadly
<1>1. BaseTypesOf(module) \subseteq CTypes
  BY BaseTypeFound DEF BaseTypesOf, Control
<1>2. QED
  BY <1>1, TypesAssumption DEF ImportsEndBadly

\* The clause that is to be visited.
LEMMA HereIsClause ==
  ASSUME Control, pc = "clauses", at <= Len(job.text[module])
  PROVE  /\ at \in DOMAIN job.text[module] /\ DOMAIN job.text[module] = 1 .. Len(job.text[module])
         /\ Here = job.text[module][at] /\ Here \in Clauses(module)
         /\ \A i \in DOMAIN job.text[module] : job.text[module][i].name = Here.name => i = at
         /\ \A i \in DOMAIN job.text[module] : i < at => Visited(module, i)
         /\ \A i \in DOMAIN job.text[module] : Visited(module, i) => i # at
BY NetSnmpCodeGenAssumption DEF Control, Reading, Here, Clauses, Visited

\* A clause in order has an OID, a default value that fits, and its place.
LEMMA ClauseEndsWell ==
  ASSUME Control, ImportsKnown, ImportsInForce, AllIsKept, TidyClauses
  PROVE  ~ClauseFails
<1> SUFFICES ASSUME pc = "clauses", at <= Len(job.text[module])
             PROVE  Status(Here) = "done" /\ HasPlace(Here)
  BY DEF ClauseFails
<1>1. /\ at \in DOMAIN job.text[module] /\ Here = job.text[module][at] /\ Here \in Clauses(module)
      /\ module \in job.handed /\ job \in Jobs
  BY HereIsClause DEF Control
<1>2. TidyClause(module, Here)
  BY <1>1 DEF TidyClauses
<1> DEFINE p == Here.parent
<1>3. ASSUME Here.kind # "type" PROVE ImportedFrom(p) = Scope(module, p)
  <2>1. CASE p \in DOMAIN job.imports[module]
    BY <2>1, ImportedFromIsScope
  <2>2. CASE p \notin DOMAIN job.imports[module]
    <3>1. PICK k \in DOMAIN job.text[module] : job.text[module][k].name = p
      BY <1>1, <1>3, <2>2, NetSnmpCodeGenAssumption
    <3>2. job.text[module][k] \in Clauses(module)
      BY DEF Clauses
    <3>3. Sole(p) /\ Declares(module, p) /\ module \in Known
      BY <1>1, <3>1, <3>2, ClauseByName DEF TidyClauses, TidyClause
    <3>4. Scope(module, p) = module /\ module \in Users(p)
      BY <2>2, <3>3 DEF Scope, Users
    <3>5. QED
      BY <3>3, <3>4, ImportedFromIsScope
  <2>3. QED
    BY <2>1, <2>2
<1>4. Here.kind # "type" => OidStatus(Entry(Here).oid[1], p) = "done"
  <2>1. Entry(Here).oid[1] = ImportedFrom(p)
    BY DEF Entry
  <2>2. QED
    BY <1>2, <1>3, <2>1 DEF TidyClause
<1>5. DefaultStatus(Here) = "done"
  <2>1. \A h \in job.handed : \A d \in Clauses(h) : d.name \notin FakeTypes /\ d.defval \in {None, "fits", "unfit", "bits"}
    BY <1>1, TypesAssumption, Zenon DEF Clauses
  <2>2. Here.defval \in {None, "fits", "unfit", "bits"}
    BY <1>1, <2>1
  <2>3. QED
    BY <1>2, <2>2 DEF TidyClause, DefaultStatus
<1>6. Status(Here) = "done"
  BY <1>4, <1>5 DEF Status
<1>7. ASSUME NEW kind, Before(module, p, Here, kind)
      PROVE  \E c \in Clauses(module) : c.name = p /\ c.kind = kind /\ Kept(c)
  <2>1. PICK i \in DOMAIN job.text[module], j \in DOMAIN job.text[module] :
          i < j /\ job.text[module][i].name = p /\ job.text[module][i].kind = kind /\ job.text[module][j] = Here
    BY <1>7 DEF Before
  <2>2. j = at
    BY <2>1, HereIsClause
  <2>3. Visited(module, i)
    BY <2>1, <2>2, HereIsClause
  <2>4. Kept(job.text[module][i]) /\ job.text[module][i] \in Clauses(module)
    BY <1>1, <2>3 DEF AllIsKept, Clauses
  <2>5. QED
    BY <2>1, <2>4
<1>8. Here.kind = "row" => p \in DOMAIN tables
  BY <1>2, <1>7 DEF TidyClause, TidyRow, Kept
<1>9. Here.kind = "column" => p \in DOMAIN tableRows
  BY <1>2, <1>7 DEF TidyClause, Kept
<1>10. QED
  BY <1>6, <1>8, <1>9 DEF HasPlace

\* A clause with a syntax has a type.
LEMMA EntryHasType ==
  ASSUME Collected, NEW e, e.clause \in Clauses(e.in), e.in \in job.handed, e.clause.kind \in {"scalar", "column"}
  PROVE  EntryType(e) # None
<1>1. e.in \in Known
  BY ClauseByName DEF Collected
<1>2. TidyClause(e.in, e.clause)
  BY DEF Collected, TidyClauses
<1>3. Reachable(e.in, e.clause.syntax) /\ SoleChain(e.in, e.clause.syntax)
  BY <1>2 DEF TidyClause
<1>4. TypeOf(e.clause.syntax) # None
  BY <1>1, <1>3, TypeFound DEF TypedKinds
<1>5. QED
  BY <1>4 DEF EntryType

\* genCFile finds the scalars of the main MIB, with their types.
LEMMA ScalarEndsWell ==
  ASSUME Control, ScalarsOfMain, pc = "scalars" => Collected
  PROVE  ~ScalarFails
<1> SUFFICES ASSUME pc = "scalars", at <= Len(scalars)
             PROVE  ~ScalarIsBad(scalars[at])
  BY DEF ScalarFails
<1> DEFINE n == scalars[at]
           e == out[n]
<1>1. at \in DOMAIN scalars
  BY Appended DEF Control, ScalarsOfMain
<1>2. PICK c \in Clauses(job.main) : c.kind = "scalar" /\ c.name = n
  BY <1>1 DEF ScalarsOfMain
<1>3. job.main \in job.handed
  BY NetSnmpCodeGenAssumption DEF Control
<1>4. TidyClause(job.main, c)
  BY <1>3 DEF Collected, TidyClauses
<1>5. e.in = job.main /\ e.clause = c
  <2>1. c.name \in DOMAIN out
    BY <1>3 DEF Collected, AllVisited, Kept
  <2>2. Sole(c.name)
    BY <1>4 DEF TidyClause
  <2>3. QED
    BY <1>2, <1>3, <2>1, <2>2, EntryOfClause DEF Collected
<1>6. EntryType(e) # None
  BY <1>2, <1>3, <1>5, EntryHasType
<1>7. Mapped(n) => c.syntax # "Bits" /\ n \in DOMAIN job.mapping[n]
  BY <1>2, <1>4 DEF TidyClause
<1>8. QED
  BY <1>2, <1>5, <1>6, <1>7 DEF ScalarIsBad

-----------------------------------------------------------------------------
(* Nothing fails of what is in order.                                      *)

\* A name that one MIB alone uses is of one clause.
LEMMA SameClause ==
  ASSUME job \in Jobs, NEW m \in job.handed, NEW h \in job.handed, NEW c \in Clauses(m), NEW d \in Clauses(h),
         c.name = d.name, Sole(c.name)
  PROVE  m = h /\ c = d
<1>1. m \in Known /\ Declares(m, c.name) /\ h \in Known /\ Declares(h, c.name)
  BY ClauseByName
<1>2. m \in Users(c.name) /\ h \in Users(c.name)
  BY <1>1 DEF Users
<1>3. m = h
  BY <1>2, SoleUser
<1>4. c = d
  <2>1. ClauseOf(m, c.name) = c /\ ClauseOf(h, d.name) = d
    BY ClauseByName
  <2>2. QED
    BY <1>3, <2>1
<1>5. QED
  BY <1>3, <1>4

\* An object of a MIB that is handed over is in _out.
IsEntryOf(e, h, n) ==
  /\ e.in = h /\ e.clause \in Clauses(h)
  /\ e.clause.name = n /\ e.clause.kind \in {"scalar", "column"}

\* It is kept there under its name, as its own MIB has it.
LEMMA ObjectIsInOut ==
  ASSUME Collected, NEW h \in job.handed, NEW n, IsObject(h, n)
  PROVE  n \in DOMAIN out /\ IsEntryOf(out[n], h, n)
<1> DEFINE c == ClauseOf(h, n)
<1>1. c \in Clauses(h) /\ c.name = n /\ c.kind \in {"scalar", "column"}
  BY DEF IsObject, Declares, ClauseOf
<1>2. Sole(c.name)
  BY <1>1 DEF Collected, TidyClauses, TidyClause
<1>3. c.name \in DOMAIN out
  BY <1>1 DEF Collected, AllVisited, Kept
<1> HIDE DEF c
<1>4. out[c.name].in = h /\ out[c.name].clause = c
  BY <1>1, <1>2, <1>3, EntryOfClause DEF Collected
<1>5. QED
  BY <1>1, <1>3, <1>4 DEF IsEntryOf

\* r is the row of table t.
IsRowOfTable(t, m, r) ==
  /\ m \in job.handed /\ r \in Clauses(m) /\ r.kind = "row"
  /\ r.parent = t /\ tables[t] = r.name
  /\ r.name \in DOMAIN tableRows
  /\ tableRows[r.name].index = r.index /\ tableRows[r.name].augments = r.augments

\* What is kept under the name of a row is of that row.
LEMMA RowIsKept ==
  ASSUME Collected, NEW m \in job.handed, NEW r \in Clauses(m), r.kind = "row"
  PROVE  /\ r.name \in DOMAIN tableRows
         /\ tableRows[r.name].index = r.index /\ tableRows[r.name].augments = r.augments
         /\ r.parent \in DOMAIN tables /\ tables[r.parent] # None
<1>1. r.name \in DOMAIN tableRows /\ r.parent \in DOMAIN tables /\ tables[r.parent] # None
  BY DEF Collected, AllVisited, Kept
<1>2. PICK h, c : h \in job.handed /\ c \in Clauses(h) /\
        c.name = r.name /\ c.index = tableRows[r.name].index /\ c.augments = tableRows[r.name].augments
  <2>1. IsRow(r.name, tableRows[r.name])
    BY <1>1 DEF Collected, NothingElse, RowIsOf
  <2>2. QED
    BY <2>1 DEF IsRow
<1>3. Sole(r.name)
  BY DEF Collected, TidyClauses, TidyClause
<1>4. c = r
  BY <1>2, <1>3, SameClause DEF Collected
<1>5. QED
  BY <1>1, <1>2, <1>4

\* A table has a row, of the same name and MIB as the clause of the row.
LEMMA TableHasRow ==
  ASSUME Collected, NEW t \in DOMAIN tables
  PROVE  tables[t] # None /\ \E m, r : IsRowOfTable(t, m, r)
<1>1. PICK h, c : h \in job.handed /\ c \in Clauses(h) /\ c.kind = "table" /\ c.name = t
  BY DEF Collected, NothingElse, TableIsOf
<1>2. PICK d \in Clauses(h) : d.kind = "row" /\ d.parent = t
  BY <1>1 DEF Collected, TidyClauses, TidyClause
<1>3. tables[t] # None
  BY <1>1, <1>2, RowIsKept
<1>4. PICK m, r : m \in job.handed /\ r \in Clauses(m) /\ r.kind = "row" /\ r.name = tables[t] /\ r.parent = t
  BY <1>3 DEF Collected, NothingElse, TableIsOf, IsRowOf
<1>5. IsRowOfTable(t, m, r)
  BY <1>4, RowIsKept DEF IsRowOfTable
<1>6. QED
  BY <1>3, <1>5

\* getIndexesForTable finds the columns that the INDEX, or that of the augmented
\* row, means in its own MIB.
LEMMA IndexesEndWell ==
  ASSUME Collected, NEW t \in DOMAIN tables, NEW m, NEW r, IsRowOfTable(t, m, r)
  PROVE  /\ ~IndexesAreBad(t)
         /\ \A e \in Indexes(t) : \E x \in IndexOf(m, r) : x[1] \in job.handed /\ IsEntryOf(e, x[1], x[2])
<1> DEFINE g == Scope(m, r.augments)
           a == ClauseOf(g, r.augments)
<1>1. /\ m \in job.handed /\ r \in Clauses(m) /\ r.kind = "row" /\ tables[t] = r.name
      /\ tableRows[r.name].index = r.index /\ tableRows[r.name].augments = r.augments
  BY DEF IsRowOfTable
<1>2. TidyRow(m, r)
  BY <1>1 DEF Collected, TidyClauses, TidyClause
<1>3. r.index = <<>> => /\ g \in job.handed /\ a \in Clauses(g) /\ a.kind = "row" /\ a.name = r.augments
  BY <1>2 DEF TidyRow, Declares, ClauseOf
<1>4. r.index = <<>> => r.augments \in DOMAIN tableRows /\ tableRows[r.augments].index = a.index
  <2> HIDE DEF a, g
  <2>1. QED
    BY <1>3, RowIsKept
<1>5. \A i \in DOMAIN IndexNames(t) : \E x \in IndexOf(m, r) : x[2] = IndexNames(t)[i]
  <2>1. CASE r.index # <<>>
    <3>1. IndexNames(t) = r.index
      BY <1>1, <2>1 DEF IndexNames
    <3>2. IndexOf(m, r) = {<<Scope(m, r.index[i]), r.index[i]>> : i \in DOMAIN r.index}
      BY <2>1 DEF IndexOf
    <3>3. ASSUME NEW i \in DOMAIN r.index PROVE \E x \in IndexOf(m, r) : x[2] = r.index[i]
      <4>1. PICK x : x = <<Scope(m, r.index[i]), r.index[i]>>
        OBVIOUS
      <4>2. x \in IndexOf(m, r) /\ x[2] = r.index[i]
        BY <3>2, <4>1
      <4>3. QED
        BY <4>2
    <3>4. QED
      BY <3>1, <3>3
  <2>2. CASE r.index = <<>>
    <3>1. IndexNames(t) = a.index
      BY <1>1, <1>4, <2>2 DEF IndexNames
    <3>2. IndexOf(m, r) = {<<Scope(g, a.index[i]), a.index[i]>> : i \in DOMAIN a.index}
      BY <2>2 DEF IndexOf
    <3> HIDE DEF a, g
    <3>3. ASSUME NEW i \in DOMAIN a.index PROVE \E x \in IndexOf(m, r) : x[2] = a.index[i]
      <4>1. PICK x : x = <<Scope(g, a.index[i]), a.index[i]>>
        OBVIOUS
      <4>2. x \in IndexOf(m, r) /\ x[2] = a.index[i]
        BY <3>2, <4>1
      <4>3. QED
        BY <4>2
    <3>4. QED
      BY <3>1, <3>3
  <2>3. QED
    BY <2>1, <2>2
<1>6. \A x \in IndexOf(m, r) : x[1] \in job.handed /\ x[2] \in DOMAIN out /\ IsEntryOf(out[x[2]], x[1], x[2])
  BY <1>2, ObjectIsInOut DEF TidyRow
<1>7. \A i \in DOMAIN IndexNames(t) : IndexNames(t)[i] \in DOMAIN out
  BY <1>5, <1>6
<1>8. ~IndexesAreBad(t)
  BY <1>1, <1>4, <1>7, TableHasRow DEF IndexesAreBad
<1>9. \A e \in Indexes(t) : \E x \in IndexOf(m, r) : x[1] \in job.handed /\ IsEntryOf(e, x[1], x[2])
  BY <1>5, <1>6 DEF Indexes
<1>10. QED
  BY <1>8, <1>9

\* The columns of a table are those that its MIB has under its row.
LEMMA ColumnsAreOfTheRow ==
  ASSUME Collected, NEW t \in DOMAIN tables, NEW m, NEW r, IsRowOfTable(t, m, r)
  PROVE  /\ \A e \in ColumnsOf(t) : <<m, e.clause.name>> \in ColumnsIn(m, r.name) /\ IsEntryOf(e, m, e.clause.name)
         /\ ColumnsIn(m, r.name) # {} => ColumnsOf(t) # {}
<1>1. /\ m \in job.handed /\ r \in Clauses(m) /\ tables[t] = r.name /\ r.name \in DOMAIN tableRows
  BY DEF IsRowOfTable
<1>2. ASSUME NEW e \in ColumnsOf(t)
      PROVE  <<m, e.clause.name>> \in ColumnsIn(m, r.name) /\ IsEntryOf(e, m, e.clause.name)
  <2>1. PICK k \in DOMAIN tableRows[r.name].columns : e = tableRows[r.name].columns[k]
    BY <1>1 DEF ColumnsOf
  <2>2. IsOfClause(e) /\ e.clause.kind = "column" /\ e.clause.parent = r.name
    BY <1>1, <2>1 DEF Collected, Entries, NothingElse, RowIsOf
  <2>3. e.in \in job.handed /\ e.clause \in Clauses(e.in)
    BY <2>2 DEF IsOfClause
  <2>4. Before(e.in, r.name, e.clause, "row")
    BY <2>2, <2>3 DEF Collected, TidyClauses, TidyClause
  <2>5. PICK d \in Clauses(e.in) : d.name = r.name
    BY <2>4 DEF Before, Clauses
  <2>6. Sole(r.name)
    BY <1>1 DEF Collected, TidyClauses, TidyClause
  <2>7. e.in = m
    BY <1>1, <2>3, <2>5, <2>6, SameClause DEF Collected
  <2>8. QED
    BY <2>2, <2>3, <2>7 DEF ColumnsIn, IsEntryOf
<1>3. ASSUME ColumnsIn(m, r.name) # {} PROVE ColumnsOf(t) # {}
  <2>1. PICK c \in Clauses(m) : c.kind = "column" /\ c.parent = r.name
    BY <1>3 DEF ColumnsIn
  <2>2. \E k \in DOMAIN tableRows[r.name].columns : tableRows[r.name].columns[k].clause = c
    BY <1>1, <2>1 DEF Collected, AllVisited, Kept
  <2>3. QED
    BY <1>1, <2>2 DEF ColumnsOf
<1>4. QED
  BY <1>2, <1>3

\* genCTableFiles finds all fields of a table, with their types.
LEMMA TableEndsWell ==
  ASSUME PluginKnown, pc = "tables" => Collected
  PROVE  ~TableFails
<1> SUFFICES ASSUME pc = "tables", NEW t \in rest PROVE ~TableIsBad(t)
  BY DEF TableFails
<1>1. t \in DOMAIN tables /\ Collected
  BY DEF PluginKnown
<1>2. PICK m, r : IsRowOfTable(t, m, r)
  BY <1>1, TableHasRow
<1>3. /\ ~IndexesAreBad(t)
      /\ \A e \in Indexes(t) : \E x \in IndexOf(m, r) : x[1] \in job.handed /\ IsEntryOf(e, x[1], x[2])
  BY <1>1, <1>2, IndexesEndWell
<1>4. /\ \A e \in ColumnsOf(t) : <<m, e.clause.name>> \in ColumnsIn(m, r.name) /\ IsEntryOf(e, m, e.clause.name)
      /\ ColumnsIn(m, r.name) # {} => ColumnsOf(t) # {}
  BY <1>1, <1>2, ColumnsAreOfTheRow
<1>5. m \in job.handed /\ r \in Clauses(m) /\ r.parent = t /\ TidyRow(m, r)
  BY <1>1, <1>2 DEF IsRowOfTable, Collected, TidyClauses, TidyClause
<1>6. ASSUME Mapped(t) PROVE ColumnsOf(t) # {}
  BY <1>4, <1>5, <1>6 DEF TidyRow
<1>7. ASSUME NEW e \in Fields(t)
      PROVE  \E x \in IndexOf(m, r) \cup ColumnsIn(m, r.name) : x[1] \in job.handed /\ IsEntryOf(e, x[1], x[2])
  <2>1. CASE e \in Indexes(t)
    BY <1>3, <2>1
  <2>2. CASE e \in ColumnsOf(t)
    <3>1. PICK x : x = <<m, e.clause.name>>
      OBVIOUS
    <3>2. x[1] = m /\ x[2] = e.clause.name
      BY <3>1
    <3>3. QED
      BY <1>4, <1>5, <2>2, <3>1, <3>2
  <2>3. QED
    BY <1>7, <2>1, <2>2 DEF Fields
<1>8. ASSUME Mapped(t), NEW e \in Fields(t)
      PROVE  EntryType(e) # None /\ e.clause.name \in DOMAIN job.mapping[t]
  <2>1. PICK x \in IndexOf(m, r) \cup ColumnsIn(m, r.name) : x[1] \in job.handed /\ IsEntryOf(e, x[1], x[2])
    BY <1>7
  <2>2. x[2] \in DOMAIN job.mapping[t]
    BY <1>5, <1>8, <2>1 DEF TidyRow
  <2>3. EntryType(e) # None
    BY <1>1, <2>1, EntryHasType DEF IsEntryOf
  <2>4. QED
    BY <2>1, <2>2, <2>3 DEF IsEntryOf
<1>9. QED
  BY <1>3, <1>6, <1>8 DEF TableIsBad

\* genNotificationFile finds the objects of a trap, with OIDs and types.
LEMMA TrapEndsWell ==
  ASSUME Control, TrapsOfAll, pc = "traps" => Collected
  PROVE  ~TrapFails
<1> SUFFICES ASSUME pc = "traps", at <= Len(traps)
             PROVE  TrapStatus(traps[at]) = "done"
  BY DEF TrapFails
<1> DEFINE n == traps[at]
           e == out[n]
<1>1. Collected
  OBVIOUS
<1>2. at \in DOMAIN traps
  BY Appended DEF Control, TrapsOfAll
<1>3. PICK m, c : m \in job.handed /\ c \in Clauses(m) /\ c.kind = "notification" /\ c.name = n
  BY <1>2 DEF TrapsOfAll, IsTrap, Dead, Clauses
<1>4. TidyClause(m, c)
  BY <1>1, <1>3 DEF Collected, TidyClauses
<1>5. n \in DOMAIN out /\ e.in = m /\ e.clause = c
  <2>1. c.name \in DOMAIN out
    BY <1>1, <1>3 DEF Collected, AllVisited, Kept
  <2>2. Sole(c.name)
    BY <1>4 DEF TidyClause
  <2>3. QED
    BY <1>1, <1>3, <2>1, <2>2, EntryOfClause DEF Collected
<1>6. HasOwnObjects(e)
  BY <1>1, <1>5 DEF Collected, NothingElse, EntryIsOf
<1> HIDE DEF n, e
<1>7. ASSUME NEW i \in DOMAIN e.objects
      PROVE  LET o == e.objects[i]
             IN  /\ IsObject(o[1], o[2]) /\ OidStatus(o[1], o[2]) = "done"
                 /\ TypeOf(ClauseOf(o[1], o[2]).syntax) \in TrapTypes
  <2>1. i \in DOMAIN c.objects /\ e.objects[i] = <<Scope(m, c.objects[i]), c.objects[i]>>
    BY <1>3, <1>5, <1>6 DEF HasOwnObjects
  <2> DEFINE k == c.objects[i]
             g == Scope(m, k)
             d == ClauseOf(g, k)
  <2>2. /\ IsObject(g, k) /\ OidStatus(g, k) = "done" /\ SoleChain(g, d.syntax)
        /\ Reachable(g, d.syntax) /\ Lexical(CTypes, g, d.syntax) \in TrapTypes
    BY <1>4, <2>1 DEF TidyClause
  <2>3. g \in Known /\ d \in Clauses(g) /\ d.kind \in TypedKinds
    BY <2>2 DEF IsObject, Declares, ClauseOf, TypedKinds
  <2> HIDE DEF d, g, k
  <2>4. TypeOf(d.syntax) \in TrapTypes
    BY <1>1, <2>2, <2>3, TypeFound
  <2>5. e.objects[i] = <<g, k>>
    BY <2>1 DEF g, k
  <2>6. QED
    BY <2>2, <2>4, <2>5 DEF d
<1>8. QED
  BY <1>3, <1>5, <1>7 DEF TrapStatus, n, e

\* genJsonFile finds the tables it is asked for.
LEMMA TemplateEndsWell ==
  ASSUME Collected, TidyJob, NEW i \in DOMAIN job.json
  PROVE  ~TemplateIsBad(job.json[i])
<1> DEFINE t == job.json[i]
<1>1. PICK h, c : h \in job.handed /\ c \in Clauses(h) /\ c.name = t /\ c.kind = "table"
  BY DEF TidyJob
<1>2. t \in DOMAIN tables
  BY <1>1 DEF Collected, AllVisited, Kept
<1>3. PICK m, r : IsRowOfTable(t, m, r)
  BY <1>2, TableHasRow
<1>4. /\ ~IndexesAreBad(t)
      /\ \A e \in Indexes(t) : \E x \in IndexOf(m, r) : x[1] \in job.handed /\ IsEntryOf(e, x[1], x[2])
  BY <1>2, <1>3, IndexesEndWell
<1>5. \A e \in Indexes(t) : e.clause.kind \notin {"text", "type", "node"}
  BY <1>4 DEF IsEntryOf
<1>6. QED
  BY <1>2, <1>4, <1>5 DEF TemplateIsBad

\* Everything that generation fails by.
LEMMA DeadEnds ==
  ASSUME [Next]_vars, pc \notin Dead, pc' \in Dead
  PROVE  \/ ImportsEndBadly \/ ClauseFails \/ ScalarFails \/ TableFails \/ TrapFails
         \/ pc = "json" /\ \E i \in DOMAIN job.json : TemplateIsBad(job.json[i])
<1>1. ~GenImports /\ ~NextModule /\ ~AllModulesDone
  BY DEF GenImports, NextModule, AllModulesDone, Dead
<1>2. ~Visits
  BY VisitFrame
<1>3. ~Generates
  BY GenerateFrame DEF Generating, Dead
<1>4. GenJsonFile => pc = "json" /\ \E i \in DOMAIN job.json : TemplateIsBad(job.json[i])
  BY DEF GenJsonFile, Dead
<1>5. QED
  BY <1>1, <1>2, <1>3, <1>4 DEF Next, Visits, Generates, vars

\* A job in order does not fail.
LEMMA EndsWell ==
  ASSUME IInv, CustomTypesKnown, TidyJob, InOrder, [Next]_vars
  PROVE  pc' \notin Dead
<1>1. TidyClauses /\ ImportsAreTyped
  BY DEF TidyJob, TidyClauses
<1>2. pc \in Generating => Collected
  BY <1>1, AllIsVisited DEF IInv, Control, InOrder, Collected
<1>3. ~ImportsEndBadly
  BY <1>1, ImportsEndWell DEF IInv
<1>4. ~ClauseFails
  BY <1>1, ClauseEndsWell DEF IInv, InOrder
<1>5. ~ScalarFails
  BY <1>2, ScalarEndsWell DEF IInv, Generating
<1>6. ~TableFails
  BY <1>2, TableEndsWell DEF IInv, Generating
<1>7. ~TrapFails
  BY <1>2, TrapEndsWell DEF IInv, Generating
<1>8. pc = "json" => \A i \in DOMAIN job.json : ~TemplateIsBad(job.json[i])
  BY <1>2, TemplateEndsWell DEF Generating
<1>9. QED
  BY <1>3, <1>4, <1>5, <1>6, <1>7, <1>8, DeadEnds DEF InOrder

\* What a visit does to the collections, by the kind of the clause.
LEMMA WhatVisitsKeep ==
  ASSUME Visits
  PROVE  /\ Here.kind # "text"
         /\ Here.kind = "type" => customTypes' = Put(customTypes, Here.name, Here.syntax)
         /\ Here.kind # "type" => customTypes' = customTypes
         /\ Here.kind = "table" => tables' = Put(tables, Here.name, None)
         /\ Here.kind = "row" =>
              /\ HasPlace(Here)
              /\ tables' = Put(tables, Here.parent, Here.name)
              /\ tableRows' = Put(tableRows, Here.name,
                   [index |-> Here.index, augments |-> Here.augments, columns |-> <<>>])
              /\ out' = Overwrite(Put(out, Here.name, Entry(Here)),
                   [t \in {Here.index[i] : i \in DOMAIN Here.index} \cap FakeTypes |-> FakeEntry(t)])
         /\ Here.kind = "column" =>
              /\ HasPlace(Here)
              /\ tableRows' = [tableRows EXCEPT ![Here.parent].columns = Append(@, Entry(Here))]
         /\ Here.kind \notin {"table", "row"} => tables' = tables
         /\ Here.kind \notin {"row", "column"} => tableRows' = tableRows
         /\ Here.kind # "row" => out' = Put(out, Here.name, Entry(Here))
<1>1. CASE GenTypeDeclaration
  BY <1>1 DEF GenTypeDeclaration, Visit, Here
<1>2. CASE GenNode
  BY <1>2 DEF GenNode, Visit, Here
<1>3. CASE GenScalarCode
  BY <1>3 DEF GenScalarCode, Visit, Here
<1>4. CASE GenTableCode
  BY <1>4 DEF GenTableCode, Visit, Here
<1>5. CASE GenTableRowCode
  BY <1>5 DEF GenTableRowCode
<1>6. CASE GenTableColumnCode
  BY <1>6 DEF GenTableColumnCode, Visit, Here
<1>7. CASE GenNotificationType
  BY <1>7 DEF GenNotificationType, Visit, Here
<1>8. QED
  BY <1>1, <1>2, <1>3, <1>4, <1>5, <1>6, <1>7 DEF Visits

\* Other steps leave the collections alone, but for the imported types.
LEMMA OthersKeep ==
  ASSUME [Next]_vars, ~Visits
  PROVE  /\ UNCHANGED <<out, tables, tableRows>>
         /\ GenImports \/ customTypes' = customTypes
BY KindsOfSteps, GenerateFrame DEF DeadEnd, GenImports, NextModule, AllModulesDone, symbols, vars

\* The imports of a MIB stay in force while its clauses are visited.
LEMMA ImportsInForceStep ==
  ASSUME ImportsInForce, [Next]_vars, pc' \notin Dead
  PROVE  ImportsInForce'
<1>1. CASE GenImports
  BY <1>1 DEF GenImports, Overwrite, ImportsInForce
<1>2. CASE Visits
  BY <1>2, VisitFrame DEF ImportsInForce
<1>3. CASE NextModule \/ AllModulesDone \/ Generates
  <2>1. pc' # "clauses"
    BY <1>3, GenerateFrame DEF NextModule, AllModulesDone, Generating
  <2>2. QED
    BY <2>1 DEF ImportsInForce
<1>4. CASE UNCHANGED vars
  BY <1>4 DEF vars, symbols, ImportsInForce
<1>5. QED
  BY <1>1, <1>2, <1>3, <1>4, KindsOfSteps DEF DeadEnd

\* The objects of a clause are found where its own MIB has them from.
LEMMA OwnObjects ==
  ASSUME Control, ImportsKnown, ImportsInForce, TidyClauses, pc = "clauses", at <= Len(job.text[module])
  PROVE  HasOwnObjects(Entry(Here))
<1> DEFINE e == Entry(Here)
<1>1. /\ e.in = module /\ e.clause = Here
      /\ e.objects = [i \in DOMAIN Here.objects |-> <<ImportedFrom(Here.objects[i]), Here.objects[i]>>]
  BY DEF Entry
<1>2. TidyClause(module, Here)
  BY HereIsClause DEF Control, TidyClauses
<1>3. ASSUME NEW i \in DOMAIN Here.objects
      PROVE  ImportedFrom(Here.objects[i]) = Scope(module, Here.objects[i])
  <2> DEFINE n == Here.objects[i]
  <2>1. Sole(n) /\ IsObject(Scope(module, n), n)
    BY <1>2 DEF TidyClause
  <2>2. Scope(module, n) \in Users(n)
    BY <2>1 DEF IsObject, Declares, Users
  <2> HIDE DEF n
  <2>3. ImportedFrom(n) = Scope(module, n)
    BY <2>1, <2>2, ImportedFromIsScope
  <2>4. QED
    BY <2>3 DEF n
<1> HIDE DEF e
<1>4. QED
  BY <1>1, <1>3 DEF HasOwnObjects, e

-----------------------------------------------------------------------------
(* What is in order stays so.                                              *)

\* What an entry is of is a matter of the job.
LEMMA SameParts ==
  ASSUME job' = job
  PROVE  /\ \A n, v : TypeIsOf(n, v)' <=> TypeIsOf(n, v)
         /\ \A n, e : EntryIsOf(n, e)' <=> EntryIsOf(n, e)
         /\ \A t, r : TableIsOf(t, r)' <=> TableIsOf(t, r)
         /\ \A r, row : RowIsOf(r, row)' <=> RowIsOf(r, row)
<1>1. \A n, v : TypeIsOf(n, v)' <=> TypeIsOf(n, v)
  BY SameJob, SameNames DEF TypeIsOf
<1>2. \A n, e : EntryIsOf(n, e)' <=> EntryIsOf(n, e)
  BY SameJob DEF EntryIsOf, HasOwnObjects
<1>3. \A t, r : TableIsOf(t, r)' <=> TableIsOf(t, r)
  BY SameJob DEF TableIsOf, IsRowOf
<1>4. \A r, row : RowIsOf(r, row)' <=> RowIsOf(r, row)
  BY SameJob DEF RowIsOf, IsRow
<1>5. QED
  BY <1>1, <1>2, <1>3, <1>4

\* What is kept is of the clause at "at", or was kept before.
LEMMA NothingElseStep ==
  ASSUME Control, ImportsKnown, Entries, ImportsInForce, NothingElse, TidyClauses, [Next]_vars
  PROVE  NothingElse'
<1>1. job' = job
  BY JobStays
<1>2. /\ \A n \in DOMAIN customTypes : TypeIsOf(n, customTypes[n])
      /\ \A n \in DOMAIN out : EntryIsOf(n, out[n])
      /\ \A t \in DOMAIN tables : TableIsOf(t, tables[t])
      /\ \A r \in DOMAIN tableRows : RowIsOf(r, tableRows[r])
  BY DEF NothingElse
<1>3. CASE Visits
  <2>1. pc = "clauses" /\ at <= Len(job.text[module]) /\ module \in job.handed /\ Here \in Clauses(module)
    BY <1>3, VisitFrame, HereIsClause DEF Control
  <2>2. \A n \in DOMAIN customTypes' : TypeIsOf(n, customTypes'[n])
    <3>1. CASE Here.kind = "type"
      <4>1. ClauseOf(module, Here.name) = Here /\ Declares(module, Here.name)
        BY <2>1, ClauseByName DEF Control
      <4>2. TypeIsOf(Here.name, Here.syntax)
        BY <2>1, <3>1, <4>1 DEF TypeIsOf, IsType
      <4>3. customTypes' = Put(customTypes, Here.name, Here.syntax)
        BY <1>3, <3>1, WhatVisitsKeep
      <4>4. QED
        BY <1>2, <4>2, <4>3 DEF Put
    <3>2. CASE Here.kind # "type"
      BY <1>2, <1>3, <3>2, WhatVisitsKeep
    <3>3. QED
      BY <3>1, <3>2
  <2>3. \A n \in DOMAIN out' : EntryIsOf(n, out'[n])
    <3>1. EntryIsOf(Here.name, Entry(Here))
      BY <1>3, <2>1, WhatVisitsKeep, OwnObjects DEF EntryIsOf, Entry
    <3>2. CASE Here.kind = "row"
      <4> DEFINE made == {Here.index[i] : i \in DOMAIN Here.index} \cap FakeTypes
      <4>1. \A t \in made : EntryIsOf(t, FakeEntry(t))
        BY DEF EntryIsOf, FakeEntry, HasOwnObjects
      <4>2. out' = Overwrite(Put(out, Here.name, Entry(Here)), [t \in made |-> FakeEntry(t)])
        BY <1>3, <3>2, WhatVisitsKeep
      <4> HIDE DEF made
      <4>3. QED
        BY <1>2, <3>1, <4>1, <4>2 DEF Overwrite, Put
    <3>3. CASE Here.kind # "row"
      <4>1. out' = Put(out, Here.name, Entry(Here))
        BY <1>3, <3>3, WhatVisitsKeep
      <4>2. QED
        BY <1>2, <3>1, <4>1 DEF Put
    <3>4. QED
      BY <3>2, <3>3
  <2>4. \A t \in DOMAIN tables' : TableIsOf(t, tables'[t])
    <3>1. CASE Here.kind = "table"
      <4>1. TableIsOf(Here.name, None)
        BY <2>1, <3>1 DEF TableIsOf
      <4>2. tables' = Put(tables, Here.name, None)
        BY <1>3, <3>1, WhatVisitsKeep
      <4>3. QED
        BY <1>2, <4>1, <4>2 DEF Put
    <3>2. CASE Here.kind = "row"
      <4>1. tables' = Put(tables, Here.parent, Here.name) /\ Here.parent \in DOMAIN tables
        BY <1>3, <3>2, WhatVisitsKeep DEF HasPlace
      <4>2. TableIsOf(Here.parent, Here.name)
        BY <1>2, <2>1, <3>2, <4>1 DEF TableIsOf, IsRowOf
      <4>3. QED
        BY <1>2, <4>1, <4>2 DEF Put
    <3>3. CASE Here.kind \notin {"table", "row"}
      BY <1>2, <1>3, <3>3, WhatVisitsKeep
    <3>4. QED
      BY <3>1, <3>2, <3>3
  <2>5. \A r \in DOMAIN tableRows' : RowIsOf(r, tableRows'[r])
    <3>1. CASE Here.kind = "row"
      <4> DEFINE row == [index |-> Here.index, augments |-> Here.augments, columns |-> <<>>]
      <4>1. RowIsOf(Here.name, row)
        BY <2>1, <3>1 DEF RowIsOf, IsRow
      <4>2. tableRows' = Put(tableRows, Here.name, row)
        BY <1>3, <3>1, WhatVisitsKeep
      <4> HIDE DEF row
      <4>3. QED
        BY <1>2, <4>1, <4>2 DEF Put
    <3>2. CASE Here.kind = "column"
      <4> DEFINE r == Here.parent
                 row == tableRows[r]
                 columns == Append(row.columns, Entry(Here))
                 new == [index |-> row.index, augments |-> row.augments, columns |-> columns]
      <4>1. tableRows' = [tableRows EXCEPT ![r].columns = columns] /\ r \in DOMAIN tableRows
        BY <1>3, <3>2, WhatVisitsKeep DEF HasPlace
      <4>2. row = [index |-> row.index, augments |-> row.augments, columns |-> row.columns] /\ IsSequence(row.columns)
        BY <4>1 DEF Entries
      <4>3. /\ DOMAIN row.columns = 1 .. Len(row.columns) /\ Len(row.columns) \in Nat
            /\ DOMAIN columns = 1 .. Len(row.columns) + 1
            /\ \A i \in DOMAIN row.columns : columns[i] = row.columns[i]
            /\ columns[Len(row.columns) + 1] = Entry(Here)
        BY <4>2, Appended
      <4>4. RowIsOf(r, row) /\ Entry(Here).clause = Here
        BY <1>2, <4>1 DEF Entry
      <4> HIDE DEF columns
      <4>5. /\ DOMAIN tableRows' = DOMAIN tableRows /\ \A q \in DOMAIN tableRows : q # r => tableRows'[q] = tableRows[q]
            /\ tableRows'[r] = new
        <5>1. DOMAIN tableRows' = DOMAIN tableRows /\ \A q \in DOMAIN tableRows : q # r => tableRows'[q] = tableRows[q]
          BY <4>1
        <5>2. tableRows'[r] = new
          BY <4>1, <4>2
        <5>3. QED
          BY <5>1, <5>2
      <4> HIDE DEF new, row
      <4>6. \A k \in DOMAIN columns : columns[k].clause.kind = "column" /\ columns[k].clause.parent = r
        BY <3>2, <4>3, <4>4 DEF RowIsOf
      <4>7. RowIsOf(r, new)
        BY <4>4, <4>6 DEF RowIsOf, IsRow, new
      <4>8. QED
        BY <1>2, <4>1, <4>5, <4>7
    <3>3. CASE Here.kind \notin {"row", "column"}
      BY <1>2, <1>3, <3>3, WhatVisitsKeep
    <3>4. QED
      BY <3>1, <3>2, <3>3
  <2>6. QED
    BY <1>1, <2>2, <2>3, <2>4, <2>5, SameParts DEF NothingElse
<1>4. CASE ~Visits
  <2>1. UNCHANGED <<out, tables, tableRows>> /\ (GenImports \/ customTypes' = customTypes)
    BY <1>4, OthersKeep
  <2>2. \A n \in DOMAIN customTypes' : TypeIsOf(n, customTypes'[n])
    <3>1. CASE GenImports
      <4> DEFINE found == [t \in ImportedTypes(module) \ CTypes |-> BaseType(job.imports[module][t], t)]
      <4>1. customTypes' = Overwrite(customTypes, found) /\ BaseTypesOf(module) \subseteq CTypes
        BY <3>1 DEF GenImports
      <4>2. \A n \in DOMAIN found : found[n] \in CTypes
        BY <4>1 DEF BaseTypesOf
      <4> HIDE DEF found
      <4>3. QED
        BY <1>2, <4>1, <4>2 DEF Overwrite, TypeIsOf
    <3>2. CASE customTypes' = customTypes
      BY <1>2, <3>2
    <3>3. QED
      BY <2>1, <3>1, <3>2
  <2>3. QED
    BY <1>1, <1>2, <2>1, <2>2, SameParts DEF NothingElse
<1>5. QED
  BY <1>3, <1>4

\* What a visited clause comes after is not declared again.
LEMMA NotAgain ==
  ASSUME Control, TidyClauses, pc = "clauses", at <= Len(job.text[module]),
         NEW m \in job.handed, NEW i \in DOMAIN job.text[m], Visited(m, i),
         NEW kind, Before(m, job.text[m][i].parent, job.text[m][i], kind)
  PROVE  Here.name # job.text[m][i].parent
<1> DEFINE c == job.text[m][i]
<1> SUFFICES ASSUME Here.name = c.parent PROVE FALSE
  OBVIOUS
<1>1. PICK k \in DOMAIN job.text[m], j \in DOMAIN job.text[m] :
        k < j /\ job.text[m][k].name = c.parent /\ job.text[m][j] = c
  BY DEF Before
<1>2. j = i
  BY <1>1, NetSnmpCodeGenAssumption DEF Control
<1>3. Here \in Clauses(module) /\ module \in job.handed /\ Sole(Here.name)
  BY HereIsClause DEF Control, TidyClauses, TidyClause
<1>4. job.text[m][k] \in Clauses(m)
  BY DEF Clauses
<1> HIDE DEF c
<1>5. m = module
  BY <1>1, <1>3, <1>4, SameClause DEF Control
<1>6. k = at
  BY <1>1, <1>5, HereIsClause
<1>7. DOMAIN job.text[m] = 1 .. Len(job.text[m]) /\ Len(job.text[m]) \in Nat
  BY NetSnmpCodeGenAssumption DEF Control
<1>8. i < at
  BY <1>5 DEF Visited
<1>9. i \in Nat /\ k \in Nat
  BY <1>1, <1>7
<1>10. QED
  BY <1>1, <1>2, <1>6, <1>8, <1>9

\* What was kept of a visited clause stays.
LEMMA KeptStays ==
  ASSUME Control, Entries, TidyClauses, [Next]_vars,
         NEW m \in job.handed, NEW i \in DOMAIN job.text[m], Visited(m, i), Kept(job.text[m][i])
  PROVE  Kept(job.text[m][i])'
<1>1. job' = job
  BY JobStays
<1> DEFINE here == job.text[m][i]
<1>2. PICK c : c = here
  OBVIOUS
<1>3. Kept(c) /\ c \in Clauses(m) /\ c = job.text[m][i]
  BY <1>2 DEF Clauses
<1>4. SUFFICES Kept(c)'
  <2>1. here' = c
    BY <1>1, <1>2
  <2>2. QED
    BY <2>1 DEF Kept
<1> HIDE DEF here
<1>5. CASE ~Visits
  BY <1>3, <1>5, OthersKeep DEF Kept
<1>6. CASE Visits
  <2>1. pc = "clauses" /\ at <= Len(job.text[module]) /\ Here \in Clauses(module) /\ module \in job.handed
    BY <1>6, VisitFrame, HereIsClause DEF Control
  <2>2. TidyClause(m, c)
    BY <1>3 DEF TidyClauses
  <2>3. \A kind : Before(m, c.parent, c, kind) => Here.name # c.parent
    BY <1>3, <2>1, NotAgain
  <2>4. c.name \in DOMAIN out'
    BY <1>3, OutGrows DEF Kept
  <2>5. DOMAIN tables \subseteq DOMAIN tables'
    BY <1>6, WhatVisitsKeep DEF Put
  <2>6. DOMAIN tableRows \subseteq DOMAIN tableRows'
    BY <1>6, WhatVisitsKeep DEF Put
  <2>7. Here.name # None
    <3>1. module \in Known /\ job \in Jobs
      BY <2>1, ClauseByName DEF Control
    <3>2. \A h \in Known : \A d \in Clauses(h) : d.name # None
      BY <3>1, NamesAreResolved
    <3>3. QED
      BY <2>1, <3>1, <3>2
  <2>8. ASSUME c.kind = "row" PROVE c.parent \in DOMAIN tables' /\ tables'[c.parent] # None
    <3>1. c.parent \in DOMAIN tables /\ tables[c.parent] # None
      BY <1>3, <2>8 DEF Kept
    <3>2. Here.name # c.parent
      BY <2>2, <2>3, <2>8 DEF TidyClause, TidyRow
    <3>3. CASE Here.kind = "table"
      BY <1>6, <3>1, <3>2, <3>3, WhatVisitsKeep DEF Put
    <3>4. CASE Here.kind = "row"
      <4>1. tables' = Put(tables, Here.parent, Here.name)
        BY <1>6, <3>4, WhatVisitsKeep
      <4>2. QED
        BY <2>7, <3>1, <4>1 DEF Put
    <3>5. CASE Here.kind \notin {"table", "row"}
      BY <1>6, <3>1, <3>5, WhatVisitsKeep
    <3>6. QED
      BY <3>3, <3>4, <3>5
  <2>9. ASSUME c.kind = "column"
        PROVE  \E k \in DOMAIN tableRows'[c.parent].columns : tableRows'[c.parent].columns[k].clause = c
    <3> DEFINE row == tableRows[c.parent]
    <3>1. PICK k \in DOMAIN row.columns : row.columns[k].clause = c
      BY <1>3, <2>9 DEF Kept
    <3>2. c.parent \in DOMAIN tableRows
      BY <1>3, <2>9 DEF Kept
    <3>3. Here.name # c.parent
      BY <2>2, <2>3, <2>9 DEF TidyClause
    <3>4. CASE Here.kind = "row"
      <4>1. tableRows' = Put(tableRows, Here.name,
                           [index |-> Here.index, augments |-> Here.augments, columns |-> <<>>])
        BY <1>6, <3>4, WhatVisitsKeep
      <4>2. tableRows'[c.parent] = row
        BY <3>2, <3>3, <4>1 DEF Put
      <4>3. QED
        BY <3>1, <4>2
    <3>5. CASE Here.kind = "column"
      <4> DEFINE columns == Append(tableRows[Here.parent].columns, Entry(Here))
      <4>1. tableRows' = [tableRows EXCEPT ![Here.parent].columns = columns]
        BY <1>6, <3>5, WhatVisitsKeep
      <4>2. CASE Here.parent = c.parent
        <5>1. IsSequence(row.columns)
          BY <3>2 DEF Entries
        <5>2. /\ Len(row.columns) \in Nat /\ DOMAIN row.columns = 1 .. Len(row.columns)
              /\ DOMAIN columns = 1 .. Len(row.columns) + 1
              /\ \A l \in DOMAIN row.columns : columns[l] = row.columns[l]
          BY <4>2, <5>1, Appended
        <5>3. row = [index |-> row.index, augments |-> row.augments, columns |-> row.columns]
          BY <3>2 DEF Entries
        <5> HIDE DEF columns
        <5>4. tableRows'[c.parent].columns = columns
          BY <3>2, <4>1, <4>2, <5>3
        <5>5. k \in DOMAIN columns /\ columns[k] = row.columns[k]
          BY <3>1, <5>2
        <5>6. QED
          BY <3>1, <5>4, <5>5
      <4>3. CASE Here.parent # c.parent
        <5> HIDE DEF columns
        <5>1. tableRows'[c.parent] = row
          BY <3>2, <4>1, <4>3
        <5>2. QED
          BY <3>1, <5>1
      <4>4. QED
        BY <4>2, <4>3
    <3>6. CASE Here.kind \notin {"row", "column"}
      BY <1>6, <3>1, <3>6, WhatVisitsKeep
    <3>7. QED
      BY <3>4, <3>5, <3>6
  <2>10. QED
    BY <1>3, <2>4, <2>5, <2>6, <2>8, <2>9 DEF Kept
<1>7. QED
  BY <1>5, <1>6

\* The clause that is visited is kept.
LEMMA HereIsKept ==
  ASSUME Control, Entries, Visits, NEW c, c = Here
  PROVE  Kept(c)'
<1>1. /\ pc = "clauses" /\ at <= Len(job.text[module]) /\ Here \in Clauses(module) /\ module \in job.handed
      /\ job' = job /\ module' = module
  BY VisitFrame, HereIsClause DEF Control
<1>2. Here.name # None
  <2>1. module \in Known /\ job \in Jobs
    BY <1>1, ClauseByName DEF Control
  <2>2. \A h \in Known : \A d \in Clauses(h) : d.name # None
    BY <2>1, NamesAreResolved
  <2>3. QED
    BY <1>1, <2>1, <2>2
<1>3. c = Here
  OBVIOUS
<1>4. Here.name \in DOMAIN out'
  BY KindOfVisit
<1>5. Here.kind = "table" => Here.name \in DOMAIN tables'
  BY WhatVisitsKeep DEF Put
<1>6. Here.kind = "row" =>
        Here.name \in DOMAIN tableRows' /\ Here.parent \in DOMAIN tables' /\ tables'[Here.parent] # None
  BY <1>2, WhatVisitsKeep DEF Put
<1>7. ASSUME Here.kind = "column"
      PROVE  /\ Here.parent \in DOMAIN tableRows'
             /\ \E k \in DOMAIN tableRows'[Here.parent].columns : tableRows'[Here.parent].columns[k].clause = Here
  <2> DEFINE row == tableRows[Here.parent]
             columns == Append(row.columns, Entry(Here))
  <2>1. tableRows' = [tableRows EXCEPT ![Here.parent].columns = columns] /\ Here.parent \in DOMAIN tableRows
    BY <1>7, WhatVisitsKeep DEF HasPlace
  <2>2. IsSequence(row.columns) /\ row = [index |-> row.index, augments |-> row.augments, columns |-> row.columns]
    BY <2>1 DEF Entries
  <2>3. /\ Len(row.columns) \in Nat /\ DOMAIN columns = 1 .. Len(row.columns) + 1
        /\ columns[Len(row.columns) + 1] = Entry(Here)
    BY <2>2, Appended
  <2>4. Entry(Here).clause = Here
    BY DEF Entry
  <2> HIDE DEF columns
  <2>5. tableRows'[Here.parent].columns = columns /\ Here.parent \in DOMAIN tableRows'
    BY <2>1, <2>2
  <2>6. QED
    BY <2>3, <2>4, <2>5
<1>8. QED
  BY <1>3, <1>4, <1>5, <1>6, <1>7 DEF Kept

\* A step looks at most at the present MIB's imports, and forgets none.
LEMMA ImportsDoneStep ==
  ASSUME Control, [Next]_vars, pc' \notin Dead, NEW m \in job.handed, ImportsDone(m)'
  PROVE  ImportsDone(m) \/ (GenImports /\ m = module)
<1> USE DEF Reading, Generating, Dead
<1>1. CASE GenImports
  BY <1>1 DEF GenImports, ImportsDone
<1>2. CASE Visits
  BY <1>2, VisitFrame DEF ImportsDone
<1>3. CASE NextModule
  BY <1>3 DEF NextModule, ClausesDone, ImportsDone
<1>4. CASE AllModulesDone
  BY <1>4 DEF AllModulesDone, ClausesDone, ImportsDone
<1>5. CASE Generates
  BY <1>5, GenerateFrame DEF ImportsDone
<1>6. CASE UNCHANGED vars
  BY <1>6 DEF vars, ImportsDone
<1>7. CASE DeadEnd
  BY <1>7 DEF DeadEnd
<1>8. QED
  BY <1>1, <1>2, <1>3, <1>4, <1>5, <1>6, <1>7, KindsOfSteps

\* What is kept of a clause stays, and the next one is kept as well.
LEMMA AllIsKeptStep ==
  ASSUME Control, Entries, AllIsKept, TidyClauses, [Next]_vars, pc' \notin Dead
  PROVE  AllIsKept'
<1>1. job' = job
  BY JobStays
<1>2. ASSUME NEW m \in job.handed, NEW i \in DOMAIN job.text[m], Visited(m, i)'
      PROVE  Kept(job.text[m][i])'
  <2>1. Visited(m, i) \/ (Visits /\ m = module /\ i = at)
    BY <1>2, VisitedStep
  <2>2. CASE Visited(m, i)
    <3>1. Kept(job.text[m][i])
      BY <2>2 DEF AllIsKept
    <3>2. QED
      BY <2>2, <3>1, KeptStays
  <2>3. CASE Visits /\ m = module /\ i = at
    <3>1. PICK c : c = job.text[m][i]
      OBVIOUS
    <3>2. c = Here
      BY <2>3, <3>1 DEF Here
    <3>3. Kept(c)'
      BY <2>3, <3>2, HereIsKept
    <3> DEFINE here == job.text[m][i]
    <3>4. here' = c
      BY <1>1, <3>1
    <3>5. Kept(here)'
      <4> HIDE DEF here
      <4>1. QED
        BY <3>3, <3>4 DEF Kept
    <3>6. QED
      BY <3>5
  <2>4. QED
    BY <2>1, <2>2, <2>3
<1>3. ASSUME NEW m \in job.handed, ImportsDone(m)'
      PROVE  ImportedTypes(m) \ CTypes \subseteq DOMAIN customTypes'
  <2>1. ImportsDone(m) \/ (GenImports /\ m = module)
    BY <1>3, ImportsDoneStep
  <2>2. DOMAIN customTypes \subseteq DOMAIN customTypes'
    <3>1. CASE Visits
      BY <3>1, WhatVisitsKeep DEF Put
    <3>2. CASE GenImports
      BY <3>2 DEF GenImports, Overwrite
    <3>3. QED
      BY <3>1, <3>2, OthersKeep
  <2>3. CASE ImportsDone(m)
    BY <2>2, <2>3 DEF AllIsKept
  <2>4. CASE GenImports /\ m = module
    BY <2>4 DEF GenImports, Overwrite
  <2>5. QED
    BY <2>1, <2>3, <2>4
<1>4. \A m : ImportedTypes(m)' = ImportedTypes(m)
  BY <1>1, SameNames
<1>5. QED
  BY <1>1, <1>2, <1>3, <1>4 DEF AllIsKept

\* In order before a step, in order after it.
LEMMA InOrderStep ==
  ASSUME IInv, CustomTypesKnown, TidyJobKnown, [Next]_vars
  PROVE  TidyJobKnown'
<1>1. TidyJob' <=> TidyJob
  BY JobStays, SameTidy
<1> SUFFICES ASSUME TidyJob PROVE InOrder'
  BY <1>1 DEF TidyJobKnown
<1>2. InOrder /\ TidyClauses
  BY DEF TidyJobKnown, TidyJob, TidyClauses
<1>3. pc' \notin Dead
  BY <1>2, EndsWell
<1>4. ImportsInForce'
  BY <1>2, <1>3, ImportsInForceStep DEF InOrder
<1>5. AllIsKept'
  BY <1>2, <1>3, AllIsKeptStep DEF InOrder, IInv
<1>6. NothingElse'
  BY <1>2, NothingElseStep DEF InOrder, IInv
<1>7. QED
  BY <1>3, <1>4, <1>5, <1>6 DEF InOrder

\* A MIB is generated without an error or an exception, if its text and the texts
\* handed over with it are in order and default values list no bits (genDefVal
\* raises KeyError on those), whatever order addSymbolsFromImports takes the other
\* MIBs in: each handler of a clause finds what an earlier one has kept,
\* and genCFile, genCTableFiles, genNotificationFile and genJsonFile find all of it.
THEOREM TidyJobsAreGenerated == Spec => []TidyJobIsGenerated
<1>1. Init => CustomTypesKnown /\ TidyJobKnown
  <2> SUFFICES ASSUME Init PROVE CustomTypesKnown /\ InOrder
    BY DEF TidyJobKnown
  <2>1. pc \notin Dead /\ ImportsInForce
    BY DEF Init, Dead, ImportsInForce
  <2>2. /\ \A m \in job.handed : ~ImportsDone(m)
        /\ \A m \in job.handed : \A i \in DOMAIN job.text[m] : ~Visited(m, i)
    BY DEF Init, ImportsDone, Visited
  <2>3. AllIsKept
    BY <2>2 DEF AllIsKept
  <2>4. NothingElse /\ CustomTypesKnown
    BY DEF Init, Empty, NothingElse, CustomTypesKnown
  <2>5. QED
    BY <2>1, <2>3, <2>4 DEF InOrder
<1>2. IInv /\ CustomTypesKnown /\ TidyJobKnown /\ [Next]_vars => CustomTypesKnown' /\ TidyJobKnown'
  BY CustomTypesStep, InOrderStep DEF IInv
<1>3. TidyJobKnown => TidyJobIsGenerated
  BY DEF TidyJobKnown, InOrder, TidyJobIsGenerated, Dead
<1>4. QED
  BY <1>1, <1>2, <1>3, Always, PTL DEF Spec
==============================================================================
