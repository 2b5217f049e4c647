---------------------------- MODULE SymbolTable ----------------------------
(***************************************************************************)
(* The symbol table of one MIB, as codegen/symtable.py builds it: the      *)
(* clauses of the module are visited in the order of the text, and a       *)
(* symbol whose parents are not known yet is postponed and looked at again *)
(* whenever another one is registered.  The order of registration is the   *)
(* order in which the code generators emit the symbols.                    *)
(*                                                                         *)
(* Names are names after transOpers.  A clause gives a symbol (or only a   *)
(* SEQUENCE, which is none), its syntax, and the parents its OID names.    *)
(***************************************************************************)
EXTENDS Naturals, Sequences

CONSTANTS
  Names,         \* the symbols there are
  Declarations,  \* the clauses a module may consist of
  Imports,       \* what a module may import: from each module, a set of symbols
  BaseTypes,     \* baseTypes: names that need no declaration
  ModuleOrder,   \* the modules one can import from, sorted
  Convert,       \* convertImportv2: <<module, symbol>> to a set of such pairs
  ConstImports,  \* constImports: what is imported from each module anyway
  None           \* the clause has no such part

Modules == {ModuleOrder[i] : i \in DOMAIN ModuleOrder}

TableClasses == {"MibTable", "MibTableRow", "MibTableColumn"}

Clauses ==
  [name: Names,
   syntax: Names \cup {None},      \* the type; None for clauses without one
   table_of: Names \cup {None},    \* SEQUENCE OF: the row the table consists of
   augments: Names \cup {None},
   fakes: Seq(Names),              \* columns made up for the types an INDEX names
   oid: SUBSET Names,
   is_sequence: BOOLEAN]

ASSUME SymbolTableAssumption ==
  /\ Declarations \subseteq Clauses
  /\ Imports \subseteq [Modules -> SUBSET Names]
  /\ TableClasses \cap Names = {}
  /\ ConstImports \in [Modules -> SUBSET Names]
  /\ ModuleOrder \in Seq(Modules)
  /\ \A c \in DOMAIN Convert : Convert[c] \subseteq Modules \X Names
  /\ \A c \in DOMAIN Convert : Convert[c] \cap DOMAIN Convert = {}

VARIABLES
  visited,      \* the clauses of the module so far
  queue,        \* registrations the current clause still has to make
  importMap,    \* imported symbols, and the module each comes from
  rows,         \* names of table rows
  parentOids,   \* symbols that OIDs refer to
  out,          \* registered symbols, and the parents each was registered with
  symsOrder,
  postponed,    \* symbols that wait, and their parents
  scan,         \* postponed symbols the running pass has not looked at
  pc

table  == <<out, symsOrder, postponed>>
text   == <<visited, importMap, rows, parentOids>>
vars   == <<text, queue, table, scan, pc>>

-----------------------------------------------------------------------------
(* genImports.                                                             *)

Pairs(imports) == {p \in Modules \X Names : p[2] \in imports[p[1]]}

\* Symbols of SMIv1 modules are replaced by those of SMIv2, and what every
\* module needs is added.
Imported(imports) ==
  (Pairs(imports) \ DOMAIN Convert)
    \cup (UNION {Convert[c] : c \in Pairs(imports) \cap DOMAIN Convert})
    \cup Pairs(ConstImports)

\* The modules are taken in sorted order: the last one that has a symbol wins.
LastWith(pairs, s) ==
  CHOOSE i \in DOMAIN ModuleOrder :
    /\ <<ModuleOrder[i], s>> \in pairs
    /\ \A j \in DOMAIN ModuleOrder : <<ModuleOrder[j], s>> \in pairs => j <= i

ImportMap(imports) ==
  LET pairs == Imported(imports)
  IN  [s \in {p[2] : p \in pairs} |-> ModuleOrder[LastWith(pairs, s)]]

GenImports ==
  /\ pc = "imports"
  /\ \E imports \in Imports : importMap' = ImportMap(imports)
  /\ pc' = "clauses"
  /\ UNCHANGED <<visited, queue, rows, parentOids, table, scan>>

-----------------------------------------------------------------------------
(* A clause: what prepData and the handler make of it.                     *)

\* genConceptualTable, genRow, genSimpleSyntax: a row is known as one only
\* once its table has been visited.
SyntaxOf(c, known_rows) ==
  IF c.table_of # None THEN "MibTable"
  ELSE IF c.syntax \in known_rows THEN "MibTableRow"
  ELSE c.syntax

ParentsOf(c, known_rows) ==
  {p \in {SyntaxOf(c, known_rows), c.augments} : p # None}

\* The registrations of a clause, in order: the made-up columns, then the
\* symbol itself; none for a SEQUENCE.
Registrations(c, known_rows) ==
  IF c.is_sequence THEN <<>>
  ELSE Append([i \in 1 .. Len(c.fakes) |-> [symbol |-> c.fakes[i], parents |-> {}]],
              [symbol |-> c.name, parents |-> ParentsOf(c, known_rows)])

\* The next clause of the text may be any one.
VisitClause ==
  /\ pc = "clauses"
  /\ \E c \in Declarations :
       /\ visited' = visited \cup {c}
       /\ rows' = IF c.table_of = None THEN rows ELSE rows \cup {c.table_of}
       /\ parentOids' = parentOids \cup c.oid
       /\ queue' = Registrations(c, rows')
  /\ pc' = "register"
  /\ UNCHANGED <<importMap, table, scan>>

-----------------------------------------------------------------------------
(* regSym and regPostponedSyms.                                            *)

\* Variant: a postponed symbol counts as a parent.
AllParentsExistPostponed(parents) ==
  parents \subseteq DOMAIN out \cup DOMAIN importMap \cup BaseTypes \cup TableClasses
                      \cup rows \cup DOMAIN postponed

AllParentsExist(parents) ==
  parents \subseteq DOMAIN out \cup DOMAIN importMap \cup BaseTypes \cup TableClasses \cup rows

Extended(f, s, v) == [x \in DOMAIN f \cup {s} |-> IF x = s THEN v ELSE f[x]]

QueueDone ==
  /\ pc = "register" /\ queue = <<>>
  /\ pc' = "clauses"
  /\ UNCHANGED <<text, queue, table, scan>>

IsDuplicate(s) == s \in DOMAIN out \cup DOMAIN postponed

Duplicate ==
  /\ pc = "register" /\ queue # <<>>
  /\ IsDuplicate(Head(queue).symbol)
  /\ pc' = "duplicate symbol"
  /\ UNCHANGED <<text, queue, table, scan>>

\* The symbol enters the table, and a pass over the postponed ones begins.
Register ==
  /\ pc = "register" /\ queue # <<>>
  /\ LET r == Head(queue)
     IN  /\ ~IsDuplicate(r.symbol)
         /\ AllParentsExist(r.parents)
         /\ out' = Extended(out, r.symbol, r.parents)
         /\ symsOrder' = Append(symsOrder, r.symbol)
  /\ queue' = Tail(queue)
  /\ scan' = DOMAIN postponed
  /\ pc' = "pass"
  /\ UNCHANGED <<text, postponed>>

Postpone ==
  /\ pc = "register" /\ queue # <<>>
  /\ LET r == Head(queue)
     IN  /\ ~IsDuplicate(r.symbol)
         /\ ~AllParentsExist(r.parents)
         /\ postponed' = Extended(postponed, r.symbol, r.parents)
  /\ queue' = Tail(queue)
  /\ UNCHANGED <<text, out, symsOrder, scan, pc>>

\* One step of the pass over the dictionary, in any order.
Reconsider ==
  /\ pc = "pass"
  /\ \E s \in scan :
       /\ scan' = scan \ {s}
       /\ IF AllParentsExist(postponed[s])
            THEN /\ out' = Extended(out, s, postponed[s])
                 /\ symsOrder' = Append(symsOrder, s)
            ELSE UNCHANGED <<out, symsOrder>>
  /\ UNCHANGED <<text, queue, postponed, pc>>

\* Variant: the pass ends with every symbol off the dictionary.
StillPostponedNone == {}

StillPostponed == DOMAIN postponed \ DOMAIN out

\* There is one pass; what was registered in it is taken off the dictionary.
PassDone ==
  /\ pc = "pass" /\ scan = {}
  /\ postponed' = [s \in StillPostponed |-> postponed[s]]
  /\ pc' = "register"
  /\ UNCHANGED <<text, queue, out, symsOrder, scan>>

-----------------------------------------------------------------------------
(* The end of genCode.                                                     *)

UnknownOids == parentOids \ (DOMAIN out \cup DOMAIN importMap)

Finish ==
  /\ pc = "clauses"
  /\ pc' = IF DOMAIN postponed # {} THEN "unknown parents"
           ELSE IF UnknownOids # {} THEN "unknown parent symbol"
           ELSE "done"
  /\ UNCHANGED <<text, queue, table, scan>>

-----------------------------------------------------------------------------

Init ==
  /\ visited = {}
  /\ queue = <<>>
  /\ importMap = [x \in {} |-> None]
  /\ rows = {}
  /\ parentOids = {}
  /\ out = [x \in {} |-> {}]
  /\ symsOrder = <<>>
  /\ postponed = [x \in {} |-> {}]
  /\ scan = {}
  /\ pc = "imports"

Next ==
  \/ GenImports \/ VisitClause
  \/ QueueDone \/ Duplicate \/ Register \/ Postpone \/ Reconsider \/ PassDone
  \/ Finish

Spec == Init /\ [][Next]_vars

-----------------------------------------------------------------------------
(* Properties.                                                             *)

TypeOK ==
  /\ visited \subseteq Declarations
  /\ queue \in Seq([symbol: Names, parents: SUBSET (Names \cup TableClasses)])
  /\ DOMAIN importMap \subseteq Names
  /\ rows \subseteq Names /\ parentOids \subseteq Names
  /\ DOMAIN out \subseteq Names /\ DOMAIN postponed \subseteq Names
  /\ \A s \in DOMAIN out : out[s] \subseteq Names \cup TableClasses
  /\ \A s \in DOMAIN postponed : postponed[s] \subseteq Names \cup TableClasses
  /\ symsOrder \in Seq(Names)
  /\ scan \subseteq DOMAIN postponed
  /\ pc \in {"imports", "clauses", "register", "pass", "done", "duplicate symbol",
             "unknown parents", "unknown parent symbol"}

\* A symbol is generated after the symbols it is built from, whatever the
\* order of the clauses and of the dictionary: a generator that walks the
\* order never meets a type it has not emitted.
ParentsPrecede ==
  \A i \in DOMAIN symsOrder : \A p \in out[symsOrder[i]] :
    \/ p \in DOMAIN importMap \cup BaseTypes \cup TableClasses \cup rows
    \/ \E j \in 1 .. i - 1 : symsOrder[j] = p

\* The order names every registered symbol exactly once.
OrderIsOfTable ==
  /\ \A s \in DOMAIN out : \E i \in DOMAIN symsOrder : symsOrder[i] = s
  /\ \A i, j \in DOMAIN symsOrder : symsOrder[i] = symsOrder[j] => i = j

\* The order is a topological sort of the table: every registered symbol is in
\* it once, whether it was registered at once or postponed, and after what it
\* is built from.
OrderIsTopological == ParentsPrecede /\ OrderIsOfTable

\* The table of a module that is accepted has every symbol the module
\* declares, and every symbol an OID in it refers to is in it or imported:
\* no symbol is lost between the dictionary and the table.
AcceptedIsComplete ==
  pc = "done" =>
    \A c \in visited :
      /\ c.is_sequence \/ c.name \in DOMAIN out
      /\ c.oid \subseteq DOMAIN out \cup DOMAIN importMap

=============================================================================
