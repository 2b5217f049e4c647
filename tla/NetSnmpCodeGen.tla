-------------------------- MODULE NetSnmpCodeGen --------------------------
(***************************************************************************)
(* How codegen/netsnmp.py makes C code of a MIB: the clauses of the main   *)
(* module are visited in the order of the text, then those of every other  *)
(* MIB that compile hands over, in the order of a dict; what they declare  *)
(* is collected by NAME, across modules; then the files are generated from *)
(* the collections: scalars, plugin, tables, traps.                        *)
(*                                                                         *)
(* The C text is abstracted to what can be wrong with it: of which object  *)
(* it is, with which OID and C type, and which functions are defined,      *)
(* declared and called.  Names are names after transOpers, types after     *)
(* typeClasses; SEQUENCE clauses and clauses of which nothing is generated *)
(* beyond their OID are nodes.                                             *)
(***************************************************************************)
EXTENDS Naturals, Sequences, FiniteSets

CONSTANTS
  Jobs,        \* the inputs of genCode that are looked at
  CTypes,      \* ctypeClasses: types that have a C type
  BaseTypes,   \* baseTypes: where the search for a default value's type ends
  TrapTypes,   \* notificationTypes: types a trap can carry
  FakeTypes,   \* smiv1IdxTypes: an INDEX may name one instead of a column
  Iso,         \* the root of the OID tree
  Depth,       \* bound: no chain of types or OIDs is longer
  None

\* A job: main, the MIB that is asked for; text, the clauses of each module,
\* in order; imports, the module each imported name comes from; known, the
\* modules in the symbol table, in the order of that dict; handed, those
\* compile hands over; mapping, the mapping file: for a scalar or a table, the
\* columns and the schema rows each is read from; json, the tables of
\* --jsonTables.
ASSUME NetSnmpCodeGenAssumption ==
  /\ BaseTypes \subseteq CTypes /\ Iso \notin CTypes /\ None \notin CTypes
  /\ \A j \in Jobs :
       /\ j.handed \subseteq DOMAIN j.text
       /\ j.main \in j.handed
       /\ \A m \in j.handed : DOMAIN j.text[m] = 1 .. Len(j.text[m]) /\ Len(j.text[m]) \in Nat
       /\ \A m \in j.handed : \A i \in DOMAIN j.text[m] :
            LET c == j.text[m][i]
            IN  \* MIBs that define C types are stubs, which compile hands over to nobody
                /\ c.name \notin CTypes
                \* the symbol table is made first, and refuses a name that a MIB declares
                \* twice, and a parent that the MIB neither declares nor imports
                /\ \A k \in DOMAIN j.text[m] : j.text[m][k].name = c.name => k = i
                /\ \/ c.kind = "type" \/ c.parent \in DOMAIN j.imports[m]
                   \/ \E k \in DOMAIN j.text[m] : j.text[m][k].name = c.parent
       /\ j.handed \subseteq {j.known[i] : i \in DOMAIN j.known}
       /\ IsFiniteSet(DOMAIN j.known)

\* Types and names, as the symbol table leaves them: Depth is no smaller than the
\* number of types; a syntax is a C type, or a name that the MIB imports or
\* declares; names of types are capitalised and those of objects are not, and
\* what else is declared has no syntax.  Columns that are made up for an INDEX
\* have names of their own; defval says whether the default value fits, or
\* lists bits.
ASSUME TypesAssumption ==
  /\ Depth \in Nat
  /\ None \notin TrapTypes /\ CTypes \cap {"crash", "loop"} = {}
  /\ \A j \in Jobs :
       LET modules == {j.known[i] : i \in DOMAIN j.known}
           clauses(m) == {j.text[m][i] : i \in DOMAIN j.text[m]}
           types == UNION {{<<m, c>> : c \in {c \in clauses(m) : c.kind = "type"}} : m \in modules}
       IN  /\ DOMAIN j.known = 1 .. Len(j.known) /\ Len(j.known) \in Nat
           /\ IsFiniteSet(types) /\ Cardinality(types) <= Depth
           /\ \A m \in modules : None \notin DOMAIN j.imports[m]
           /\ \A m \in j.handed : \A c \in clauses(m) :
                c.name \notin FakeTypes /\ c.defval \in {None, "fits", "unfit", "bits"}
           /\ \A m \in modules : \A c \in clauses(m) :
                /\ c.name # None
                /\ c.kind \in {"type", "scalar", "column"} =>
                     /\ \/ c.syntax \in CTypes \cup DOMAIN j.imports[m]
                        \/ \E d \in clauses(m) : d.name = c.syntax
                     /\ \A h \in modules : \A d \in clauses(h) :
                          d.name = c.syntax => d.kind = "type" \/ d.syntax = None

VARIABLES
  job,
  pc,
  module,       \* moduleName[0]: whose clauses are visited
  at,           \* the next clause, scalar or trap
  rest,         \* MIBs, then tables, still to be taken from a dict
  main_flag,    \* mainModuleFlag
  importMap,
  customTypes,  \* type name to base type
  out,          \* _out: what was declared last under a name
  tables,       \* table to its row
  tableRows,    \* row to its index, the row it augments, its columns
  scalars,      \* scalarSymbols
  traps,        \* notificationSymbols
  objids,       \* object of a trap to the module whose OID objid_<name> has
  emitted,      \* objects code was generated for
  calls,        \* init_<name> functions that ops_snmp_init calls
  defined,      \* init_<name> functions that are defined
  getters,      \* definitions of ovsdb_get_<name>: <<name, rows it takes>>
  declared,     \* declarations of them
  senders       \* definitions of send_<trap>: <<trap, module>>

symbols == <<importMap, customTypes, out, tables, tableRows, scalars, traps>>
code    == <<objids, emitted, calls, defined, getters, declared, senders>>
vars    == <<job, pc, module, at, rest, main_flag, symbols, code>>

-----------------------------------------------------------------------------
(* The symbol table.                                                       *)

Known == {job.known[i] : i \in DOMAIN job.known}

Clauses(m) == {job.text[m][i] : i \in DOMAIN job.text[m]}

Declares(m, n) == m \in Known /\ \E c \in Clauses(m) : c.name = n

ClauseOf(m, n) == CHOOSE c \in Clauses(m) : c.name = n

IsType(m, n) == Declares(m, n) /\ ClauseOf(m, n).kind = "type"

IsObject(m, n) == Declares(m, n) /\ ClauseOf(m, n).kind \in {"scalar", "column"}

\* The module a name means in the text of m, as the symbol table records it.
Scope(m, n) == IF n \in DOMAIN job.imports[m] THEN job.imports[m][n] ELSE m

\* Where the code follows names from one to the next: the names met.
Trail(Step(_), x) ==
  LET met[k \in 0 .. Depth] == IF k = 0 THEN {x} ELSE {Step(y) : y \in met[k - 1]}
  IN  met

LastOf(Step(_), x) == CHOOSE y \in Trail(Step, x)[Depth] : TRUE

\* getBaseType: from declaration to declaration, each in its module, up to a
\* type of "ends"; None if the symbol table lacks one.
Declaration(ends, x) ==
  LET there == Scope(x[1], x[2])
  IN  IF x[2] \in ends \/ ~IsType(there, x[2]) THEN x ELSE <<there, ClauseOf(there, x[2]).syntax>>

Lexical(ends, m, t) ==
  LET Step(x) == Declaration(ends, x)
      end == LastOf(Step, <<m, t>>)
  IN  IF end[2] \in ends THEN end[2] ELSE None

\* getBaseType goes round in a circle, up to the recursion limit.
Circular(m, t) ==
  LET Step(x) == Declaration(BaseTypes, x)
      end == LastOf(Step, <<m, t>>)
  IN  IsType(Scope(end[1], end[2]), end[2])

\* genNumericOid of a symbol: an unknown module or symbol is a semantic error,
\* a type has no OID (KeyError), a cycle exceeds the recursion limit.
ParentOf(x) ==
  IF x[2] = Iso \/ ~Declares(x[1], x[2]) \/ IsType(x[1], x[2]) THEN x
  ELSE LET parent == ClauseOf(x[1], x[2]).parent IN <<Scope(x[1], parent), parent>>

OidStatus(m, n) ==
  LET end == LastOf(ParentOf, <<m, n>>)
  IN  IF end[2] = Iso THEN "done" ELSE IF Declares(end[1], end[2]) THEN "crash" ELSE "failed"

-----------------------------------------------------------------------------
(* genImports.                                                             *)

\* getTypeFromSymbolTable: the first module of the dict that has the name.
FirstWith(n) ==
  job.known[CHOOSE i \in DOMAIN job.known :
              /\ Declares(job.known[i], n)
              /\ \A j \in 1 .. i - 1 : ~Declares(job.known[j], n)]

\* Variant: the loop looks at the module it started from alone.
BaseTypeThere(m, t) ==
  LET Step(n) == IF IsType(m, n) THEN ClauseOf(m, n).syntax ELSE n
      end == LastOf(Step, t)
  IN  IF end \in CTypes THEN end ELSE "loop"

\* getBaseTypeFromSymbolTable: the loop ends at a C type, with KeyError at a
\* symbol that has no syntax, and never for a name nobody declares.
SyntaxByName(n) ==
  IF n \in CTypes \cup {None} \/ \A m \in Known : ~Declares(m, n) THEN n
  ELSE ClauseOf(FirstWith(n), n).syntax

BaseType(m, t) ==
  LET end == LastOf(SyntaxByName, ClauseOf(m, t).syntax)
  IN  IF end \in CTypes THEN end ELSE IF end = None THEN "crash" ELSE "loop"

ImportedTypes(m) ==
  {t \in DOMAIN job.imports[m] : IsType(job.imports[m][t], t)}

BaseTypesOf(m) == {BaseType(job.imports[m][t], t) : t \in ImportedTypes(m)}

Overwrite(f, g) == [x \in DOMAIN f \cup DOMAIN g |-> IF x \in DOMAIN g THEN g[x] ELSE f[x]]

Put(f, x, v) == [y \in DOMAIN f \cup {x} |-> IF y = x THEN v ELSE f[y]]

\* importMap and customTypes are added to, from module to module.
GenImports ==
  /\ pc = "imports"
  /\ BaseTypesOf(module) \subseteq CTypes
  /\ importMap' = Overwrite(importMap, job.imports[module])
  /\ customTypes' = Overwrite(customTypes,
       [t \in ImportedTypes(module) \ CTypes |-> BaseType(job.imports[module][t], t)])
  /\ at' = 1
  /\ pc' = "clauses"
  /\ UNCHANGED <<job, module, rest, main_flag, out, tables, tableRows, scalars, traps, code>>

ImportsEndBadly ==
  /\ pc = "imports"
  /\ \E bad \in {"crash", "loop"} \cap BaseTypesOf(module) : pc' = bad
  /\ UNCHANGED <<job, module, at, rest, main_flag, symbols, code>>

-----------------------------------------------------------------------------
(* The clauses.                                                            *)

ImportedFrom(n) == IF n \in DOMAIN importMap THEN importMap[n] ELSE module

\* What is kept of a clause: its module, and what genOid makes of its parent.
\* Variant: the OID is left to the module's own names.
OwnEntry(c) == [in |-> module, clause |-> c, oid |-> <<module, c.parent>>, objects |-> <<>>]

Entry(c) ==
  [in |-> module, clause |-> c, oid |-> <<ImportedFrom(c.parent), c.parent>>,
   objects |-> [i \in DOMAIN c.objects |-> <<ImportedFrom(c.objects[i]), c.objects[i]>>]]

\* genDefVal: a default value needs the type of its object, and must fit it; for
\* a list of bits that does, item 1 of what genBits returns is a KeyError.
DefaultStatus(c) ==
  CASE c.defval = None -> "done"
    [] c.defval # None /\ Lexical(BaseTypes, module, c.syntax) = None ->
         IF Circular(module, c.syntax) THEN "crash" ELSE "failed"
    [] OTHER -> CASE c.defval = "fits" -> "done" [] c.defval = "bits" -> "crash" [] OTHER -> "failed"

\* prepData evaluates the OID before the handler runs.
Status(c) ==
  IF c.kind = "type" THEN "done"
  ELSE IF OidStatus(Entry(c).oid[1], c.parent) # "done" THEN OidStatus(Entry(c).oid[1], c.parent)
  ELSE DefaultStatus(c)

Visit(kind) ==
  /\ pc = "clauses" /\ at <= Len(job.text[module])
  /\ LET c == job.text[module][at]
     IN  /\ c.kind = kind
         /\ Status(c) = "done"
         /\ out' = Put(out, c.name, Entry(c))
  /\ at' = at + 1
  /\ UNCHANGED <<job, pc, module, rest, main_flag, importMap, code>>

Here == job.text[module][at]

GenTypeDeclaration ==
  /\ Visit("type")
  /\ customTypes' = Put(customTypes, Here.name, Here.syntax)
  /\ UNCHANGED <<tables, tableRows, scalars, traps>>

\* Identities, groups, compliances, capabilities, SMIv1 traps, value
\* declarations: an OID and no more.
GenNode ==
  /\ Visit("node")
  /\ UNCHANGED <<customTypes, tables, tableRows, scalars, traps>>

\* Variant: the flag is not asked about.
ScalarsAnyway(n) == Append(scalars, n)

ScalarsWith(n) == IF main_flag THEN Append(scalars, n) ELSE scalars

GenScalarCode ==
  /\ Visit("scalar")
  /\ scalars' = ScalarsWith(Here.name)
  /\ UNCHANGED <<customTypes, tables, tableRows, traps>>

GenTableCode ==
  /\ Visit("table")
  /\ tables' = Put(tables, Here.name, None)
  /\ UNCHANGED <<customTypes, tableRows, scalars, traps>>

\* A row or a column belongs to what its OID names, which must be there.
HasPlace(c) ==
  CASE c.kind = "row"    -> c.parent \in DOMAIN tables
    [] c.kind = "column" -> c.parent \in DOMAIN tableRows
    [] OTHER             -> TRUE

\* An INDEX that names a type stands for a made-up column, which is text.
FakeEntry(t) ==
  [in |-> module, clause |-> [kind |-> "text", name |-> t], oid |-> <<module, t>>, objects |-> <<>>]

GenTableRowCode ==
  /\ pc = "clauses" /\ at <= Len(job.text[module])
  /\ Here.kind = "row" /\ Status(Here) = "done" /\ HasPlace(Here)
  /\ tables' = Put(tables, Here.parent, Here.name)
  /\ tableRows' = Put(tableRows, Here.name,
       [index |-> Here.index, augments |-> Here.augments, columns |-> <<>>])
  /\ out' = Overwrite(Put(out, Here.name, Entry(Here)),
       [t \in {Here.index[i] : i \in DOMAIN Here.index} \cap FakeTypes |-> FakeEntry(t)])
  /\ at' = at + 1
  /\ UNCHANGED <<job, pc, module, rest, main_flag, importMap, customTypes, scalars, traps, code>>

GenTableColumnCode ==
  /\ Visit("column")
  /\ HasPlace(Here)
  /\ tableRows' = [tableRows EXCEPT ![Here.parent].columns = Append(@, Entry(Here))]
  /\ UNCHANGED <<customTypes, tables, scalars, traps>>

\* Variant: traps, like scalars, are those of the main MIB.
TrapsOfMain(n) == IF main_flag THEN Append(traps, n) ELSE traps

TrapsWith(n) == Append(traps, n)

GenNotificationType ==
  /\ Visit("notification")
  /\ traps' = TrapsWith(Here.name)
  /\ UNCHANGED <<customTypes, tables, tableRows, scalars>>

ClauseFails ==
  /\ pc = "clauses" /\ at <= Len(job.text[module])
  /\ \/ Status(Here) # "done" /\ pc' = Status(Here)
     \/ Status(Here) = "done" /\ ~HasPlace(Here) /\ pc' = "crash"
  /\ UNCHANGED <<job, module, at, rest, main_flag, symbols, code>>

ClausesDone == pc = "clauses" /\ at > Len(job.text[module])

\* addSymbolsFromImports takes the other MIBs in the order of a dict.
NextModule ==
  /\ ClausesDone
  /\ \E m \in rest :
       /\ module' = m
       /\ rest' = rest \ {m}
  /\ main_flag' = FALSE
  /\ pc' = "imports"
  /\ UNCHANGED <<job, at, symbols, code>>

\* genCode goes on with the files, or with the mapping template.
AllModulesDone ==
  /\ ClausesDone /\ rest = {}
  /\ module' = job.main
  /\ main_flag' = FALSE
  /\ at' = 1
  /\ pc' = IF job.json = <<>> THEN "scalars" ELSE "json"
  /\ UNCHANGED <<job, rest, symbols, code>>

-----------------------------------------------------------------------------
(* getObjTypeString.                                                       *)

\* One call: through customTypes, then through what was declared last under
\* the name; a name that is no C type by then must be a type of _out.
TypeStep(t) ==
  LET custom == IF t \in DOMAIN customTypes THEN customTypes[t] ELSE t
      last(n) == IF n \notin CTypes /\ n \in DOMAIN out /\ out[n].clause.kind = "type"
                   THEN out[n].clause.syntax ELSE n
      named == last(custom)
  IN  IF named \in CTypes THEN named
      ELSE IF named \in DOMAIN out /\ out[named].clause.kind = "type" THEN out[named].clause.syntax
      ELSE None

\* None is KeyError, or a cycle.
TypeOf(t) ==
  LET Step(n) == IF n \in CTypes \cup {None} THEN n ELSE TypeStep(n)
      end == LastOf(Step, TypeStep(t))
  IN  IF end \in CTypes THEN end ELSE None

\* Variant: the syntax is that of the last declaration of the name.
EntryTypeByName(e) ==
  LET c == out[e.clause.name].clause
  IN  IF c.kind \in {"scalar", "column"} THEN TypeOf(c.syntax) ELSE None

EntryType(e) == IF e.clause.kind \in {"scalar", "column"} THEN TypeOf(e.clause.syntax) ELSE None

\* Variant: the OID is that of the last declaration of the name.
EmittedByName(what, e) ==
  [what |-> what, name |-> e.clause.name, in |-> e.in, oid |-> out[e.clause.name].oid, type |-> EntryType(e)]

Emitted(what, e) == [what |-> what, name |-> e.clause.name, in |-> e.in, oid |-> e.oid, type |-> EntryType(e)]

-----------------------------------------------------------------------------
(* genCFile.                                                               *)

Mapped(n) == n \in DOMAIN job.mapping

GeneratedNames == {g[1] : g \in getters}

\* _out has another clause of this name meanwhile; a mapped scalar must have a
\* simple syntax and a type, and its entry must be one of a scalar.
ScalarIsBad(n) ==
  LET e == out[n]
  IN  \/ e.clause.kind \notin {"scalar", "column", "table", "row"}
      \/ Mapped(n) /\ (EntryType(e) = None \/ e.clause.syntax = "Bits" \/ n \notin DOMAIN job.mapping[n])

SkipScalar ==
  /\ pc = "scalars" /\ at <= Len(scalars)
  /\ ~ScalarIsBad(scalars[at]) /\ ~Mapped(scalars[at])
  /\ at' = at + 1
  /\ UNCHANGED <<job, pc, module, rest, main_flag, symbols, code>>

GenScalar ==
  /\ pc = "scalars" /\ at <= Len(scalars)
  /\ LET n == scalars[at]
         rows == job.mapping[n][n]
     IN  /\ Mapped(n) /\ ~ScalarIsBad(n)
         /\ emitted' = emitted \cup {Emitted("scalar", out[n])}
         /\ defined' = defined \cup {n}
         /\ getters' = getters \cup (IF n \in GeneratedNames THEN {} ELSE {<<n, rows>>})
         /\ declared' = declared \cup {<<n, rows>>}
  /\ at' = at + 1
  /\ UNCHANGED <<job, pc, module, rest, main_flag, symbols, objids, calls, senders>>

ScalarFails ==
  /\ pc = "scalars" /\ at <= Len(scalars)
  /\ ScalarIsBad(scalars[at])
  /\ pc' = "crash"
  /\ UNCHANGED <<job, module, at, rest, main_flag, symbols, code>>

MappedTables == {t \in DOMAIN tables : Mapped(t)}

\* The plugin: ops_snmp_init calls init_<name> for every scalar.
GenPlugin ==
  /\ pc = "scalars" /\ at > Len(scalars)
  /\ calls' = {scalars[i] : i \in DOMAIN scalars} \cup MappedTables
  /\ rest' = DOMAIN tables
  /\ pc' = "tables"
  /\ UNCHANGED <<job, module, at, main_flag, symbols, objids, emitted, defined, getters, declared, senders>>

-----------------------------------------------------------------------------
(* genCTableFiles.                                                         *)

\* getIndexesForTable; a row without an INDEX has that of the row it augments.
IndexNames(t) ==
  LET row == tableRows[tables[t]]
  IN  IF row.index # <<>> THEN row.index ELSE tableRows[row.augments].index

IndexesAreBad(t) ==
  \/ tables[t] = None
  \/ tableRows[tables[t]].index = <<>> /\ tableRows[tables[t]].augments \notin DOMAIN tableRows
  \/ \E i \in DOMAIN IndexNames(t) : IndexNames(t)[i] \notin DOMAIN out

Indexes(t) == {out[IndexNames(t)[i]] : i \in DOMAIN IndexNames(t)}

ColumnsOf(t) ==
  LET columns == tableRows[tables[t]].columns
  IN  {columns[i] : i \in DOMAIN columns}

\* A column that is an index is generated as an index.
Fields(t) ==
  Indexes(t) \cup {e \in ColumnsOf(t) : \A i \in DOMAIN IndexNames(t) : e.clause.name # IndexNames(t)[i]}

\* Every column of a mapped table must have a type and be in the mapping file.
TableIsBad(t) ==
  \/ IndexesAreBad(t)
  \/ Mapped(t) /\ \/ ColumnsOf(t) = {}
                  \/ \E e \in Fields(t) :
                       EntryType(e) = None \/ e.clause.name \notin DOMAIN job.mapping[t]

\* The functions that read the fields, as the header of the table declares them.
GettersOf(t) == {<<e.clause.name, job.mapping[t][e.clause.name]>> : e \in Fields(t)}

\* The indexes are asked for before it is known whether the table is mapped.
SkipTable ==
  /\ pc = "tables"
  /\ \E t \in rest :
       /\ ~TableIsBad(t) /\ ~Mapped(t)
       /\ rest' = rest \ {t}
  /\ UNCHANGED <<job, pc, module, at, main_flag, symbols, code>>

\* Variant: names that have a getter get another one.
NewGettersAgain(pairs) == pairs

NewGetters(pairs) == {p \in pairs : p[1] \notin GeneratedNames}

GenTable ==
  /\ pc = "tables"
  /\ \E t \in rest :
       /\ Mapped(t) /\ ~TableIsBad(t)
       /\ rest' = rest \ {t}
       /\ emitted' = emitted \cup {Emitted("column", e) : e \in Fields(t)}
       /\ defined' = defined \cup {t}
       /\ getters' = getters \cup NewGetters(GettersOf(t))
       /\ declared' = declared \cup GettersOf(t)
  /\ UNCHANGED <<job, pc, module, at, main_flag, symbols, objids, calls, senders>>

TableFails ==
  /\ pc = "tables"
  /\ {t \in rest : TableIsBad(t)} # {}
  /\ pc' = "crash"
  /\ UNCHANGED <<job, module, at, rest, main_flag, symbols, code>>

TablesDone ==
  /\ pc = "tables" /\ rest = {}
  /\ at' = 1
  /\ pc' = "traps"
  /\ UNCHANGED <<job, module, rest, main_flag, symbols, code>>

-----------------------------------------------------------------------------
(* genNotificationFile.                                                    *)

\* objid_<name> is defined once, with the OID of the first object of the name;
\* a trap's own objects of one name are all of one module.
ObjidsWith(objects) ==
  Overwrite([n \in {objects[i][2] : i \in DOMAIN objects} |->
               objects[CHOOSE i \in DOMAIN objects : objects[i][2] = n][1]],
            objids)

TrapStatus(n) ==
  LET e == out[n]
      objects == {e.objects[i] : i \in DOMAIN e.objects}
      oids == {OidStatus(o[1], o[2]) : o \in {o \in objects : o[2] \notin DOMAIN objids}}
  IN  IF e.clause.kind # "notification" \/ \E o \in objects : ~IsObject(o[1], o[2]) THEN "crash"
      ELSE IF "failed" \in oids THEN "failed"
      ELSE IF \E o \in objects : TypeOf(ClauseOf(o[1], o[2]).syntax) \notin TrapTypes THEN "crash"
      ELSE "done"

GenTrap ==
  /\ pc = "traps" /\ at <= Len(traps)
  /\ LET e == out[traps[at]]
     IN  /\ TrapStatus(traps[at]) = "done"
         /\ objids' = ObjidsWith(e.objects)
         /\ senders' = senders \cup {<<at, traps[at], e.in>>}
         /\ emitted' = emitted \cup
              {[what |-> "object", name |-> o[2], in |-> objids'[o[2]], oid |-> <<e.in, traps[at]>>,
                type |-> TypeOf(ClauseOf(o[1], o[2]).syntax)] :
                 o \in {e.objects[i] : i \in DOMAIN e.objects}}
  /\ at' = at + 1
  /\ UNCHANGED <<job, pc, module, rest, main_flag, symbols, calls, defined, getters, declared>>

TrapFails ==
  /\ pc = "traps" /\ at <= Len(traps)
  /\ TrapStatus(traps[at]) # "done"
  /\ pc' = TrapStatus(traps[at])
  /\ UNCHANGED <<job, module, at, rest, main_flag, symbols, code>>

\* genCustomFiles, and the end of genCode.
GenCustomFiles ==
  /\ pc = "traps" /\ at > Len(traps)
  /\ pc' = "done"
  /\ UNCHANGED <<job, module, at, rest, main_flag, symbols, code>>

-----------------------------------------------------------------------------
(* genJsonFile.                                                            *)

TemplateIsBad(t) ==
  \/ t \notin DOMAIN tables
  \/ IndexesAreBad(t)
  \/ \E e \in Indexes(t) : e.clause.kind \in {"text", "type", "node"}

GenJsonFile ==
  /\ pc = "json"
  /\ pc' = IF \E i \in DOMAIN job.json : TemplateIsBad(job.json[i]) THEN "crash" ELSE "done"
  /\ UNCHANGED <<job, module, at, rest, main_flag, symbols, code>>

-----------------------------------------------------------------------------

Empty == [x \in {} |-> None]

Init ==
  /\ job \in Jobs
  /\ pc = "imports" /\ module = job.main /\ at = 1
  /\ rest = job.handed \ {job.main}
  /\ main_flag = TRUE
  /\ importMap = Empty /\ customTypes = Empty /\ out = Empty
  /\ tables = Empty /\ tableRows = Empty /\ objids = Empty
  /\ scalars = <<>> /\ traps = <<>>
  /\ emitted = {} /\ calls = {} /\ defined = {} /\ getters = {} /\ declared = {} /\ senders = {}

Next ==
  \/ GenImports \/ ImportsEndBadly
  \/ GenTypeDeclaration \/ GenNode \/ GenScalarCode \/ GenTableCode \/ GenTableRowCode
  \/ GenTableColumnCode \/ GenNotificationType \/ ClauseFails \/ NextModule \/ AllModulesDone
  \/ SkipScalar \/ GenScalar \/ ScalarFails \/ GenPlugin
  \/ SkipTable \/ GenTable \/ TableFails \/ TablesDone
  \/ GenTrap \/ TrapFails \/ GenCustomFiles
  \/ GenJsonFile

Spec == Init /\ [][Next]_vars /\ WF_vars(Next)

-----------------------------------------------------------------------------
(* What the text means.                                                    *)

Final == {"done", "failed", "crash"}

\* A name that two MIBs declare, or import from two.
Sole(n) ==
  Cardinality({m \in Known : Declares(m, n)}
                \cup {job.imports[m][n] : m \in {m \in Known : n \in DOMAIN job.imports[m]}}) <= 1

Chain(m, t) ==
  LET Step(x) == Declaration(CTypes, x) IN UNION {Trail(Step, <<m, t>>)[k] : k \in 0 .. Depth}

SoleChain(m, t) == \A x \in Chain(m, t) : Sole(x[2])

ImportsAreTyped ==
  \A m \in job.handed : \A t \in ImportedTypes(m) :
    LET there == job.imports[m][t]
        syntax == ClauseOf(there, t).syntax
    IN  SoleChain(there, syntax) /\ Lexical(CTypes, there, syntax) # None

\* The type is declared over C types, and by MIBs whose clauses are visited, or
\* it is imported by one of those.
Reachable(m, t) ==
  /\ Lexical(CTypes, m, t) # None
  /\ \/ \A x \in Chain(m, t) : x[2] \in CTypes \/ Scope(x[1], x[2]) \in job.handed
     \/ \E h \in job.handed : t \in DOMAIN job.imports[h]

Before(m, parent, c, kind) ==
  \E i, j \in DOMAIN job.text[m] :
    i < j /\ job.text[m][i].name = parent /\ job.text[m][i].kind = kind /\ job.text[m][j] = c

\* The columns an index of row c of MIB m names.
IndexOf(m, c) ==
  IF c.index # <<>> THEN {<<Scope(m, c.index[i]), c.index[i]>> : i \in DOMAIN c.index}
  ELSE LET a == ClauseOf(Scope(m, c.augments), c.augments)
       IN  {<<Scope(Scope(m, c.augments), a.index[i]), a.index[i]>> : i \in DOMAIN a.index}

ColumnsIn(m, row) == {<<m, c.name>> : c \in {c \in Clauses(m) : c.kind = "column" /\ c.parent = row}}

\* What a row must be like for a table to be made of it.
TidyRow(m, c) ==
  /\ Before(m, c.parent, c, "table")
  /\ c.index = <<>> => /\ Declares(Scope(m, c.augments), c.augments)
                       /\ ClauseOf(Scope(m, c.augments), c.augments).kind = "row"
                       /\ Scope(m, c.augments) \in job.handed
  /\ \A x \in IndexOf(m, c) : x[1] \in job.handed /\ IsObject(x[1], x[2])
  /\ Mapped(c.parent) =>
       /\ ColumnsIn(m, c.name) # {}
       /\ \A x \in IndexOf(m, c) \cup ColumnsIn(m, c.name) : x[2] \in DOMAIN job.mapping[c.parent]

TidyClause(m, c) ==
  /\ Sole(c.name)
  /\ c.kind # "type" => OidStatus(Scope(m, c.parent), c.parent) = "done"
  /\ c.kind = "type" => c.syntax \in CTypes \/ Scope(m, c.syntax) \in job.handed
  /\ c.kind \in {"type", "scalar", "column"} => Reachable(m, c.syntax) /\ SoleChain(m, c.syntax)
  /\ c.defval = "fits" => Lexical(BaseTypes, m, c.syntax) # None
  /\ c.defval \notin {"unfit", "bits"}
  /\ c.kind = "scalar" /\ Mapped(c.name) => c.syntax # "Bits" /\ c.name \in DOMAIN job.mapping[c.name]
  /\ c.kind = "table" => \E r \in Clauses(m) : r.kind = "row" /\ r.parent = c.name
  /\ c.kind = "row" => TidyRow(m, c)
  /\ c.kind = "column" => Before(m, c.parent, c, "row")
  /\ \A i \in DOMAIN c.objects :
       LET n == c.objects[i]
           o == ClauseOf(Scope(m, n), n)
       IN  /\ IsObject(Scope(m, n), n) /\ OidStatus(Scope(m, n), n) = "done"
           /\ Sole(n) /\ SoleChain(Scope(m, n), o.syntax)
           /\ Reachable(Scope(m, n), o.syntax) /\ Lexical(CTypes, Scope(m, n), o.syntax) \in TrapTypes

TidyJob ==
  /\ ImportsAreTyped
  /\ \A m \in job.handed : \A c \in Clauses(m) : TidyClause(m, c)
  /\ \A i \in DOMAIN job.json : \E m \in job.handed : \E c \in Clauses(m) :
       c.name = job.json[i] /\ c.kind = "table"

-----------------------------------------------------------------------------
(* Properties.                                                             *)

\* Code for a scalar or a column has the C type its own MIB gives it, although
\* types are looked up by name across all MIBs: unless a name on the way is
\* declared by two of them.
TypesAsDeclared ==
  \A e \in emitted :
    LET c == ClauseOf(e.in, e.name)
    IN  SoleChain(e.in, c.syntax) /\ (e.what = "object" => Sole(e.name)) => e.type = Lexical(CTypes, e.in, c.syntax)

\* Code for a scalar or a column has the OID which its own MIB gives it, although
\* the imports of all MIBs and the entries of equal names are kept together:
\* unless two MIBs use the name of the parent. Code for a scalar is of a scalar
\* of the main MIB; unless another MIB declares the name too, its entry is.
OidsAsDeclared ==
  \A e \in emitted :
    LET c == ClauseOf(e.in, e.name)
    IN  /\ e.what # "object" /\ Sole(c.parent) => e.oid = <<Scope(e.in, c.parent), c.parent>>
        /\ e.what = "scalar" =>
             /\ \E k \in Clauses(job.main) : k.kind = "scalar" /\ k.name = e.name
             /\ e.in = job.main \/ \E m \in job.handed \ {job.main} : Declares(m, e.name)

\* Every notification of every MIB has one function that sends it, with the
\* OIDs of its own objects, unless two MIBs use the name, or the object is one
\* that another MIB imports and the MIB of the notification does not.
TrapsCarryTheirObjects ==
  /\ \A e \in emitted :
       e.what = "object" /\ Sole(e.name) /\ Declares(Scope(e.oid[1], e.name), e.name) => e.in = Scope(e.oid[1], e.name)
  /\ pc = "done" /\ job.json = <<>> =>
       \A m \in job.handed : \A c \in Clauses(m) :
         c.kind = "notification" /\ Sole(c.name) =>
           Cardinality({s \in senders : s[2] = c.name}) = 1 /\ \E s \in senders : s[2] = c.name /\ s[3] = m

\* The plugin initialises the scalars of the main MIB alone and the mapped
\* tables of every MIB, and everything that is initialised nowhere is a scalar
\* the mapping file leaves out.
PluginIsOfMain ==
  pc = "done" /\ job.json = <<>> =>
    /\ \A n \in calls : n \in DOMAIN tables \/ \E c \in Clauses(job.main) : c.name = n /\ c.kind = "scalar"
    /\ \A c \in Clauses(job.main) : c.kind = "scalar" => c.name \in calls
    /\ defined \subseteq calls
    /\ calls \ defined = {c.name : c \in {c \in Clauses(job.main) : c.kind = "scalar" /\ ~Mapped(c.name)}}

\* Every function that reads a column is defined exactly once, however many
\* tables share the column, and as each of them declares it, unless the mapping
\* file reads it from different rows for two tables.
GettersLink ==
  pc = "done" =>
    \A d \in declared :
      /\ Cardinality({g \in getters : g[1] = d[1]}) = 1
      /\ \/ d \in getters
         \/ \E x, y \in DOMAIN job.mapping :
              /\ d[1] \in DOMAIN job.mapping[x] \cap DOMAIN job.mapping[y]
              /\ job.mapping[x][d[1]] # job.mapping[y][d[1]]

\* A MIB is generated, without an error and without an exception, if its text
\* and those of the MIBs handed over are in order: OIDs and types resolve,
\* tables come before rows and rows before columns, index columns are in MIBs
\* that are handed over, default values fit and list no bits, and no two MIBs use
\* a name.
TidyJobIsGenerated == pc \in {"failed", "crash"} => ~TidyJob

\* Generation ends, if every imported type leads to a C type by names that are
\* declared once; otherwise the loop over the symbol table may go on forever.
GenerationEnds == <>(pc \in Final \/ (pc = "loop" /\ ~ImportsAreTyped))

\* The documentation: the scalars' file has the register functions of all the
\* scalars, which the plugin calls.
AllScalarsAreRegistered == pc = "done" => calls \subseteq defined
=============================================================================
