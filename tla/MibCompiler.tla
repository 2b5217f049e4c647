---------------------------- MODULE MibCompiler ----------------------------
(***************************************************************************)
(* MibCompiler.compile: the stages a run of ops-snmpgen or mibdump goes    *)
(* through, from the names on the command line to the report of what       *)
(* became of them.  A source, a searcher, a borrower and a writer answer   *)
(* as they like; the texts are reduced to the modules a file declares and  *)
(* what these import.                                                      *)
(*                                                                         *)
(* mibsToParse is a set: a name that is in the list twice is skipped the   *)
(* second time, and the order only decides which name is read first.       *)
(*                                                                         *)
(* compile reads a file for ever if it declares only modules of other      *)
(* names and one of these imports the name the file was found under, which *)
(* is then neither parsed nor failed and goes back to the list (or if such *)
(* files lead to each other in a circle).  Terminates is checked for Files *)
(* without these.                                                          *)
(***************************************************************************)
EXTENDS Naturals

CONSTANTS
  Names,      \* MIB names
  Requested,  \* mibnames
  Original,   \* mibnames[0]
  Files,      \* what a source may hold for each name
  Sources,    \* the number of sources
  Tools       \* who calls compile: "ops-snmpgen", "mibdump"

\* A file declares modules, each with its imports; ok says that no error
\* follows them.
FileType == [modules: UNION {[D -> SUBSET Names] : D \in SUBSET Names}, ok: BOOLEAN]

ASSUME MibCompilerAssumption ==
  /\ Requested \subseteq Names /\ Original \in Requested
  /\ \A m \in Names : Files[m] \subseteq FileType
  /\ Sources \in Nat
  /\ Tools \subseteq {"ops-snmpgen", "mibdump"}

Options == [noDeps: BOOLEAN, ignoreErrors: BOOLEAN, dryRun: BOOLEAN, buildIndex: BOOLEAN, tool: Tools]

Statuses == {"compiled", "untouched", "failed", "unprocessed", "missing", "borrowed"}

VARIABLES
  options,
  mibsToParse,
  mibname,         \* the name being looked for, in the source with this number
  source,
  answered,        \* names for which a file was read to its end
  symbolTableMap,  \* modules with a symbol table, and what they import
  parsedMibs,
  failedMibs,
  borrowedMibs,
  builtMibs,       \* what waits to be written, and where it is from
  processed,       \* the report
  disk,            \* what the destination directory has of each MIB
  index,           \* and of the index: none, or one with these MIBs
  pc

reading == <<mibsToParse, mibname, source, answered, symbolTableMap>>
vars == <<options, reading, parsedMibs, failedMibs, borrowedMibs, builtMibs, processed, disk, index, pc>>

With(f, g) == [x \in DOMAIN f \cup DOMAIN g |-> IF x \in DOMAIN g THEN g[x] ELSE f[x]]

All(S, v) == [x \in S |-> v]

-----------------------------------------------------------------------------
(* Reading and parsing.                                                    *)

\* Variant: a name is read again although its module is parsed.
IsKnownFailed(m) == m \in failedMibs

IsKnown(m) == m \in parsedMibs \/ m \in failedMibs

NextName ==
  /\ pc = "parse"
  /\ \E m \in mibsToParse :
       /\ mibsToParse' = mibsToParse \ {m}
       /\ IF IsKnown(m)
            THEN UNCHANGED <<mibname, source, pc>>
            ELSE mibname' = m /\ source' = 1 /\ pc' = "read"
  /\ UNCHANGED <<options, index, answered, symbolTableMap, parsedMibs, failedMibs, borrowedMibs,
                 builtMibs, processed, disk>>

HasSource == source <= Sources

\* Variant: only the imports of the module looked for are followed.
ImportsOfNamed(f) == IF mibname \in DOMAIN f.modules THEN f.modules[mibname] ELSE {}

ImportsOf(f) == UNION {f.modules[m] : m \in DOMAIN f.modules}

\* Every module of the file gets its symbol table and is parsed.
Parsed(f) ==
  /\ symbolTableMap' = With(symbolTableMap, f.modules)
  /\ parsedMibs' = parsedMibs \cup DOMAIN f.modules
  /\ mibsToParse' = mibsToParse \cup ImportsOf(f)

ReadFile ==
  /\ pc = "read" /\ HasSource
  /\ \E f \in Files[mibname] :
       /\ f.ok
       /\ Parsed(f)
       /\ failedMibs' = IF DOMAIN f.modules = {} THEN failedMibs ELSE failedMibs \ {mibname}
  /\ answered' = answered \cup {mibname}
  /\ pc' = "parse"
  /\ UNCHANGED <<options, index, mibname, source, borrowedMibs, builtMibs, processed, disk>>

\* The error may follow modules that are parsed already; the next source is
\* tried.
ReadFails ==
  /\ pc = "read" /\ HasSource
  /\ \E f \in Files[mibname] : ~f.ok /\ Parsed(f)
  /\ failedMibs' = failedMibs \cup {mibname}
  /\ processed' = With(processed, All({mibname}, "failed"))
  /\ source' = source + 1
  /\ UNCHANGED <<options, index, mibname, answered, borrowedMibs, builtMibs, disk, pc>>

NotFound ==
  /\ pc = "read" /\ HasSource
  /\ source' = source + 1
  /\ UNCHANGED <<options, index, mibsToParse, mibname, answered, symbolTableMap, parsedMibs, failedMibs,
                 borrowedMibs, builtMibs, processed, disk, pc>>

SourcesExhausted ==
  /\ pc = "read" /\ ~HasSource
  /\ failedMibs' = failedMibs \cup {mibname}
  /\ processed' = With(All({mibname}, "missing"), processed)
  /\ pc' = "parse"
  /\ UNCHANGED <<options, index, reading, parsedMibs, borrowedMibs, builtMibs, disk>>

-----------------------------------------------------------------------------
(* Searchers and the generator.                                            *)

Excluded(m) == options.noDeps /\ m \notin Requested

\* The searchers find some of the MIBs transformed already.
SearchParsed ==
  /\ pc = "parse" /\ mibsToParse = {}
  /\ \E found \in SUBSET parsedMibs :
       LET dropped == {m \in parsedMibs : m \in found \/ Excluded(m)}
       IN  /\ parsedMibs' = parsedMibs \ dropped
           /\ processed' = With(processed, All(dropped, "untouched"))
  /\ pc' = "generate"
  /\ UNCHANGED <<options, index, reading, failedMibs, borrowedMibs, builtMibs, disk>>

\* What a write of this text leaves: os.write may store a part of it, when
\* the disk is full, and nobody looks at how much it was.
Written(text) == {text, "short"}

\* NetSnmpCodeGen writes its files itself, PySnmpCodeGen returns its text.
Generate ==
  /\ pc = "generate" /\ Original \in parsedMibs
  /\ \E text \in Written("generated") :
       disk' = IF options.tool = "ops-snmpgen" THEN With(disk, All({Original}, text)) ELSE disk
  /\ builtMibs' = With(builtMibs, All({Original}, "generated"))
  /\ parsedMibs' = parsedMibs \ {Original}
  /\ pc' = "borrow"
  /\ UNCHANGED <<options, index, reading, failedMibs, borrowedMibs, processed>>

\* Some of the files may have been written when the generator or the writer
\* gives up.
WrittenByThen ==
  IF options.tool = "ops-snmpgen" THEN {disk, With(disk, All({Original}, "partial"))} ELSE {disk}

\* Variant: the failure is not reported.
FailureUnreported == processed

Failure == With(processed, All({Original}, "failed"))

GenerateFails ==
  /\ pc = "generate" /\ Original \in parsedMibs
  /\ disk' \in WrittenByThen
  /\ processed' = Failure
  /\ failedMibs' = failedMibs \cup {Original}
  /\ parsedMibs' = parsedMibs \ {Original}
  /\ pc' = "borrow"
  /\ UNCHANGED <<options, index, reading, borrowedMibs, builtMibs>>

\* An exception that is no PySmiError leaves compile: the mapping file cannot
\* be opened, a table is none, and so on.
GenerateRaises ==
  /\ pc = "generate" /\ Original \in parsedMibs
  /\ disk' \in WrittenByThen
  /\ pc' = "exception"
  /\ UNCHANGED <<options, index, reading, parsedMibs, failedMibs, borrowedMibs, builtMibs, processed>>

\* parsedMibs[originalMib] of a MIB that is missing, failed or up to date.
NothingToGenerate ==
  /\ pc = "generate" /\ Original \notin parsedMibs
  /\ pc' = "KeyError"
  /\ UNCHANGED <<options, index, reading, parsedMibs, failedMibs, borrowedMibs, builtMibs, processed, disk>>

-----------------------------------------------------------------------------
(* Borrowing.                                                              *)

Borrow ==
  /\ pc = "borrow"
  /\ \E got \in SUBSET {m \in failedMibs : ~Excluded(m)} :
       /\ borrowedMibs' = got
       /\ failedMibs' = failedMibs \ got
  /\ pc' = "need borrowing"
  /\ UNCHANGED <<options, index, reading, parsedMibs, builtMibs, processed, disk>>

\* A borrowed MIB takes the place of a generated one.
SearchBorrowed ==
  /\ pc = "need borrowing"
  /\ \E found \in SUBSET borrowedMibs :
       LET dropped == {m \in borrowedMibs : m \in found \/ Excluded(m)}
           kept == borrowedMibs \ dropped
       IN  /\ builtMibs' = With(builtMibs, All(kept, "borrowed"))
           /\ processed' = With(processed, With(All(dropped, "untouched"), All(kept, "borrowed")))
  /\ borrowedMibs' = {}
  /\ pc' = "decide"
  /\ UNCHANGED <<options, index, reading, parsedMibs, failedMibs, disk>>

-----------------------------------------------------------------------------
(* Storing and reporting.                                                  *)

\* Variant: what was borrowed keeps its status.
WaivedGenerated == {m \in DOMAIN builtMibs : builtMibs[m] = "generated"}

Waived == DOMAIN builtMibs

\* Nothing is stored if a MIB failed, unless errors are ignored.
Refuse ==
  /\ pc = "decide" /\ failedMibs # {} /\ ~options.ignoreErrors
  /\ processed' = With(processed, All(Waived, "unprocessed"))
  /\ pc' = "refused"
  /\ UNCHANGED <<options, index, reading, parsedMibs, failedMibs, borrowedMibs, builtMibs, disk>>

Proceed ==
  /\ pc = "decide" /\ (failedMibs = {} \/ options.ignoreErrors)
  /\ pc' = "store"
  /\ UNCHANGED <<options, index, reading, parsedMibs, failedMibs, borrowedMibs, builtMibs, processed, disk>>

Without(f, m) == [x \in DOMAIN f \ {m} |-> f[x]]

\* putData of CFileWriter does nothing; a dry run of PyFileWriter neither.
Store ==
  /\ pc = "store"
  /\ \E m \in DOMAIN builtMibs : \E text \in Written(builtMibs[m]) :
       /\ disk' = IF options.tool = "mibdump" /\ ~options.dryRun
                    THEN With(disk, All({m}, text)) ELSE disk
       /\ processed' = With(All({m}, "compiled"), processed)
       /\ builtMibs' = Without(builtMibs, m)
  /\ UNCHANGED <<options, index, reading, parsedMibs, failedMibs, borrowedMibs, pc>>

\* Variant: a MIB that has a status keeps it.
StatusUnlessReported(m) == With(All({m}, "failed"), processed)

StatusOfUnwritten(m) == With(processed, All({m}, "failed"))

StoreFails ==
  /\ pc = "store" /\ options.tool = "mibdump" /\ ~options.dryRun
  /\ \E m \in DOMAIN builtMibs :
       /\ processed' = StatusOfUnwritten(m)
       /\ failedMibs' = failedMibs \cup {m}
       /\ builtMibs' = Without(builtMibs, m)
  /\ UNCHANGED <<options, index, reading, parsedMibs, borrowedMibs, disk, pc>>

\* mkstemp fails: the handler unlinks a name that is not bound, and that
\* exception leaves compile.
StoreRaises ==
  /\ pc = "store" /\ options.tool = "mibdump" /\ ~options.dryRun
  /\ DOMAIN builtMibs # {}
  /\ pc' = "exception"
  /\ UNCHANGED <<options, index, reading, parsedMibs, failedMibs, borrowedMibs, builtMibs, processed, disk>>

Return ==
  /\ pc = "store" /\ DOMAIN builtMibs = {}
  /\ pc' = "returned"
  /\ UNCHANGED <<options, index, reading, parsedMibs, failedMibs, borrowedMibs, builtMibs, processed, disk>>

-----------------------------------------------------------------------------
(* buildIndex, after compile has answered.                                 *)

\* The keys of the report that have an OID; they are plain names, and a name
\* has none.
Indexed == {}

BuildIndex ==
  /\ pc \in {"returned", "refused"} /\ options.buildIndex
  /\ index' = IF options.tool = "mibdump" /\ ~options.dryRun THEN {Indexed} ELSE index
  /\ pc' = "indexed"
  /\ UNCHANGED <<options, reading, parsedMibs, failedMibs, borrowedMibs, builtMibs, processed, disk>>

\* Before the index is stored, or when its bytecode cannot be, which removes it.
BuildIndexFails ==
  /\ pc \in {"returned", "refused"} /\ options.buildIndex
  /\ options.tool = "mibdump" /\ ~options.dryRun
  /\ index' \in {index, {}}
  /\ pc' = IF options.ignoreErrors THEN "indexed" ELSE "error"
  /\ UNCHANGED <<options, reading, parsedMibs, failedMibs, borrowedMibs, builtMibs, processed, disk>>

-----------------------------------------------------------------------------

Init ==
  /\ options \in Options
  /\ mibsToParse = Requested
  /\ mibname = Original
  /\ source = 1
  /\ answered = {}
  /\ symbolTableMap = [m \in {} |-> {}]
  /\ parsedMibs = {} /\ failedMibs = {} /\ borrowedMibs = {}
  /\ builtMibs = [m \in {} |-> "generated"]
  /\ processed = [m \in {} |-> "failed"]
  /\ disk = All(Names, "absent")
  /\ index = {}
  /\ pc = "parse"

Next ==
  \/ NextName \/ ReadFile \/ ReadFails \/ NotFound \/ SourcesExhausted
  \/ SearchParsed \/ Generate \/ GenerateFails \/ GenerateRaises \/ NothingToGenerate
  \/ Borrow \/ SearchBorrowed
  \/ Refuse \/ Proceed \/ Store \/ StoreFails \/ StoreRaises \/ Return
  \/ BuildIndex \/ BuildIndexFails

\* A sequential program that goes on while it can.
Spec == Init /\ [][Next]_vars /\ WF_vars(Next)

Ended == {"returned", "refused", "indexed", "error", "KeyError", "exception"}

-----------------------------------------------------------------------------
(* Properties.                                                             *)

TypeOK ==
  /\ options \in Options
  /\ mibsToParse \subseteq Names /\ mibname \in Names /\ source \in 1 .. Sources + 1
  /\ answered \subseteq Names
  /\ DOMAIN symbolTableMap \subseteq Names
  /\ \A m \in DOMAIN symbolTableMap : symbolTableMap[m] \subseteq Names
  /\ parsedMibs \subseteq DOMAIN symbolTableMap
  /\ failedMibs \subseteq Names /\ borrowedMibs \subseteq Names
  /\ DOMAIN builtMibs \subseteq Names
  /\ \A m \in DOMAIN builtMibs : builtMibs[m] \in {"generated", "borrowed"}
  /\ DOMAIN processed \subseteq Names /\ \A m \in DOMAIN processed : processed[m] \in Statuses
  /\ disk \in [Names -> {"absent", "partial", "short", "generated", "borrowed"}]
  /\ index \in {{}, {Indexed}}
  /\ pc \in Ended \cup {"parse", "read", "generate", "borrow", "need borrowing", "decide", "store"}

\* When the generator starts, every MIB that was requested or that a parsed
\* module imports has a symbol table, has failed, or was looked for in a
\* file that declares other modules: none was left out of the search.
NoImportIsForgotten ==
  pc = "generate" =>
    \A m \in Requested \cup UNION {symbolTableMap[d] : d \in DOMAIN symbolTableMap} :
      m \in DOMAIN symbolTableMap \cup failedMibs \cup answered

\* What the report calls compiled or borrowed has been stored, whatever
\* failed on the way; a dry run stores nothing, and ops-snmpgen stores
\* nothing that is borrowed.  A full disk may have cut the text short, which
\* nobody notices.
ReportedIsStored ==
  pc \in {"returned", "refused"} /\ ~options.dryRun =>
    \A m \in DOMAIN processed :
      /\ processed[m] = "compiled" => disk[m] \in Written("generated")
      /\ processed[m] = "borrowed" /\ options.tool = "mibdump" => disk[m] \in Written("borrowed")

\* A run that is given up because a MIB failed reports no success.
RefusedReportsNoSuccess ==
  pc = "refused" => \A m \in DOMAIN processed : processed[m] \notin {"compiled", "borrowed"}

\* The first MIB on the command line is always in the report.
OriginalIsReported == pc \in {"returned", "refused"} => Original \in DOMAIN processed

\* compile ends, however the modules import each other.
Terminates == <>(pc \in Ended)
=============================================================================
