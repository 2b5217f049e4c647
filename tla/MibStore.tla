------------------------------ MODULE MibStore ------------------------------
(***************************************************************************)
(* The files a run of mibdump or ops-snmpgen touches, one system call at a *)
(* time: FileReader, HttpReader and FtpReader read the MIB and date it,    *)
(* PyFileSearcher, PyPackageSearcher and StubSearcher look for what is     *)
(* transformed already, PyFileBorrower fetches a transformed copy,         *)
(* PyFileWriter and CFileWriter store the text.  Runs share the            *)
(* destination directory; the MIB may be edited, a run may be killed and   *)
(* the disk may fill up at any point.  What compile decides about several  *)
(* MIBs is in MibCompiler: here it has the requested MIB, Main, and one it *)
(* imports, Dep, which is looked for but never generated.                  *)
(*                                                                         *)
(* The layout is that of Python 2: X.pyc lies next to X.py and begins with *)
(* a magic number and the modification time of X.py.                       *)
(***************************************************************************)
EXTENDS Naturals, Sequences, FiniteSets

CONSTANTS
  Runs,        \* runs that may be under way together
  Main, Dep,   \* the requested MIB and the one it imports
  None,        \* no such file
  Bad,         \* a bytecode file without the magic number
  Places,      \* 1..Places are the paths tried for Main, in the order they are tried
  East, West,  \* how far the local clock is ahead of GMT, or behind it
  Sites,       \* what the command lines may name: the reader ("file", "http", "ftp"), the
               \* place .index gives for Main (or 0), the package, the stubs, the options
  MaxTime, MaxEdits, MaxStarts, MaxKills  \* bounds

\* A transformed text: the version it is from (0 when borrowed), where and when
\* that was read, and whether all of it is there.
Texts == [of: Nat, from: Nat, since: Nat, state: {"partial", "short", "whole"}]

Text(of, from, since, state) == [of |-> of, from |-> from, since |-> since, state |-> state]

Borrowed == 0

\* The tool and its options.
CommandLines == [tool: {"mibdump", "ops-snmpgen"}, rebuild: BOOLEAN, pyCompile: BOOLEAN, dryRun: BOOLEAN]

ASSUME MibStoreAssumption ==
  /\ Main # Dep
  /\ None \notin [text: Texts, at: Nat]
  /\ {Places, East, West, MaxTime, MaxEdits, MaxStarts, MaxKills} \subseteq Nat
  /\ 0 \in {East, West}
  /\ \A s \in Sites : /\ s.origin \in {"file", "http", "ftp"}
                      /\ s.index \in 0..Places /\ (s.origin # "file" => s.index = 0)
                      /\ s.package.layout \in {"none", "directory", "egg"}
                      /\ s.stubs \subseteq {Main, Dep} /\ s.options \subseteq CommandLines

VARIABLES
  now,      \* the clock, in the seconds of the modification times
  copies,   \* the file at each place, or None: its version and its modification time
  version,  \* of the last edit
  site,     \* what does not change
  dir,      \* the destination directory exists
  py, pyc, c,  \* in it: X.py, X.pyc, X.c
  run,      \* each run: where it is and its local variables
  starts, kills,
  full,     \* the disk has been full
  installed, torn  \* X.c was stored once; a run stopped between its os.remove and os.rename

files == <<dir, py, pyc, c>>
bounds == <<starts, kills>>
past == <<full, installed, torn>>
vars == <<now, copies, version, site, files, run, bounds, past>>

Ends == {"idle", "compiled", "borrowed", "untouched", "failed", "killed",
         "KeyError", "TypeError", "UnboundLocalError", "IncompleteRead"}

Storing == {"mkstemp", "write", "rename", "compile", "bytecode", "isfile", "remove", "move", "format"}

Fresh == [at |-> "idle", options |-> None, seen |-> None, place |-> 0, mtime |-> 0, text |-> None,
          asked |-> <<>>, mangled |-> FALSE, judged |-> None, found |-> {}, temp |-> None,
          source |-> None, formatted |-> FALSE]

\* The record g with the changes f.
Merged(f, g) == [x \in DOMAIN f \cup DOMAIN g |-> IF x \in DOMAIN f THEN f[x] ELSE g[x]]

\* Run r goes on with these changes of its local variables.
Goto(r, changes) == run' = [run EXCEPT ![r] = Merged(changes, @)]

\* Run r ends, and leaves only these of its local variables to be asked about.
Stop(r, changes) == run' = [run EXCEPT ![r] = Merged(changes, Fresh)]

Fail(r, end) == Stop(r, [at |-> end])

At(r, place) == run[r].at = place

IsMibdump(r) == run[r].options.tool = "mibdump"

Init ==
  /\ now = 1 /\ version = 1
  /\ copies = [i \in 1..Places |-> [of |-> 1, at |-> 1]]
  /\ site \in Sites
  /\ dir = FALSE /\ py = None /\ pyc = None /\ c = None
  /\ run = [r \in Runs |-> Fresh]
  /\ starts = 0 /\ kills = 0
  /\ full = FALSE /\ installed = FALSE /\ torn = FALSE

-----------------------------------------------------------------------------
(* The surroundings: time, and the people who edit the MIB.                *)

Tick ==
  /\ now < MaxTime
  /\ now' = now + 1
  /\ UNCHANGED <<copies, version, site, files, run, bounds, past>>

Edit(i) ==
  /\ version <= MaxEdits
  /\ version' = version + 1
  /\ \E f \in {None, [of |-> version + 1, at |-> now]} :
       f # copies[i] /\ copies' = [copies EXCEPT ![i] = f]
  /\ UNCHANGED <<now, site, files, run, bounds, past>>

\* The command line.
Start(r) ==
  /\ run[r].at \in Ends /\ starts < MaxStarts
  /\ starts' = starts + 1
  /\ \E options \in site.options : Stop(r, [at |-> "stat", options |-> options])
  /\ UNCHANGED <<now, copies, version, site, files, kills, past>>

\* A run that is killed before it stores anything has changed nothing.
Kill(r) ==
  /\ run[r].at \in Storing /\ kills < MaxKills
  /\ kills' = kills + 1
  /\ Fail(r, "killed")
  /\ torn' = (torn \/ (installed /\ At(r, "move")))
  /\ UNCHANGED <<now, copies, version, site, files, starts, full, installed>>

-----------------------------------------------------------------------------
(* Readers.                                                                *)

\* getMibVariants: the name in .index is the only one tried.
Variants == IF site.index # 0 THEN {site.index} ELSE 1..Places

\* The names that may be read: of files the first there is, while a request that
\* fails is no reason not to try the next name.
Chosen == {i \in Variants : /\ copies[i] # None
                            /\ site.origin = "file" => \A j \in Variants : copies[j] # None => i <= j}

\* time.time() has a fraction, which makes it less than the next whole second and
\* no less: the number that compares with whole seconds as it does.
Clock == now + 1

\* What a reader may date a file. Last-Modified is in GMT and is taken for local
\* time, or is missing or malformed; the answer to MDTM is compared with a number
\* it never is.
Dates(f) ==
  CASE site.origin = "file" -> {f.at}
    [] site.origin = "http" -> {IF f.at + West > East THEN f.at + West - East ELSE 0, Clock}
    [] site.origin = "ftp"  -> {Clock}

\* What the searchers are asked for, in the order a dictionary has it, and the
\* text the generator would make of f.
Fetched(f, i) ==
  {[at |-> "search", asked |-> order, text |-> Text(f.of, i, now, "whole")] : order \in {<<Main, Dep>>, <<Dep, Main>>}}

\* os.stat or MDTM, and a request of its own for the contents; an HTTP response
\* has both.
Stat(r) ==
  /\ At(r, "stat")
  /\ \E i \in Chosen : \E mtime \in Dates(copies[i]) :
       /\ run[r].place < i
       /\ \E next \in IF site.origin = "http" THEN Fetched(copies[i], i) ELSE {[at |-> "open"]} :
            Goto(r, Merged(next, [place |-> i, seen |-> copies[i], mtime |-> mtime]))
  /\ UNCHANGED <<now, copies, version, site, files, bounds, past>>

\* No such MIB, or no server, or requests that failed: it is reported as missing,
\* and then looked up as the original.
NoSource(r) ==
  /\ At(r, "stat") /\ (site.origin = "file" => Chosen = {})
  /\ Fail(r, "KeyError")
  /\ UNCHANGED <<now, copies, version, site, files, bounds, past>>

\* The contents are read after the date, from what has the name then.
Open(r) ==
  /\ At(r, "open")
  /\ LET f == copies[run[r].place]
     IN  f # None /\ \E next \in Fetched(f, run[r].place) : Goto(r, next)
  /\ UNCHANGED <<now, copies, version, site, files, bounds, past>>

\* A file that cannot be opened any more, or at all, is "older than needed" and
\* not looked for elsewhere. RETR that fails goes on to the next name. The body of
\* an HTTP response is read outside of the try.
OpenFails(r) ==
  /\ \/ At(r, "open") /\ site.origin = "file" /\ Fail(r, "KeyError")
     \/ At(r, "open") /\ site.origin = "ftp" /\ Goto(r, [at |-> "stat", seen |-> None])
     \/ At(r, "stat") /\ site.origin = "http" /\ Chosen # {} /\ Fail(r, "IncompleteRead")
  /\ UNCHANGED <<now, copies, version, site, files, bounds, past>>

-----------------------------------------------------------------------------
(* Searchers.  For each MIB: the destination directory (X.pyc, then X.py), *)
(* the package, the stubs.  "newer" ends the search of the MIB, "absent"   *)
(* goes on to the next searcher, "TypeError" ends the run.                 *)

\* Variants: a second too generous, and a second too strict.
IsNewerLoosely(pyTime, mtime) == pyTime + 1 >= mtime

IsNewerStrictly(pyTime, mtime) == pyTime > mtime

IsNewer(pyTime, mtime) == pyTime >= mtime

\* PyFileSearcher on a bytecode file: the message about an older one has two
\* places and is given one argument.  "next" goes on to X.py.
BytecodeAnswer(f, mtime) ==
  CASE f \in {None, Bad} -> "next"
    [] OTHER -> IF IsNewer(f.stamp, mtime) THEN "newer" ELSE "TypeError"

SourceAnswer(f, mtime) == IF f # None /\ IsNewer(f.at, mtime) THEN "newer" ELSE "absent"

PyFileAnswer(b, s, mtime) ==
  IF BytecodeAnswer(b, mtime) = "next" THEN SourceAnswer(s, mtime) ELSE BytecodeAnswer(b, mtime)

\* PyPackageSearcher: a package directory is searched as a directory; an egg is
\* asked under its dotted name once, then its name has slashes and is no longer
\* importable.
PackageAnswer(m, r, mtime) ==
  LET p == site.package
      f == p.holds[m]
  IN  CASE run[r].options.rebuild -> "absent"
        [] p.layout = "none" -> "absent"
        [] p.layout = "directory" -> PyFileAnswer(f.pyc, f.py, mtime)
        [] p.layout = "egg" ->
             IF ~run[r].mangled /\ \/ f.pyc # None /\ IsNewer(f.pyc.stamp, mtime)
                                   \/ f.pyc = None /\ SourceAnswer(f.py, mtime) = "newer"
               THEN "newer" ELSE "absent"

IsMangled(r) == run[r].mangled \/ (site.package.layout = "egg" /\ site.package.dotted /\ ~run[r].options.rebuild)

\* Dep is as old as the first MIB, and has no file in the destination directory.
MtimeOf(m, r) == IF m = Main THEN run[r].mtime ELSE 1

\* The next MIB, or what follows the last one: Main is generated even when it was
\* found, and then is no longer in parsedMibs; a borrowed Main is just not stored.
Proceed(r, found, changes) ==
  LET rest == Tail(run[r].asked)
      next == CASE rest # <<>> -> "search"
                [] rest = <<>> /\ run[r].text.of = Borrowed -> IF Main \in found THEN "untouched" ELSE "store"
                [] OTHER -> IF Main \in found THEN "KeyError" ELSE "generate"
      reset == IF next \in {"generate", "store"}
                 THEN [seen |-> None, place |-> 0, mtime |-> 0, mangled |-> FALSE, found |-> {}]
                 ELSE [found |-> found]
  IN  Goto(r, Merged(reset, Merged(changes, [at |-> next, asked |-> rest])))

\* X.pyc of the destination directory; with rebuild it is as if it were old.  One
\* that cannot be opened ends the work of this searcher.
SearchBytecode(r) ==
  /\ At(r, "search")
  /\ LET m == Head(run[r].asked)
         answer == BytecodeAnswer(pyc, run[r].mtime)
     IN  \/ (m = Dep \/ run[r].options.rebuild \/ pyc # None) /\ Goto(r, [at |-> "package"])
         \/ /\ m = Main /\ ~run[r].options.rebuild
            /\ \/ answer = "next" /\ Goto(r, [at |-> "source"])
               \/ answer = "TypeError" /\ Fail(r, "TypeError")
               \/ answer = "newer" /\ Proceed(r, run[r].found \cup {Main}, [judged |-> pyc])
  /\ UNCHANGED <<now, copies, version, site, files, bounds, past>>

SearchSource(r) ==
  /\ At(r, "source")
  /\ IF SourceAnswer(py, run[r].mtime) = "newer"
       THEN Proceed(r, run[r].found \cup {Main}, [judged |-> py])
       ELSE Goto(r, [at |-> "package"])
  /\ UNCHANGED <<now, copies, version, site, files, bounds, past>>

\* StubSearcher takes no notice of rebuild.
SearchElsewhere(r) ==
  /\ At(r, "package")
  /\ LET m == Head(run[r].asked)
         answer == PackageAnswer(m, r, MtimeOf(m, r))
     IN  IF answer = "TypeError"
           THEN Fail(r, "TypeError")
           ELSE Proceed(r, IF answer = "newer" \/ m \in site.stubs THEN run[r].found \cup {m} ELSE run[r].found,
                        [mangled |-> IsMangled(r)])
  /\ UNCHANGED <<now, copies, version, site, files, bounds, past>>

-----------------------------------------------------------------------------
(* The generator and the borrowers.                                        *)

\* The MIB is reported as compiled or borrowed.
Finish(r) == Stop(r, [at |-> IF run[r].text.of = Borrowed THEN "borrowed" ELSE "compiled"])

Generate(r) ==
  /\ At(r, "generate")
  /\ Goto(r, [at |-> "store"])
  /\ UNCHANGED <<now, copies, version, site, files, bounds, past>>

\* ops-snmpgen has no borrowers; one for the other value of genTexts has nothing.
GenerateFails(r) ==
  /\ At(r, "generate")
  /\ \/ Fail(r, "failed")
     \/ /\ IsMibdump(r)
        /\ Goto(r, [at |-> "search", asked |-> <<Main>>, mtime |-> 1, found |-> {},
                    text |-> Text(Borrowed, 0, now, "whole")])
  /\ UNCHANGED <<now, copies, version, site, files, bounds, past>>

-----------------------------------------------------------------------------
(* Writers.                                                                *)

\* putData of a dry run returns; NetSnmpCodeGen, which writes its files while it
\* generates them, is not told of it. os.makedirs fails when another run has made
\* the directory since os.path.exists, or for reasons of its own.
CheckDirectory(r) ==
  /\ At(r, "store")
  /\ IF run[r].options.dryRun /\ IsMibdump(r)
       THEN Finish(r)
       ELSE Goto(r, [at |-> IF dir THEN "mkstemp" ELSE "makedirs"])
  /\ UNCHANGED <<now, copies, version, site, files, bounds, past>>

MakeDirectory(r) ==
  /\ At(r, "makedirs")
  /\ \/ ~dir /\ dir' = TRUE /\ Goto(r, [at |-> "mkstemp"])
     \/ UNCHANGED dir /\ Fail(r, "failed")
  /\ UNCHANGED <<now, copies, version, site, py, pyc, c, bounds, past>>

\* Variant: the old file goes before the text of the new one is written.
RemovesFirst(r) ==
  /\ At(r, "mkstemp")
  /\ \/ /\ Goto(r, [at |-> "write", temp |-> [text |-> [run[r].text EXCEPT !.state = "partial"], at |-> now]])
        /\ c' = IF IsMibdump(r) THEN c ELSE None
     \/ /\ Fail(r, "UnboundLocalError")
        /\ UNCHANGED c
  /\ UNCHANGED <<now, copies, version, site, dir, py, pyc, bounds, past>>

\* When mkstemp fails, the handler unlinks a name that was never bound.
MakeTemp(r) ==
  /\ At(r, "mkstemp")
  /\ \/ Goto(r, [at |-> "write", temp |-> [text |-> [run[r].text EXCEPT !.state = "partial"], at |-> now]])
     \/ Fail(r, "UnboundLocalError")
  /\ UNCHANGED <<now, copies, version, site, files, bounds, past>>

\* Variant: the file is opened under its own name and written in place.
WrittenInPlace(r) ==
  /\ At(r, "write")
  /\ Goto(r, [at |-> IF IsMibdump(r) THEN "rename" ELSE "isfile",
              temp |-> [text |-> run[r].text, at |-> now]])
  /\ IF IsMibdump(r)
       THEN py' = run[r].temp /\ UNCHANGED c
       ELSE c' = run[r].temp /\ UNCHANGED py
  /\ UNCHANGED <<now, copies, version, site, dir, pyc, bounds, past>>

\* os.write may store less than it was given when the disk is full, and nobody
\* looks at how much it stored.
WriteTemp(r) ==
  /\ At(r, "write")
  /\ \E state \in {run[r].text.state, "short"} :
       /\ Goto(r, [at |-> IF IsMibdump(r) THEN "rename" ELSE "isfile",
                   temp |-> [text |-> [run[r].text EXCEPT !.state = state], at |-> now]])
       /\ full' = (full \/ state = "short")
  /\ UNCHANGED <<now, copies, version, site, files, bounds, installed, torn>>

\* Writing or renaming raises an error: the temporary file is removed.
WriteFails(r) ==
  /\ run[r].at \in {"write", "rename", "remove", "move"}
  /\ Fail(r, "failed")
  /\ torn' = (torn \/ (installed /\ At(r, "move")))
  /\ UNCHANGED <<now, copies, version, site, files, bounds, full, installed>>

RenameSource(r) ==
  /\ At(r, "rename")
  /\ py' = run[r].temp
  /\ IF run[r].options.pyCompile THEN Goto(r, [at |-> "compile", temp |-> None]) ELSE Finish(r)
  /\ UNCHANGED <<now, copies, version, site, dir, pyc, c, bounds, past>>

\* py_compile.compile reads X.py and its date, which may be another run's by now,
\* and compiles it: a syntax error is ignored.  Then X.pyc is opened, without its
\* magic number until it is complete.
CompileSource(r) ==
  /\ At(r, "compile") /\ py # None
  /\ \/ pyc' = Bad /\ Goto(r, [at |-> "bytecode", source |-> py])
     \/ UNCHANGED pyc /\ Finish(r)
  /\ UNCHANGED <<now, copies, version, site, dir, py, c, bounds, past>>

BytecodeOf(f) == [text |-> f.text, stamp |-> f.at]

WriteBytecode(r) ==
  /\ At(r, "bytecode")
  /\ pyc' = BytecodeOf(run[r].source)
  /\ Finish(r)
  /\ UNCHANGED <<now, copies, version, site, dir, py, c, bounds, past>>

\* Any other error of the compilation: X.py goes, an older X.pyc stays.
CompileFails(r) ==
  /\ run[r].at \in {"compile", "bytecode"}
  /\ py' = None
  /\ Fail(r, "failed")
  /\ UNCHANGED <<now, copies, version, site, dir, pyc, c, bounds, past>>

\* CFileWriter: the old file is removed, which fails when another run was faster,
\* then the new one is renamed.
CheckFile(r) ==
  /\ At(r, "isfile")
  /\ Goto(r, [at |-> IF c = None THEN "move" ELSE "remove"])
  /\ UNCHANGED <<now, copies, version, site, files, bounds, past>>

RemoveFile(r) ==
  /\ At(r, "remove") /\ c # None
  /\ Goto(r, [at |-> "move"])
  /\ c' = None
  /\ UNCHANGED <<now, copies, version, site, dir, py, pyc, bounds, past>>

RenameFile(r) ==
  /\ At(r, "move")
  /\ c' = run[r].temp
  /\ IF run[r].formatted THEN Finish(r) ELSE Goto(r, [at |-> "format", temp |-> None])
  /\ installed' = TRUE
  /\ UNCHANGED <<now, copies, version, site, dir, py, pyc, bounds, full, torn>>

\* NetSnmpCodeGen.fileWrite: clang-format reads what has the name of the file by
\* now, and what it makes of it is written the same way; or it fails.
Format(r) ==
  /\ At(r, "format")
  /\ \/ Finish(r)
     \/ c # None /\ Goto(r, [at |-> "store", text |-> c.text, formatted |-> TRUE])
  /\ UNCHANGED <<now, copies, version, site, files, bounds, past>>

-----------------------------------------------------------------------------
RunStep(r) ==
  \/ Start(r) \/ Kill(r)
  \/ Stat(r) \/ NoSource(r) \/ Open(r) \/ OpenFails(r)
  \/ SearchBytecode(r) \/ SearchSource(r) \/ SearchElsewhere(r)
  \/ Generate(r) \/ GenerateFails(r)
  \/ CheckDirectory(r) \/ MakeDirectory(r) \/ MakeTemp(r) \/ WriteTemp(r) \/ WriteFails(r)
  \/ RenameSource(r) \/ CompileSource(r) \/ WriteBytecode(r) \/ CompileFails(r)
  \/ CheckFile(r) \/ RemoveFile(r) \/ RenameFile(r) \/ Format(r)

Next ==
  \/ Tick
  \/ \E i \in 1..Places : Edit(i)
  \/ \E r \in Runs : RunStep(r)

Spec == Init /\ [][Next]_vars

-----------------------------------------------------------------------------
(* Properties.                                                             *)

\* Files change only as a whole: what lies under a final name was written to its
\* end, except that it may be cut short once the disk has been full (the number
\* os.write returns is not looked at), whoever was killed in between.
WholeUnderFinalName ==
  \A f \in {py, c} \ {None} : /\ f.text.state # "partial"
                              /\ f.text.state = "short" => full

\* What a reader's clock may be wrong by.
Lag == IF site.origin = "http" THEN East ELSE 0

DateOf(f) == IF "stamp" \in DOMAIN f THEN f.stamp ELSE f.at

\* A MIB is reported as transformed already although it was edited since its text
\* was read only when the edit was made before that text was stored, or within the
\* seconds the clock is ahead of the server's: an edit the date of the file shows
\* is never overlooked.
OnlyRacingEditsAreMissed ==
  \A r \in Runs :
    LET judged == run[r].judged
        seen == run[r].seen
    IN  judged # None =>
          ( /\ run[r].text.of # Borrowed /\ judged.text.of # Borrowed
            /\ judged.text.from = run[r].place
            /\ judged.text.of < seen.of
            => seen.at \in judged.text.since .. DateOf(judged) + Lag )

\* A local MIB is not transformed again while it is unchanged: a run that looks at
\* a text of the very version it has seen at this place, whichever run stored it
\* and whenever, does not take it for an older one. (The date of a MIB from a
\* server may be the clock.)
IsOfSeen(f, r) ==
  f \notin {None, Bad} /\ f.text.of = run[r].seen.of /\ f.text.from = run[r].place

UnchangedIsFound ==
  [][\A r \in Runs :
       run[r].seen # None /\ site.origin = "file" /\ ~run[r].options.rebuild =>
         /\ At(r, "search") /\ Head(run[r].asked) = Main /\ IsOfSeen(pyc, r) => run'[r].at # "TypeError"
         /\ At(r, "source") /\ IsOfSeen(py, r) => run'[r].at # "package"]_vars

\* A C file that was generated once is absent only while a run is between removing
\* the old one and renaming the new one, or after a run stopped there.
CFileIsReplaced ==
  installed /\ c = None => torn \/ \E r \in Runs : At(r, "move")
=============================================================================
