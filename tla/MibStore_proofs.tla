--------------------------- MODULE MibStore_proofs ---------------------------
(***************************************************************************)
(* Proofs about MibStore for any number of runs and places, any clock and  *)
(* every bound: nothing half-written gets a final name, an edit the date   *)
(* of the file shows is not overlooked, the text of an unchanged MIB is    *)
(* found by every run, and a C file is replaced.                           *)
(***************************************************************************)
EXTENDS MibStore, TLAPS

Locals == {"at", "options", "seen", "place", "mtime", "text", "asked", "mangled", "judged", "found",
           "temp", "source", "formatted"}

Sources == [text: Texts, at: Nat]

Bytecodes == [text: Texts, stamp: Nat]

\* Where a run is: nothing fetched yet, among the searchers, with a temporary
\* file, with one that is written.
Unread == Ends \cup {"stat", "open"}

Searching == {"search", "source", "package"}

WithTemp == {"write", "rename", "isfile", "remove", "move"}

Storage == {"store", "makedirs"} \cup Storing

Written == {"rename", "isfile", "remove", "move"}

Types ==
  /\ now \in Nat /\ version \in Nat /\ site \in Sites
  /\ DOMAIN copies = 1 .. Places
  /\ \A i \in 1 .. Places : copies[i] # None =>
       copies[i].of \in 1 .. version /\ copies[i].at \in 0 .. now
  /\ py \in Sources \cup {None} /\ c \in Sources \cup {None}
  /\ pyc \in Bytecodes \cup {None, Bad}
  /\ DOMAIN run = Runs
  /\ \A r \in Runs : /\ DOMAIN run[r] = Locals
                     /\ run[r].mtime \in Nat
                     /\ run[r].at = "open" => run[r].place \in 1 .. Places
                     /\ run[r].at \notin Unread => run[r].text \in Texts
                     /\ run[r].at \in WithTemp => run[r].temp \in Sources
                     /\ run[r].at = "bytecode" => run[r].source \in Sources

\* What a run has seen of the MIB is the version its place had then, no later than
\* the one it has now, and is dated up to the clock's lag.
SeenBefore ==
  \A r \in Runs : run[r].seen # None =>
    /\ run[r].at \in Searching \cup Ends \cup {"open"}
    /\ run[r].place \in 1 .. Places
    /\ run[r].seen.of \in 1 .. version /\ run[r].seen.at \in 0 .. now
    /\ copies[run[r].place] # None => run[r].seen.of <= copies[run[r].place].of
    /\ run[r].seen.at <= run[r].mtime + Lag
    /\ site.origin = "file" => run[r].mtime = run[r].seen.at

\* A run that opens the MIB or looks for its text has seen it, unless it borrows.
HasSeen ==
  \A r \in Runs : /\ run[r].at = "open" => run[r].seen # None
                  /\ run[r].at \in Searching => run[r].seen # None \/ run[r].text.of = Borrowed

\* Every later version of the MIB that is there, or that a run has seen, is of an
\* edit made since the text was read, and the same version of one before.
IsOfLater(text, f) ==
  /\ text.of < f.of => text.since <= f.at
  /\ text.of = f.of => f.at <= text.since

IsExplained(text, clock, last, present, readers) ==
  text.of # Borrowed =>
    /\ text.since <= clock /\ text.of <= last
    /\ \A i \in 1 .. Places :
         text.from = i /\ present[i] # None => IsOfLater(text, present[i])
    /\ \A r \in Runs :
         readers[r].seen # None /\ text.from = readers[r].place => IsOfLater(text, readers[r].seen)

Explained(text) == IsExplained(text, now, version, copies, run)

AllExplained ==
  /\ py # None => Explained(py.text)
  /\ c # None => Explained(c.text)
  /\ pyc \notin {None, Bad} => Explained(pyc.text)
  /\ \A r \in Runs :
       /\ run[r].at \notin Unread => Explained(run[r].text)
       /\ run[r].at \in WithTemp => Explained(run[r].temp.text)
       /\ run[r].at = "bytecode" => Explained(run[r].source.text)

\* A text is stored when it has been read.
ReadFirst(f) == f.text.of # Borrowed => f.text.since <= DateOf(f)

StoredLater ==
  /\ py # None => ReadFirst(py)
  /\ pyc \notin {None, Bad} => ReadFirst(pyc)
  /\ \A r \in Runs : /\ run[r].at \in WithTemp => ReadFirst(run[r].temp)
                     /\ run[r].at = "bytecode" => ReadFirst(run[r].source)

\* A text that was judged new is at least as new as the run has the MIB dated, and
\* then the run makes nothing of the MIB.
JudgedNew ==
  \A r \in Runs : run[r].judged # None =>
    /\ run[r].at \in Searching \cup {"KeyError", "untouched"}
    /\ Main \in run[r].found
    /\ run[r].judged \in Sources \cup Bytecodes
    /\ run[r].mtime <= DateOf(run[r].judged)
    /\ run[r].text.of # Borrowed => run[r].seen # None /\ Explained(run[r].judged.text)

IsWhole(text) == text.state # "partial" /\ (text.state = "short" => full)

Whole ==
  /\ \A f \in {py, c} \ {None} : IsWhole(f.text)
  /\ \A r \in Runs : /\ run[r].at \in Written => IsWhole(run[r].temp.text)
                     /\ run[r].at \notin Unread => IsWhole(run[r].text)

IInv == Types /\ SeenBefore /\ HasSeen /\ AllExplained /\ StoredLater /\ JudgedNew /\ Whole /\ CFileIsReplaced

-----------------------------------------------------------------------------
(* What a step does with the local variables of its run.                   *)

\* Only run r takes a step.
OthersWait(r) ==
  /\ DOMAIN run' = Runs /\ DOMAIN run'[r] = Locals
  /\ \A q \in Runs \ {r} : run'[q] = run[q]

Same(r, variables) == \A x \in variables : run'[r][x] = run[r][x]

LEMMA Went ==
  ASSUME Types, NEW r \in Runs, NEW changes, DOMAIN changes \subseteq Locals, Goto(r, changes)
  PROVE  /\ OthersWait(r)
         /\ Same(r, Locals \ DOMAIN changes)
         /\ \A x \in DOMAIN changes : run'[r][x] = changes[x]
BY DEF Types, Goto, Merged, OthersWait, Same

\* It ends without having stored anything.
Ended(r) ==
  /\ OthersWait(r)
  /\ run'[r].at \in Ends \ {"compiled", "borrowed"}
  /\ run'[r].seen = None /\ run'[r].judged = None /\ run'[r].mtime = 0

LEMMA Failed ==
  ASSUME Types, NEW r \in Runs, NEW end \in Ends \ {"compiled", "borrowed"}, Fail(r, end)
  PROVE  Ended(r)
BY DEF Types, Fail, Stop, Merged, Fresh, Ended, OthersWait, Locals

\* It ends having stored these files.
Finished(r) ==
  /\ OthersWait(r)
  /\ run'[r].at \in {"compiled", "borrowed"}
  /\ run'[r].seen = None /\ run'[r].judged = None
  /\ run'[r].mtime = 0

LEMMA Succeeded ==
  ASSUME Types, NEW r \in Runs, Finish(r)
  PROVE  Finished(r)
BY DEF Types, Finish, Stop, Merged, Fresh, Finished, OthersWait, Same, Locals

\* It has read the MIB at place i, or only its date.
Read(r, i) ==
  /\ OthersWait(r)
  /\ copies[i] # None /\ run'[r].place = i /\ Same(r, {"judged"})
  /\ \/ run'[r].at = "open"
     \/ run'[r].at = "search" /\ run'[r].text = Text(copies[i].of, i, now, "whole")

LEMMA StatReads ==
  ASSUME Types, NEW r \in Runs, Stat(r)
  PROVE  \E i \in 1 .. Places :
           Read(r, i) /\ run'[r].seen = copies[i] /\ run'[r].mtime \in Dates(copies[i])
<1>1. PICK i, mtime : /\ i \in Chosen /\ mtime \in Dates(copies[i])
                      /\ \E next \in IF site.origin = "http" THEN Fetched(copies[i], i) ELSE {[at |-> "open"]} :
                           Goto(r, Merged(next, [place |-> i, seen |-> copies[i], mtime |-> mtime]))
  BY DEF Stat
<1>2. i \in 1 .. Places /\ copies[i] # None
  BY <1>1, MibStoreAssumption DEF Chosen, Variants, Types
<1>3. PICK next \in IF site.origin = "http" THEN Fetched(copies[i], i) ELSE {[at |-> "open"]} :
        Goto(r, Merged(next, [place |-> i, seen |-> copies[i], mtime |-> mtime]))
  BY <1>1
<1>. DEFINE changes == Merged(next, [place |-> i, seen |-> copies[i], mtime |-> mtime])
<1>4. /\ DOMAIN changes \subseteq Locals \ {"judged"}
      /\ {"at", "place", "seen", "mtime"} \subseteq DOMAIN changes
      /\ changes.place = i /\ changes.seen = copies[i] /\ changes.mtime = mtime
      /\ \/ changes.at = "open"
         \/ /\ "text" \in DOMAIN changes
            /\ changes.at = "search" /\ changes.text = Text(copies[i].of, i, now, "whole")
  BY <1>3 DEF Fetched, Merged, Locals
<1>. HIDE DEF changes
<1>5. /\ OthersWait(r) /\ Same(r, Locals \ DOMAIN changes)
      /\ \A x \in DOMAIN changes : run'[r][x] = changes[x]
  BY <1>3, <1>4, Went DEF changes
<1>6. Read(r, i) /\ run'[r].seen = copies[i] /\ run'[r].mtime = mtime
  BY <1>2, <1>4, <1>5 DEF Read, Same, Locals
<1>7. QED
  BY <1>1, <1>2, <1>6

LEMMA OpenReads ==
  ASSUME Types, NEW r \in Runs, Open(r)
  PROVE  Read(r, run[r].place) /\ Same(r, {"seen", "mtime"})
<1>1. PICK next \in Fetched(copies[run[r].place], run[r].place) : Goto(r, next)
  BY DEF Open
<1>2. /\ DOMAIN next = {"at", "asked", "text"} /\ next.at = "search"
      /\ next.text = Text(copies[run[r].place].of, run[r].place, now, "whole")
  BY DEF Fetched
<1>3. OthersWait(r) /\ Same(r, Locals \ DOMAIN next) /\ \A x \in DOMAIN next : run'[r][x] = next[x]
  BY <1>1, <1>2, Went DEF Locals
<1>4. QED
  BY <1>2, <1>3 DEF Open, Read, Same, Locals

\* It has asked one searcher: with this judgement it goes on among them or ends with
\* an exception, or it goes on without one.
Judged(r) ==
  /\ OthersWait(r) /\ run[r].at \in Searching
  /\ run'[r].at \in Searching \cup {"KeyError", "untouched"}
  /\ Same(r, {"mtime", "text", "seen", "place"})
  /\ run[r].found \subseteq run'[r].found
  /\ \/ Same(r, {"judged"})
     \/ Main \in run'[r].found /\ run'[r].judged \in ({py} \ {None}) \cup ({pyc} \ {None, Bad})
        /\ run[r].mtime <= DateOf(run'[r].judged)

NothingFound(r) ==
  /\ OthersWait(r) /\ run[r].at \in Searching
  /\ run'[r].at \in {"generate", "store"}
  /\ Same(r, {"text", "judged"})
  /\ Main \notin run[r].found /\ run'[r].seen = None /\ run'[r].mtime = 0

LEMMA Proceeded ==
  ASSUME Types, NEW r \in Runs, NEW found, NEW changes, DOMAIN changes \subseteq {"judged", "mangled"},
         Proceed(r, found, changes)
  PROVE  /\ OthersWait(r) /\ Same(r, {"text"})
         /\ "judged" \in DOMAIN changes => run'[r].judged = changes.judged
         /\ "judged" \notin DOMAIN changes => Same(r, {"judged"})
         /\ \/ /\ run'[r].at \in {"search", "KeyError", "untouched"}
               /\ run'[r].found = found /\ Same(r, {"seen", "place", "mtime"})
            \/ /\ run'[r].at \in {"generate", "store"}
               /\ Main \notin found /\ run'[r].seen = None /\ run'[r].mtime = 0
<1>. DEFINE rest == Tail(run[r].asked)
            next == CASE rest # <<>> -> "search"
                      [] rest = <<>> /\ run[r].text.of = Borrowed -> IF Main \in found THEN "untouched" ELSE "store"
                      [] OTHER -> IF Main \in found THEN "KeyError" ELSE "generate"
            reset == IF next \in {"generate", "store"}
                       THEN [seen |-> None, place |-> 0, mtime |-> 0, mangled |-> FALSE, found |-> {}]
                       ELSE [found |-> found]
            all == Merged(reset, Merged(changes, [at |-> next, asked |-> rest]))
<1>1. Goto(r, all)
  BY DEF Proceed
<1>2. \/ next \in {"search", "KeyError", "untouched"}
      \/ next \in {"generate", "store"} /\ Main \notin found
  OBVIOUS
<1>. HIDE DEF next, rest
<1>3. CASE next \in {"search", "KeyError", "untouched"}
  <2>1. DOMAIN all = {"found", "at", "asked"} \cup DOMAIN changes
    BY <1>3 DEF Merged
  <2>2. /\ all.at = next /\ all.found = found
        /\ "judged" \in DOMAIN changes => all.judged = changes.judged
    BY <1>3 DEF Merged
  <2>. HIDE DEF all
  <2>3. OthersWait(r) /\ Same(r, Locals \ DOMAIN all) /\ \A x \in DOMAIN all : run'[r][x] = all[x]
    BY <1>1, <2>1, Went DEF Locals
  <2>4. QED
    BY <1>3, <2>1, <2>2, <2>3 DEF Same, Locals
<1>4. CASE next \in {"generate", "store"} /\ Main \notin found
  <2>1. DOMAIN all = {"seen", "place", "mtime", "mangled", "found", "at", "asked"} \cup DOMAIN changes
    BY <1>4 DEF Merged
  <2>2. /\ all.at = next /\ all.seen = None /\ all.mtime = 0
        /\ "judged" \in DOMAIN changes => all.judged = changes.judged
    BY <1>4 DEF Merged
  <2>. HIDE DEF all
  <2>3. OthersWait(r) /\ Same(r, Locals \ DOMAIN all) /\ \A x \in DOMAIN all : run'[r][x] = all[x]
    BY <1>1, <2>1, Went DEF Locals
  <2>4. QED
    BY <1>4, <2>1, <2>2, <2>3 DEF Same, Locals
<1>5. QED
  BY <1>2, <1>3, <1>4
\* It goes on storing.
StoresOn(r) ==
  /\ OthersWait(r)
  /\ run[r].at \in {"generate"} \cup Storage /\ run'[r].at \in Storage
  /\ Same(r, {"seen", "place", "mtime", "text", "judged"})

\* It looks for a transformed copy to borrow.
Borrows(r) ==
  /\ OthersWait(r)
  /\ run[r].at = "generate" /\ run'[r].at = "search"
  /\ run'[r].text = Text(Borrowed, 0, now, "whole") /\ run'[r].mtime = 1
  /\ Same(r, {"seen", "judged"})

\* RETR has failed.
Retries(r) ==
  /\ OthersWait(r)
  /\ run[r].at = "open" /\ run'[r].at = "stat" /\ run'[r].seen = None
  /\ Same(r, {"mtime", "judged"})

\* It writes what clang-format has made of the file.
Rewrites(r) ==
  /\ OthersWait(r)
  /\ run[r].at = "format" /\ run'[r].at = "store"
  /\ c # None /\ run'[r].text = c.text
  /\ Same(r, {"seen", "place", "mtime", "judged"})

LEMMA OpenFailed ==
  ASSUME Types, NEW r \in Runs, OpenFails(r)
  PROVE  Ended(r) \/ Retries(r)
<1>1. CASE Fail(r, "KeyError") \/ Fail(r, "IncompleteRead")
  BY <1>1, Failed DEF Ends
<1>2. CASE At(r, "open") /\ Goto(r, [at |-> "stat", seen |-> None])
  <2>. DEFINE changes == [at |-> "stat", seen |-> None]
  <2>1. /\ OthersWait(r) /\ Same(r, Locals \ DOMAIN changes)
        /\ \A x \in DOMAIN changes : run'[r][x] = changes[x]
    BY <1>2, Went DEF Locals
  <2>2. QED
    BY <1>2, <2>1 DEF Retries, Same, Locals, At
<1>3. QED
  BY <1>1, <1>2 DEF OpenFails

LEMMA Formatted ==
  ASSUME Types, NEW r \in Runs, Format(r)
  PROVE  Finished(r) \/ Rewrites(r)
<1>1. CASE Finish(r)
  BY <1>1, Succeeded
<1>2. CASE c # None /\ Goto(r, [at |-> "store", text |-> c.text, formatted |-> TRUE])
  <2>. DEFINE changes == [at |-> "store", text |-> c.text, formatted |-> TRUE]
  <2>1. /\ OthersWait(r) /\ Same(r, Locals \ DOMAIN changes)
        /\ \A x \in DOMAIN changes : run'[r][x] = changes[x]
    BY <1>2, Went DEF Locals
  <2>2. QED
    BY <1>2, <2>1 DEF Format, Rewrites, Same, Locals, At
<1>3. QED
  BY <1>1, <1>2 DEF Format

LEMMA BytecodeSearched ==
  ASSUME Types, NEW r \in Runs, SearchBytecode(r)
  PROVE  Judged(r) \/ NothingFound(r) \/ Ended(r)
<1>1. run[r].at \in Searching
  BY DEF SearchBytecode, At, Searching
<1>2. CASE Goto(r, [at |-> "package"]) \/ Goto(r, [at |-> "source"])
  <2>1. PICK at \in {"package", "source"} : Goto(r, [at |-> at])
    BY <1>2
  <2>2. /\ OthersWait(r) /\ Same(r, Locals \ {"at"}) /\ run'[r].at = at
    BY <2>1, Went DEF Locals
  <2>3. QED
    BY <1>1, <2>2 DEF Judged, Same, Locals, Searching
<1>3. CASE Fail(r, "TypeError")
  BY <1>3, Failed DEF Ends
<1>4. CASE BytecodeAnswer(pyc, run[r].mtime) = "newer" /\ Proceed(r, run[r].found \cup {Main}, [judged |-> pyc])
  <2>1. pyc \in Bytecodes \ {None, Bad} /\ run[r].mtime <= pyc.stamp
    BY <1>4 DEF BytecodeAnswer, IsNewer, Types, Bytecodes
  <2>2. run[r].mtime <= DateOf(pyc)
    BY <2>1 DEF DateOf, Bytecodes
  <2>3. QED
    BY <1>1, <1>4, <2>1, <2>2, Proceeded DEF Judged, Same, Searching
<1>5. QED
  BY <1>2, <1>3, <1>4 DEF SearchBytecode

LEMMA SourceSearched ==
  ASSUME Types, NEW r \in Runs, SearchSource(r)
  PROVE  Judged(r) \/ NothingFound(r)
<1>1. run[r].at \in Searching
  BY DEF SearchSource, At, Searching
<1>2. CASE Goto(r, [at |-> "package"])
  <2>1. /\ OthersWait(r) /\ Same(r, Locals \ {"at"}) /\ run'[r].at = "package"
    BY <1>2, Went DEF Locals
  <2>2. QED
    BY <1>1, <2>1 DEF Judged, Same, Locals, Searching
<1>3. CASE SourceAnswer(py, run[r].mtime) = "newer" /\ Proceed(r, run[r].found \cup {Main}, [judged |-> py])
  <2>1. py \in Sources \ {None} /\ run[r].mtime <= py.at
    BY <1>3 DEF SourceAnswer, IsNewer, Types, Sources
  <2>2. run[r].mtime <= DateOf(py)
    BY <2>1 DEF DateOf, Sources
  <2>3. QED
    BY <1>1, <1>3, <2>1, <2>2, Proceeded DEF Judged, Same, Searching
<1>4. QED
  BY <1>2, <1>3 DEF SearchSource

LEMMA ElsewhereSearched ==
  ASSUME Types, NEW r \in Runs, SearchElsewhere(r)
  PROVE  Judged(r) \/ NothingFound(r) \/ Ended(r)
<1>1. run[r].at \in Searching
  BY DEF SearchElsewhere, At, Searching
<1>2. CASE Fail(r, "TypeError")
  BY <1>2, Failed DEF Ends
<1>3. CASE ~Fail(r, "TypeError")
  <2>1. PICK found : run[r].found \subseteq found /\ Proceed(r, found, [mangled |-> IsMangled(r)])
    BY <1>3 DEF SearchElsewhere
  <2>2. QED
    BY <1>1, <2>1, Proceeded DEF Judged, NothingFound, Same, Searching
<1>4. QED
  BY <1>2, <1>3

LEMMA StoredOn ==
  ASSUME Types, NEW r \in Runs,
         NEW changes, DOMAIN changes \subseteq {"at", "temp", "source"}, "at" \in DOMAIN changes,
         Goto(r, changes), run[r].at \in {"generate"} \cup Storage, changes.at \in Storage
  PROVE  /\ StoresOn(r)
         /\ \A x \in DOMAIN changes : run'[r][x] = changes[x]
         /\ Same(r, {"temp", "source"} \ DOMAIN changes)
<1>1. /\ OthersWait(r) /\ Same(r, Locals \ DOMAIN changes)
      /\ \A x \in DOMAIN changes : run'[r][x] = changes[x]
  BY Went DEF Locals
<1>2. QED
  BY <1>1 DEF StoresOn, Same, Locals

\* The steps that store, and what they do to the files.
LEMMA DirectoryReady ==
  ASSUME Types, NEW r \in Runs, Generate(r) \/ CheckDirectory(r) \/ MakeDirectory(r)
  PROVE  /\ UNCHANGED <<py, pyc, c>>
         /\ \/ Ended(r) \/ Finished(r)
            \/ StoresOn(r) /\ run'[r].at \in {"store", "mkstemp", "makedirs"}
<1>1. UNCHANGED <<py, pyc, c>>
  BY DEF Generate, CheckDirectory, MakeDirectory, files
<1>2. CASE Finish(r) \/ Fail(r, "failed")
  BY <1>1, <1>2, Succeeded, Failed DEF Ends
<1>3. CASE ~Finish(r) /\ ~Fail(r, "failed")
  <2>1. PICK at \in {"store", "mkstemp", "makedirs"} :
          Goto(r, [at |-> at]) /\ run[r].at \in {"generate", "store", "makedirs"}
    <3>1. CASE Generate(r) \/ MakeDirectory(r)
      BY <1>3, <3>1 DEF Generate, MakeDirectory, At
    <3>2. CASE CheckDirectory(r)
      <4>. DEFINE at == IF dir THEN "mkstemp" ELSE "makedirs"
      <4>1. Goto(r, [at |-> at]) /\ run[r].at = "store" /\ at \in {"mkstemp", "makedirs"}
        BY <1>3, <3>2 DEF CheckDirectory, At
      <4>2. QED
        BY <4>1
    <3>3. QED
      BY <3>1, <3>2
  <2>. DEFINE changes == [at |-> at]
  <2>2. StoresOn(r) /\ run'[r].at = changes.at
    BY <2>1, StoredOn DEF Storage, Storing
  <2>3. QED
    BY <1>1, <2>1, <2>2
<1>4. QED
  BY <1>2, <1>3

LEMMA TempMade ==
  ASSUME Types, NEW r \in Runs, MakeTemp(r)
  PROVE  \/ Ended(r)
         \/ /\ StoresOn(r) /\ run[r].at = "mkstemp" /\ run'[r].at = "write"
            /\ run'[r].temp = [text |-> [run[r].text EXCEPT !.state = "partial"], at |-> now]
<1>. DEFINE changes == [at |-> "write",
                        temp |-> [text |-> [run[r].text EXCEPT !.state = "partial"], at |-> now]]
<1>1. CASE Goto(r, changes)
  <2>1. StoresOn(r) /\ run'[r].temp = changes.temp /\ run'[r].at = changes.at
    BY <1>1, StoredOn DEF MakeTemp, At, Storage, Storing
  <2>2. QED
    BY <2>1 DEF MakeTemp, At
<1>2. CASE Fail(r, "UnboundLocalError")
  BY <1>2, Failed DEF Ends
<1>3. QED
  BY <1>1, <1>2 DEF MakeTemp

LEMMA TempWritten ==
  ASSUME Types, NEW r \in Runs, WriteTemp(r)
  PROVE  /\ StoresOn(r) /\ run[r].at = "write" /\ run'[r].at \in {"rename", "isfile"}
         /\ \E state \in {run[r].text.state, "short"} :
              /\ run'[r].temp = [text |-> [run[r].text EXCEPT !.state = state], at |-> now]
              /\ state = "short" => full'
<1>1. PICK state \in {run[r].text.state, "short"} : WriteTemp(r)!2!(state)
  BY DEF WriteTemp
<1>. DEFINE changes == [at |-> IF IsMibdump(r) THEN "rename" ELSE "isfile",
                        temp |-> [text |-> [run[r].text EXCEPT !.state = state], at |-> now]]
<1>2. Goto(r, changes) /\ full' = (full \/ state = "short")
  BY <1>1
<1>3. StoresOn(r) /\ run'[r].temp = changes.temp /\ run'[r].at = changes.at
  BY <1>2, StoredOn DEF WriteTemp, At, Storage, Storing
<1>4. QED
  BY <1>2, <1>3 DEF WriteTemp, At

LEMMA SourceRenamed ==
  ASSUME Types, NEW r \in Runs, RenameSource(r)
  PROVE  /\ run[r].at = "rename" /\ py' = run[r].temp /\ UNCHANGED <<pyc, c>>
         /\ (StoresOn(r) /\ run'[r].at = "compile") \/ Finished(r)
<1>1. CASE Goto(r, [at |-> "compile", temp |-> None])
  <2>. DEFINE changes == [at |-> "compile", temp |-> None]
  <2>1. StoresOn(r) /\ run'[r].at = changes.at
    BY <1>1, StoredOn DEF RenameSource, At, Storage, Storing
  <2>2. QED
    BY <2>1 DEF RenameSource, At
<1>2. CASE Finish(r)
  BY <1>2, Succeeded DEF RenameSource, At
<1>3. QED
  BY <1>1, <1>2 DEF RenameSource

LEMMA SourceCompiled ==
  ASSUME Types, NEW r \in Runs, CompileSource(r)
  PROVE  /\ run[r].at = "compile" /\ py # None /\ UNCHANGED <<py, c>>
         /\ \/ StoresOn(r) /\ pyc' = Bad /\ run'[r].at = "bytecode" /\ run'[r].source = py
            \/ Finished(r) /\ UNCHANGED pyc
<1>1. CASE pyc' = Bad /\ Goto(r, [at |-> "bytecode", source |-> py])
  <2>. DEFINE changes == [at |-> "bytecode", source |-> py]
  <2>1. StoresOn(r) /\ run'[r].at = changes.at /\ run'[r].source = changes.source
    BY <1>1, StoredOn DEF CompileSource, At, Storage, Storing
  <2>2. QED
    BY <1>1, <2>1 DEF CompileSource, At
<1>2. CASE UNCHANGED pyc /\ Finish(r)
  BY <1>2, Succeeded DEF CompileSource, At
<1>3. QED
  BY <1>1, <1>2 DEF CompileSource

LEMMA FileRenamed ==
  ASSUME Types, NEW r \in Runs, RenameFile(r)
  PROVE  /\ run[r].at = "move" /\ c' = run[r].temp
         /\ (StoresOn(r) /\ run'[r].at = "format") \/ Finished(r)
<1>1. CASE Goto(r, [at |-> "format", temp |-> None])
  <2>. DEFINE changes == [at |-> "format", temp |-> None]
  <2>1. StoresOn(r) /\ run'[r].at = changes.at
    BY <1>1, StoredOn DEF RenameFile, At, Storage, Storing
  <2>2. QED
    BY <2>1 DEF RenameFile, At
<1>2. CASE Finish(r)
  BY <1>2, Succeeded DEF RenameFile, At
<1>3. QED
  BY <1>1, <1>2 DEF RenameFile

LEMMA FileChecked ==
  ASSUME Types, NEW r \in Runs, CheckFile(r) \/ RemoveFile(r)
  PROVE  /\ StoresOn(r) /\ run[r].at \in {"isfile", "remove"} /\ run'[r].at \in {"move", "remove"}
         /\ Same(r, {"temp"}) /\ UNCHANGED <<py, pyc>>
         /\ c' = c \/ (c' = None /\ run'[r].at = "move")
<1>1. PICK at \in {"move", "remove"} :
        /\ Goto(r, [at |-> at]) /\ run[r].at \in {"isfile", "remove"} /\ UNCHANGED <<py, pyc>>
        /\ c' = c \/ (c' = None /\ at = "move")
  <2>1. CASE CheckFile(r)
    <3>. DEFINE at == IF c = None THEN "move" ELSE "remove"
    <3>1. Goto(r, [at |-> at]) /\ run[r].at = "isfile" /\ UNCHANGED <<py, pyc, c>> /\ at \in {"move", "remove"}
      BY <2>1 DEF CheckFile, At, files
    <3>. HIDE DEF at
    <3>2. CASE at = "move"
      BY <3>1, <3>2
    <3>3. CASE at = "remove"
      BY <3>1, <3>3
    <3>4. QED
      BY <3>1, <3>2, <3>3
  <2>2. CASE RemoveFile(r)
    <3>1. Goto(r, [at |-> "move"]) /\ run[r].at = "remove" /\ UNCHANGED <<py, pyc>> /\ c' = None
      BY <2>2 DEF RemoveFile, At
    <3>2. QED
      BY <3>1
  <2>3. QED
    BY <2>1, <2>2
<1>. DEFINE changes == [at |-> at]
<1>2. StoresOn(r) /\ run'[r].at = changes.at /\ Same(r, {"temp", "source"} \ DOMAIN changes)
  BY <1>1, StoredOn DEF Storage, Storing
<1>3. QED
  BY <1>1, <1>2 DEF Same

\* What the steps of a run have in common, whatever they do to the files.
LEMMA KindOfStep ==
  ASSUME Types, NEW r \in Runs, RunStep(r), ~Start(r)
  PROVE  /\ UNCHANGED <<now, copies, version, site>>
         /\ \/ Stat(r) \/ Open(r) \/ Ended(r) \/ Finished(r)
            \/ Judged(r) \/ NothingFound(r) \/ StoresOn(r) \/ Borrows(r) \/ Retries(r) \/ Rewrites(r)
<1>1. UNCHANGED <<now, copies, version, site>>
  BY DEF RunStep, Start, Kill, Stat, NoSource, Open, OpenFails, SearchBytecode, SearchSource, SearchElsewhere,
         Generate, GenerateFails, CheckDirectory, MakeDirectory, MakeTemp, WriteTemp, WriteFails, RenameSource,
         CompileSource, WriteBytecode, CompileFails, CheckFile, RemoveFile, RenameFile, Format
<1>2. CASE Stat(r) \/ Open(r)
  BY <1>1, <1>2
<1>3. CASE SearchBytecode(r) \/ SearchSource(r) \/ SearchElsewhere(r)
  BY <1>1, <1>3, BytecodeSearched, SourceSearched, ElsewhereSearched
<1>4. CASE Kill(r) \/ NoSource(r) \/ OpenFails(r) \/ WriteFails(r) \/ CompileFails(r)
  BY <1>1, <1>4, Failed, OpenFailed DEF Kill, NoSource, WriteFails, CompileFails, Ends
<1>5. CASE WriteBytecode(r) \/ RenameFile(r) \/ Format(r)
  BY <1>1, <1>5, Succeeded, FileRenamed, Formatted DEF WriteBytecode
<1>6. CASE Generate(r) \/ CheckDirectory(r) \/ MakeDirectory(r)
  BY <1>1, <1>6, DirectoryReady
<1>7. CASE MakeTemp(r) \/ WriteTemp(r)
  BY <1>1, <1>7, TempMade, TempWritten
<1>8. CASE RenameSource(r) \/ CompileSource(r)
  BY <1>1, <1>8, SourceRenamed, SourceCompiled
<1>9. CASE CheckFile(r) \/ RemoveFile(r)
  BY <1>1, <1>9, FileChecked
<1>10. CASE GenerateFails(r)
  <2>1. CASE Fail(r, "failed")
    BY <1>1, <2>1, Failed DEF Ends
  <2>2. CASE ~Fail(r, "failed")
    <3>. DEFINE changes == [at |-> "search", asked |-> <<Main>>, mtime |-> 1, found |-> {},
                            text |-> Text(Borrowed, 0, now, "whole")]
    <3>1. Goto(r, changes) /\ run[r].at = "generate"
      BY <1>10, <2>2 DEF GenerateFails, At
    <3>2. /\ OthersWait(r) /\ Same(r, Locals \ DOMAIN changes)
          /\ \A x \in DOMAIN changes : run'[r][x] = changes[x]
      BY <3>1, Went DEF Locals
    <3>3. Borrows(r)
      BY <3>1, <3>2 DEF Borrows, Same, Locals
    <3>4. QED
      BY <1>1, <3>3
  <2>3. QED
    BY <2>1, <2>2
<1>11. QED
  BY <1>2, <1>3, <1>4, <1>5, <1>6, <1>7, <1>8, <1>9, <1>10 DEF RunStep
-----------------------------------------------------------------------------
(* The invariant: types.                                                   *)

\* A change that an observer of the MIB and its texts can see.
LEMMA OutsideTypes ==
  ASSUME Types, [Next]_vars
  PROVE  /\ now' \in Nat /\ version' \in Nat /\ site' = site /\ now <= now' /\ version <= version'
         /\ DOMAIN copies' = 1 .. Places
         /\ \A i \in 1 .. Places : copies'[i] # None =>
              copies'[i].of \in 1 .. version' /\ copies'[i].at \in 0 .. now'
<1>1. CASE Tick
  BY <1>1 DEF Types, Tick
<1>2. ASSUME NEW i \in 1 .. Places, Edit(i)
      PROVE  /\ now' = now /\ version' = version + 1 /\ site' = site
             /\ DOMAIN copies' = 1 .. Places
             /\ \A j \in (1 .. Places) \ {i} : copies'[j] = copies[j]
             /\ copies'[i] # None => copies'[i].of = version + 1 /\ copies'[i].at = now
  BY <1>2 DEF Types, Edit
<1>3. ASSUME NEW r \in Runs, RunStep(r) PROVE UNCHANGED <<now, copies, version, site>>
  BY <1>3, KindOfStep DEF Start
<1>4. CASE UNCHANGED vars
  BY <1>4 DEF Types, vars
<1>5. CASE \E i \in 1 .. Places : Edit(i)
  <2>1. PICK i \in 1 .. Places : Edit(i)
    BY <1>5
  <2>2. \A j \in 1 .. Places : copies'[j] # None =>
          copies'[j].of \in 1 .. version + 1 /\ copies'[j].at \in 0 .. now
    BY <1>2, <2>1 DEF Types
  <2>3. QED
    BY <1>2, <2>1, <2>2 DEF Types
<1>6. CASE \E r \in Runs : RunStep(r)
  <2>1. now' = now /\ copies' = copies /\ version' = version /\ site' = site
    BY <1>3, <1>6
  <2>2. QED
    BY <2>1 DEF Types
<1>7. QED
  BY <1>1, <1>4, <1>5, <1>6 DEF Next

\* What a run holds is typed after each of its steps.
LocalTypes(r) ==
  /\ DOMAIN run[r] = Locals
  /\ run[r].mtime \in Nat
  /\ run[r].at = "open" => run[r].place \in 1 .. Places
  /\ run[r].at \notin Unread => run[r].text \in Texts
  /\ run[r].at \in WithTemp => run[r].temp \in Sources
  /\ run[r].at = "bytecode" => run[r].source \in Sources

LEMMA DatesAreNumbers ==
  ASSUME Types, NEW i \in 1 .. Places, copies[i] # None
  PROVE  \A mtime \in Dates(copies[i]) :
           /\ mtime \in Nat /\ copies[i].at <= mtime + Lag
           /\ site.origin = "file" => mtime = copies[i].at
<1>1. site.origin \in {"file", "http", "ftp"} /\ East \in Nat /\ West \in Nat
  BY MibStoreAssumption DEF Types
<1>2. copies[i].at \in 0 .. now /\ now \in Nat
  BY DEF Types
<1>3. QED
  BY <1>1, <1>2 DEF Dates, Clock, Lag

LEMMA StoringSteps ==
  ASSUME Types, NEW r \in Runs, RunStep(r), StoresOn(r)
  PROVE  \/ MakeTemp(r) \/ WriteTemp(r)
         \/ RenameSource(r) \/ CompileSource(r)
         \/ CheckFile(r) \/ RemoveFile(r)
         \/ Generate(r) \/ CheckDirectory(r) \/ MakeDirectory(r) \/ RenameFile(r) \/ Rewrites(r)
<1>1. run[r].at \in {"generate"} \cup Storage /\ run'[r].at \in Storage
  BY DEF StoresOn
<1>2. ~Start(r)
  BY <1>1 DEF Start, Ends, Storage, Storing
<1>3. ~(Stat(r) \/ NoSource(r) \/ Open(r) \/ OpenFails(r) \/ SearchBytecode(r) \/ SearchSource(r) \/ SearchElsewhere(r))
  BY <1>1 DEF Stat, NoSource, Open, OpenFails, SearchBytecode, SearchSource, SearchElsewhere, At, Storage, Storing
<1>4. ~(Kill(r) \/ WriteFails(r) \/ CompileFails(r))
  BY <1>1, Failed DEF Kill, WriteFails, CompileFails, Ended, Ends, Storage, Storing
<1>5. ~WriteBytecode(r)
  BY <1>1, Succeeded DEF WriteBytecode, Finished, Storage, Storing
<1>6. Format(r) => Rewrites(r)
  BY <1>1, Formatted DEF Finished, Storage, Storing
<1>7. ~GenerateFails(r)
  <2>1. CASE Fail(r, "failed")
    BY <1>1, <2>1, Failed DEF Ended, Ends, Storage, Storing
  <2>. DEFINE changes == [at |-> "search", asked |-> <<Main>>, mtime |-> 1, found |-> {},
                          text |-> Text(Borrowed, 0, now, "whole")]
  <2>2. CASE Goto(r, changes)
    <3>1. run'[r].at = changes.at
      BY <2>2, Went DEF Locals
    <3>2. QED
      BY <1>1, <3>1 DEF Storage, Storing
  <2>3. QED
    BY <2>1, <2>2 DEF GenerateFails
<1>8. QED
  BY <1>2, <1>3, <1>4, <1>5, <1>6, <1>7 DEF RunStep

LEMMA LocalTypesKept ==
  ASSUME Types, NEW r \in Runs, RunStep(r)
  PROVE  DOMAIN run' = Runs /\ LocalTypes(r)' /\ \A q \in Runs \ {r} : LocalTypes(q)'
<1>1. ASSUME OthersWait(r), LocalTypes(r)' PROVE DOMAIN run' = Runs /\ \A q \in Runs \ {r} : LocalTypes(q)'
  BY <1>1 DEF OthersWait, LocalTypes, Types
<1>2. CASE Start(r)
  BY <1>2 DEF Start, Stop, Types, LocalTypes, Merged, Fresh, Locals, Unread, WithTemp, Ends
<1>3. CASE Ended(r)
  BY <1>1, <1>3 DEF Ended, OthersWait, LocalTypes, Unread, WithTemp, Ends
<1>4. ASSUME Finished(r) PROVE LocalTypes(r)'
  BY <1>4 DEF Finished, OthersWait, LocalTypes, Unread, WithTemp, Ends, Same, Types
<1>5. CASE Stat(r)
  <2>1. PICK i \in 1 .. Places :
          Read(r, i) /\ run'[r].seen = copies[i] /\ run'[r].mtime \in Dates(copies[i])
    BY <1>5, StatReads
  <2>2. Text(copies[i].of, i, now, "whole") \in Texts
    BY <2>1 DEF Text, Texts, Types, Read
  <2>3. QED
    BY <1>1, <2>1, <2>2, DatesAreNumbers DEF Read, OthersWait, LocalTypes, Unread, WithTemp, Ends
<1>6. CASE Open(r)
  <2>1. Read(r, run[r].place) /\ Same(r, {"seen", "mtime"})
    BY <1>6, OpenReads
  <2>2. run[r].place \in 1 .. Places
    BY <1>6 DEF Open, At, Types
  <2>3. Text(copies[run[r].place].of, run[r].place, now, "whole") \in Texts
    BY <2>1, <2>2 DEF Text, Texts, Types, Read
  <2>4. QED
    BY <1>1, <2>1, <2>2, <2>3 DEF Read, OthersWait, LocalTypes, Unread, WithTemp, Ends, Same, Types
<1>7. CASE Judged(r) \/ NothingFound(r)
  BY <1>1, <1>7 DEF Judged, NothingFound, OthersWait, Same, LocalTypes, Types, Unread, WithTemp, Ends, Searching
<1>8. CASE Borrows(r)
  BY <1>1, <1>8 DEF Borrows, OthersWait, LocalTypes, Unread, WithTemp, Ends, Text, Texts, Borrowed, Types
<1>9. CASE StoresOn(r)
  <2>1. /\ DOMAIN run'[r] = Locals /\ run'[r].mtime \in Nat /\ run'[r].at \in Storage
        /\ run[r].text \in Texts /\ run'[r].text \in Texts
    BY <1>9 DEF StoresOn, OthersWait, Same, Types, Unread, Ends, Storage, Storing
  <2>2. CASE MakeTemp(r) \/ WriteTemp(r)
    <3>1. \A state \in {"partial", "short", "whole"} :
            [text |-> [run[r].text EXCEPT !.state = state], at |-> now] \in Sources
      BY <2>1 DEF Texts, Sources, Types
    <3>2. CASE MakeTemp(r)
      <4>1. run'[r].temp \in Sources /\ run'[r].at = "write"
        BY <2>1, <3>1, <3>2, TempMade DEF Ended, Storage, Storing, Ends
      <4>2. QED
        BY <1>1, <1>9, <2>1, <4>1 DEF StoresOn, LocalTypes
    <3>3. CASE WriteTemp(r)
      <4>1. run[r].text.state \in {"partial", "short", "whole"}
        BY <2>1 DEF Texts
      <4>2. PICK state \in {run[r].text.state, "short"} :
              run'[r].temp = [text |-> [run[r].text EXCEPT !.state = state], at |-> now]
        BY <3>3, TempWritten
      <4>3. run'[r].temp \in Sources /\ run'[r].at \in {"rename", "isfile"}
        BY <3>1, <3>3, <4>1, <4>2, TempWritten
      <4>4. QED
        BY <1>1, <1>9, <2>1, <4>3 DEF StoresOn, LocalTypes
    <3>4. QED
      BY <2>2, <3>2, <3>3
  <2>3. CASE RenameSource(r) \/ CompileSource(r)
    <3>1. \/ run'[r].at = "compile"
          \/ run'[r].at = "bytecode" /\ run'[r].source \in Sources
      BY <1>9, <2>1, <2>3, SourceRenamed, SourceCompiled DEF Finished, Storage, Storing, Types
    <3>2. QED
      BY <1>1, <1>9, <2>1, <3>1 DEF StoresOn, LocalTypes, WithTemp
  <2>4. CASE CheckFile(r) \/ RemoveFile(r)
    <3>1. run'[r].at \in {"move", "remove"} /\ run'[r].temp \in Sources
      BY <2>4, FileChecked DEF Same, Types, WithTemp
    <3>2. QED
      BY <1>1, <1>9, <2>1, <3>1 DEF StoresOn, LocalTypes
  <2>5. CASE Generate(r) \/ CheckDirectory(r) \/ MakeDirectory(r)
    <3>1. run'[r].at \in {"store", "mkstemp", "makedirs"}
      BY <2>1, <2>5, DirectoryReady DEF Ended, Finished, Ends, Storage, Storing
    <3>2. QED
      BY <1>1, <1>9, <2>1, <3>1 DEF StoresOn, LocalTypes, WithTemp
  <2>6. CASE RenameFile(r)
    <3>1. run'[r].at = "format"
      BY <2>1, <2>6, FileRenamed DEF Finished, Storage, Storing
    <3>2. QED
      BY <1>1, <1>9, <2>1, <3>1 DEF StoresOn, LocalTypes, WithTemp
  <2>7. CASE Rewrites(r)
    BY <1>1, <1>9, <2>1, <2>7 DEF Rewrites, LocalTypes, WithTemp
  <2>8. QED
    BY <1>9, <2>2, <2>3, <2>4, <2>5, <2>6, <2>7, StoringSteps
<1>10. CASE Retries(r)
  BY <1>1, <1>10 DEF Retries, OthersWait, Same, LocalTypes, Types, Unread, WithTemp, Ends
<1>11. CASE Rewrites(r)
  BY <1>1, <1>11 DEF Rewrites, OthersWait, Same, LocalTypes, Types, Sources, WithTemp
<1>12. QED
  BY <1>2, <1>3, <1>4, <1>1, <1>5, <1>6, <1>7, <1>8, <1>9, <1>10, <1>11, KindOfStep DEF Finished

\* What a step gives a final name is a text some run has written.
LEMMA FilesOfStep ==
  ASSUME Types, NEW r \in Runs, RunStep(r)
  PROVE  /\ py' \in {py, None} \/ (run[r].at = "rename" /\ py' = run[r].temp)
         /\ pyc' \in {pyc, Bad} \/ (run[r].at = "bytecode" /\ pyc' = BytecodeOf(run[r].source))
         /\ c' \in {c, None} \/ (run[r].at = "move" /\ c' = run[r].temp)
         /\ full => full'
<1>1. CASE \/ Start(r) \/ Kill(r) \/ Stat(r) \/ NoSource(r) \/ Open(r) \/ OpenFails(r)
           \/ SearchBytecode(r) \/ SearchSource(r) \/ SearchElsewhere(r)
           \/ Generate(r) \/ GenerateFails(r) \/ CheckDirectory(r) \/ MakeDirectory(r) \/ MakeTemp(r)
           \/ WriteTemp(r) \/ WriteFails(r) \/ CheckFile(r) \/ Format(r)
  <2>1. py' = py /\ pyc' = pyc /\ c' = c
    BY <1>1 DEF Start, Kill, Stat, NoSource, Open, OpenFails, SearchBytecode, SearchSource, SearchElsewhere,
           Generate, GenerateFails, CheckDirectory, MakeDirectory, MakeTemp, WriteTemp, WriteFails, CheckFile,
           Format, files
  <2>2. full => full'
    <3>1. CASE WriteTemp(r)
      BY <3>1 DEF WriteTemp
    <3>2. CASE ~WriteTemp(r)
      BY <1>1, <3>2 DEF Start, Kill, Stat, NoSource, Open, OpenFails, SearchBytecode, SearchSource, SearchElsewhere,
           Generate, GenerateFails, CheckDirectory, MakeDirectory, MakeTemp, WriteFails, CheckFile, Format,
           past
    <3>3. QED
      BY <3>1, <3>2
  <2>3. QED
    BY <2>1, <2>2
<1>2. CASE \/ RenameSource(r) \/ CompileSource(r) \/ WriteBytecode(r) \/ CompileFails(r)
           \/ RemoveFile(r) \/ RenameFile(r)
  BY <1>2 DEF RenameSource, CompileSource, WriteBytecode, CompileFails, RemoveFile, RenameFile, At, past
<1>3. QED
  BY <1>1, <1>2 DEF RunStep

LEMMA TypesKept ==
  ASSUME Types, [Next]_vars
  PROVE  Types'
<1>1. /\ py' \in Sources \cup {None} /\ c' \in Sources \cup {None}
      /\ pyc' \in Bytecodes \cup {None, Bad}
      /\ DOMAIN run' = Runs /\ \A r \in Runs : LocalTypes(r)'
  <2>1. CASE UNCHANGED <<files, run>>
    BY <2>1 DEF Types, LocalTypes, files
  <2>2. ASSUME NEW r \in Runs, RunStep(r) PROVE <1>1
    <3>1. run[r].at = "bytecode" => BytecodeOf(run[r].source) \in Bytecodes
      BY DEF Types, Sources, Bytecodes, BytecodeOf
    <3>2. run[r].at \in {"rename", "move"} => run[r].temp \in Sources
      BY DEF Types, WithTemp
    <3>3. py' \in Sources \cup {None} /\ c' \in Sources \cup {None} /\ pyc' \in Bytecodes \cup {None, Bad}
      BY <2>2, <3>1, <3>2, FilesOfStep DEF Types
    <3>4. QED
      BY <2>2, <3>3, LocalTypesKept
  <2>3. QED
    BY <2>1, <2>2 DEF Next, Tick, Edit, vars
<1>2. QED
  BY <1>1, OutsideTypes DEF Types, LocalTypes

LEMMA InitIInv ==
  ASSUME Init
  PROVE  IInv
<1>1. Types
  BY MibStoreAssumption DEF Init, Types, Fresh, Locals, Unread, WithTemp, Ends
<1>2. \A r \in Runs : run[r].seen = None /\ run[r].judged = None /\ run[r].at = "idle"
  BY DEF Init, Fresh
<1>3. SeenBefore /\ HasSeen /\ AllExplained /\ StoredLater /\ JudgedNew /\ Whole /\ CFileIsReplaced
  BY <1>2 DEF Init, SeenBefore, HasSeen, AllExplained, StoredLater, JudgedNew, Whole, CFileIsReplaced,
              Searching, Unread, Ends, WithTemp, Written
<1>4. QED
  BY <1>1, <1>3 DEF IInv

-----------------------------------------------------------------------------
(* The invariant: what runs have seen, and the texts that are from it.     *)

\* A run that has seen the MIB saw what its place had, or has seen it before.
LEMMA SeenOfStep ==
  ASSUME Types, SeenBefore, NEW r \in Runs, RunStep(r), NEW q \in Runs, run'[q].seen # None
  PROVE  /\ \/ /\ run'[q].seen = run[q].seen /\ run'[q].place = run[q].place /\ run'[q].mtime = run[q].mtime
            \/ /\ run'[q].place \in 1 .. Places /\ copies[run'[q].place] # None
               /\ run'[q].seen = copies[run'[q].place] /\ run'[q].mtime \in Dates(run'[q].seen)
         /\ run'[q].at \in Searching \cup Ends \cup {"open"}
<1>1. CASE Start(r)
  BY <1>1 DEF Start, Stop, Types, Merged, Fresh, Locals, SeenBefore
<1>2. CASE q # r /\ ~Start(r)
  BY <1>2, KindOfStep, StatReads, OpenReads DEF OthersWait, Read, Ended, Finished, Judged, NothingFound, StoresOn,
     Borrows, Retries, Rewrites, SeenBefore
<1>3. CASE q = r /\ Stat(r)
  BY <1>3, StatReads DEF Read, Searching
<1>4. CASE q = r /\ Open(r)
  BY <1>4, OpenReads DEF Read, Same, Searching, Open, At
<1>5. CASE q = r /\ ~Start(r) /\ ~Stat(r) /\ ~Open(r)
  <2>1. Judged(r)
    <3>1. ~Ended(r) /\ ~Finished(r) /\ ~NothingFound(r) /\ ~Retries(r)
      BY <1>5 DEF Ended, Finished, NothingFound, Retries
    <3>2. ~StoresOn(r) /\ ~Borrows(r) /\ ~Rewrites(r)
      BY <1>5 DEF StoresOn, Borrows, Rewrites, Same, SeenBefore, Searching, Ends, Storage, Storing
    <3>3. QED
      BY <1>5, <3>1, <3>2, KindOfStep
  <2>2. QED
    BY <1>5, <2>1 DEF Judged, Same, Ends
<1>6. QED
  BY <1>1, <1>2, <1>3, <1>4, <1>5

LEMMA SeenBeforeKept ==
  ASSUME Types, SeenBefore, [Next]_vars
  PROVE  SeenBefore'
<1>1. CASE UNCHANGED <<copies, version, site, run>>
  <2>1. now <= now' /\ now \in Nat /\ now' \in Nat
    BY OutsideTypes DEF Types
  <2>2. \A r \in Runs : run[r].seen # None => run[r].seen.at \in 0 .. now'
    BY <2>1 DEF SeenBefore
  <2>3. QED
    BY <1>1, <2>2 DEF SeenBefore, Lag
<1>2. ASSUME NEW i \in 1 .. Places, Edit(i) PROVE SeenBefore'
  <2>1. /\ now' = now /\ version' = version + 1 /\ run' = run /\ site' = site
        /\ \A j \in (1 .. Places) \ {i} : copies'[j] = copies[j]
        /\ copies'[i] # None => copies'[i].of = version + 1
    BY <1>2 DEF Types, Edit
  <2>2. QED
    BY <2>1 DEF SeenBefore, Lag, Types
<1>3. ASSUME NEW r \in Runs, RunStep(r) PROVE SeenBefore'
  <2>1. now' = now /\ copies' = copies /\ version' = version /\ site' = site
    BY <1>3, KindOfStep DEF Start
  <2>2. Lag' = Lag
    BY <2>1 DEF Lag
  <2>3. ASSUME NEW q \in Runs, run'[q].seen # None
        PROVE  /\ run'[q].at \in Searching \cup Ends \cup {"open"}
               /\ run'[q].place \in 1 .. Places
               /\ run'[q].seen.of \in 1 .. version /\ run'[q].seen.at \in 0 .. now
               /\ copies[run'[q].place] # None => run'[q].seen.of <= copies[run'[q].place].of
               /\ run'[q].seen.at <= run'[q].mtime + Lag
               /\ site.origin = "file" => run'[q].mtime = run'[q].seen.at
    <3>1. CASE run'[q].seen = run[q].seen /\ run'[q].place = run[q].place /\ run'[q].mtime = run[q].mtime
      BY <1>3, <2>3, <3>1, SeenOfStep DEF SeenBefore
    <3>2. CASE /\ run'[q].place \in 1 .. Places /\ copies[run'[q].place] # None
               /\ run'[q].seen = copies[run'[q].place] /\ run'[q].mtime \in Dates(run'[q].seen)
      BY <1>3, <2>3, <3>2, SeenOfStep, DatesAreNumbers DEF Types
    <3>3. QED
      BY <1>3, <2>3, <3>1, <3>2, SeenOfStep
  <2>4. QED
    BY <2>1, <2>2, <2>3 DEF SeenBefore
<1>4. QED
  BY <1>1, <1>2, <1>3 DEF Next, Tick, vars

\* Where the texts come from that a run has after a step.
TextFrom(q) ==
  \/ run'[q].text = run[q].text /\ run[q].at \notin Unread
  \/ run'[q].text = Text(Borrowed, 0, now, "whole")
  \/ c # None /\ run'[q].text = c.text
  \/ \E i \in 1 .. Places : copies[i] # None /\ run'[q].text = Text(copies[i].of, i, now, "whole")

TempFrom(q) ==
  \/ /\ run'[q].temp = run[q].temp /\ run[q].at \in WithTemp
     /\ run'[q].at \in Written => run[q].at \in Written
  \/ \E state \in {"partial", "short", "whole"} :
       /\ run'[q].temp = [text |-> [run[q].text EXCEPT !.state = state], at |-> now]
       /\ run[q].at \notin Unread
       /\ run'[q].at \in Written => state \in {run[q].text.state, "short"} /\ (state = "short" => full')

SourceFrom(q) ==
  \/ run'[q].source = run[q].source /\ run[q].at = "bytecode"
  \/ run'[q].source = py /\ py # None

LEMMA TextsOfStep ==
  ASSUME Types, NEW r \in Runs, RunStep(r), NEW q \in Runs
  PROVE  /\ run'[q].at \notin Unread => TextFrom(q)
         /\ run'[q].at \in WithTemp => TempFrom(q)
         /\ run'[q].at = "bytecode" => SourceFrom(q)
<1>1. CASE Start(r) /\ q = r
  BY <1>1 DEF Start, Stop, Merged, Fresh, Types, Unread, WithTemp
<1>2. CASE Start(r) /\ q # r
  <2>1. \A x \in Locals : run'[q][x] = run[q][x]
    BY <1>2 DEF Start, Stop, Types
  <2>2. QED
    BY <2>1 DEF TextFrom, TempFrom, SourceFrom, Locals
<1>3. CASE ~Start(r) /\ q # r
  <2>1. run'[q] = run[q]
    BY <1>3, KindOfStep, StatReads, OpenReads
       DEF OthersWait, Read, Ended, Finished, Judged, NothingFound, StoresOn, Borrows, Retries, Rewrites
  <2>2. QED
    BY <2>1 DEF TextFrom, TempFrom, SourceFrom
<1>4. CASE Stat(r) /\ q = r
  <2>1. PICK i \in 1 .. Places : Read(r, i)
    BY <1>4, StatReads
  <2>2. QED
    BY <1>4, <2>1 DEF Read, TextFrom, Unread, WithTemp
<1>5. CASE Open(r) /\ q = r
  <2>1. run[r].place \in 1 .. Places /\ Read(r, run[r].place)
    BY <1>5, OpenReads DEF Open, At, Types
  <2>2. QED
    BY <1>5, <2>1 DEF Read, TextFrom, Unread, WithTemp
<1>6. CASE q = r /\ (Ended(r) \/ Finished(r))
  BY <1>6 DEF Ended, Finished, Unread, WithTemp, Ends
<1>7. CASE q = r /\ (Judged(r) \/ NothingFound(r))
  BY <1>7 DEF Judged, NothingFound, Same, TextFrom, Searching, Unread, WithTemp, Ends
<1>8. CASE q = r /\ (Borrows(r) \/ Retries(r) \/ Rewrites(r))
  BY <1>8 DEF Borrows, Retries, Rewrites, TextFrom, Unread, WithTemp
<1>9. CASE q = r /\ StoresOn(r)
  <2>1. TextFrom(r) /\ run[r].at \notin Unread
    BY <1>9 DEF StoresOn, TextFrom, Same, Unread, Ends, Storage, Storing
  <2>2. CASE MakeTemp(r)
    BY <1>9, <2>1, <2>2, TempMade DEF TempFrom, Written, StoresOn, Ended, Storage, Storing, Ends
  <2>3. CASE WriteTemp(r)
    <3>1. run[r].text.state \in {"partial", "short", "whole"}
      BY <2>1 DEF Types, Texts
    <3>2. PICK state \in {run[r].text.state, "short"} :
            /\ run'[r].temp = [text |-> [run[r].text EXCEPT !.state = state], at |-> now]
            /\ state = "short" => full'
      BY <2>3, TempWritten
    <3>3. TempFrom(r)
      BY <2>1, <3>1, <3>2 DEF TempFrom
    <3>4. QED
      BY <1>9, <2>1, <2>3, <3>3, TempWritten
  <2>4. CASE RenameSource(r) \/ CompileSource(r)
    BY <1>9, <2>1, <2>4, SourceRenamed, SourceCompiled
       DEF SourceFrom, Finished, StoresOn, WithTemp, Storage, Storing
  <2>5. CASE CheckFile(r) \/ RemoveFile(r)
    BY <1>9, <2>1, <2>5, FileChecked DEF TempFrom, Same, WithTemp, Written
  <2>6. CASE Generate(r) \/ CheckDirectory(r) \/ MakeDirectory(r)
    BY <1>9, <2>1, <2>6, DirectoryReady DEF Ended, Finished, StoresOn, Ends, Storage, Storing, WithTemp
  <2>7. CASE RenameFile(r)
    BY <1>9, <2>1, <2>7, FileRenamed DEF Finished, StoresOn, Storage, Storing, WithTemp
  <2>8. CASE Rewrites(r)
    BY <1>9, <2>1, <2>8 DEF Rewrites, WithTemp
  <2>9. QED
    BY <1>9, <2>2, <2>3, <2>4, <2>5, <2>6, <2>7, <2>8, StoringSteps
<1>10. QED
  BY <1>1, <1>2, <1>3, <1>4, <1>5, <1>6, <1>7, <1>8, <1>9, KindOfStep

\* An explanation stays one: an edit is made after the texts that are there were
\* read, and what a run sees is what is there.
LEMMA ExplainedKept ==
  ASSUME Types, SeenBefore, [Next]_vars, NEW T \in Texts, Explained(T)
  PROVE  IsExplained(T, now', version', copies', run')
<1>1. /\ now \in Nat /\ now' \in Nat /\ version \in Nat /\ version' \in Nat
      /\ now <= now' /\ version <= version'
      /\ T.of \in Nat /\ T.since \in Nat
  BY OutsideTypes DEF Types, Texts
<1>2. ASSUME T.of # Borrowed, NEW i \in 1 .. Places, T.from = i, copies'[i] # None
      PROVE  IsOfLater(T, copies'[i])
  <2>1. CASE copies'[i] = copies[i]
    BY <1>2, <2>1 DEF Explained, IsExplained
  <2>2. CASE copies'[i] # copies[i]
    <3>1. copies'[i].at = now /\ copies'[i].of = version + 1
      <4>1. PICK j \in 1 .. Places : Edit(j)
        BY <2>2, KindOfStep DEF Next, Tick, Start, vars
      <4>2. QED
        BY <1>2, <2>2, <4>1 DEF Edit, Types
    <3>2. T.since <= now /\ T.of <= version
      BY <1>2 DEF Explained, IsExplained
    <3>3. QED
      BY <1>1, <3>1, <3>2 DEF IsOfLater
  <2>3. QED
    BY <2>1, <2>2
<1>3. ASSUME T.of # Borrowed, NEW q \in Runs, run'[q].seen # None, T.from = run'[q].place
      PROVE  IsOfLater(T, run'[q].seen)
  <2>1. CASE run'[q].seen = run[q].seen /\ run'[q].place = run[q].place
    BY <1>3, <2>1 DEF Explained, IsExplained
  <2>2. CASE /\ run'[q].place \in 1 .. Places /\ copies[run'[q].place] # None
             /\ run'[q].seen = copies[run'[q].place]
    BY <1>3, <2>2 DEF Explained, IsExplained
  <2>3. QED
    BY <1>3, <2>1, <2>2, SeenOfStep DEF Next, Tick, Edit, vars
<1>4. T.of # Borrowed => T.since <= now' /\ T.of <= version'
  BY <1>1 DEF Explained, IsExplained
<1>5. QED
  BY <1>2, <1>3, <1>4 DEF Explained, IsExplained

\* What has just been read is explained.
LEMMA ReadIsExplained ==
  ASSUME Types', SeenBefore', now' = now, version' = version, copies' = copies,
         NEW i \in 1 .. Places, copies[i] # None
  PROVE  IsExplained(Text(copies[i].of, i, now, "whole"), now', version', copies', run')
<1>. DEFINE T == Text(copies[i].of, i, now, "whole")
<1>1. T.of = copies'[i].of /\ T.from = i /\ T.since = now'
  BY DEF Text
<1>. HIDE DEF T
<1>2. T.of \in 1 .. version' /\ now' \in Nat
  BY <1>1 DEF Types
<1>3. \A r \in Runs : run'[r].seen # None /\ T.from = run'[r].place => IsOfLater(T, run'[r].seen)
  <2>1. ASSUME NEW r \in Runs, run'[r].seen # None, T.from = run'[r].place
        PROVE  /\ run'[r].seen.of \in Nat /\ run'[r].seen.of <= T.of
               /\ run'[r].seen.at <= T.since
    BY <1>1, <1>2, <2>1 DEF SeenBefore, Types
  <2>2. QED
    BY <1>2, <2>1 DEF IsOfLater
<1>4. IsOfLater(T, copies'[i])
  BY <1>1, <1>2 DEF IsOfLater, Types
<1>5. IsExplained(T, now', version', copies', run')
  BY <1>1, <1>2, <1>3, <1>4 DEF IsExplained
<1>6. QED
  BY <1>5 DEF T

LEMMA StateIsIrrelevant ==
  ASSUME NEW T \in Texts, NEW state, NEW clock, NEW last, NEW present, NEW readers,
         IsExplained(T, clock, last, present, readers)
  PROVE  IsExplained([T EXCEPT !.state = state], clock, last, present, readers)
BY DEF IsExplained, IsOfLater, Texts

LEMMA HasSeenKept ==
  ASSUME Types, HasSeen, [Next]_vars
  PROVE  HasSeen'
<1>1. CASE run' = run
  BY <1>1 DEF HasSeen
<1>2. ASSUME NEW r \in Runs, RunStep(r) PROVE HasSeen'
  <2>1. CASE Start(r)
    BY <1>2, <2>1 DEF Start, Stop, Merged, Fresh, Types, Locals, HasSeen, Searching
  <2>2. CASE ~Start(r)
    <3>1. OthersWait(r)
      BY <1>2, <2>2, KindOfStep, StatReads, OpenReads
         DEF Read, Ended, Finished, Judged, NothingFound, StoresOn, Borrows, Retries, Rewrites
    <3>2. CASE Stat(r)
      BY <3>1, <3>2, StatReads DEF OthersWait, Read, HasSeen
    <3>3. CASE Open(r)
      BY <3>1, <3>3, OpenReads DEF OthersWait, Read, Same, HasSeen, Open, At
    <3>4. CASE Ended(r) \/ Finished(r) \/ NothingFound(r) \/ StoresOn(r)
      BY <3>1, <3>4 DEF OthersWait, Ended, Finished, NothingFound, StoresOn, HasSeen, Ends, Searching, Storage, Storing
    <3>5. CASE Judged(r) \/ Borrows(r) \/ Retries(r) \/ Rewrites(r)
      BY <3>1, <3>5 DEF OthersWait, Judged, Borrows, Retries, Rewrites, HasSeen, Same, Searching, Text
    <3>6. QED
      BY <1>2, <2>2, <3>2, <3>3, <3>4, <3>5, KindOfStep
  <2>3. QED
    BY <2>1, <2>2
<1>3. QED
  BY <1>1, <1>2 DEF Next, Tick, Edit, vars

LEMMA AllExplainedKept ==
  ASSUME Types, Types', SeenBefore, SeenBefore', AllExplained, [Next]_vars
  PROVE  AllExplained'
<1>. DEFINE Then(T) == IsExplained(T, now', version', copies', run')
<1>1. \A T \in Texts : Explained(T) => Then(T)
  BY ExplainedKept
<1>. HIDE DEF Then
<1>2. /\ py # None => Then(py.text)
      /\ c # None => Then(c.text)
      /\ pyc \notin {None, Bad} => Then(pyc.text)
      /\ \A r \in Runs : /\ run[r].at \notin Unread => Then(run[r].text)
                         /\ run[r].at \in WithTemp => Then(run[r].temp.text)
                         /\ run[r].at = "bytecode" => Then(run[r].source.text)
  BY <1>1 DEF AllExplained, Types, Sources, Bytecodes
<1>3. /\ py' # None => Then(py'.text)
      /\ c' # None => Then(c'.text)
      /\ pyc' \notin {None, Bad} => Then(pyc'.text)
      /\ \A r \in Runs : /\ run'[r].at \notin Unread => Then(run'[r].text)
                         /\ run'[r].at \in WithTemp => Then(run'[r].temp.text)
                         /\ run'[r].at = "bytecode" => Then(run'[r].source.text)
  <2>1. CASE UNCHANGED <<files, run>>
    BY <1>2, <2>1 DEF files
  <2>2. ASSUME NEW r \in Runs, RunStep(r) PROVE <1>3
    <3>1. (py' # None => Then(py'.text)) /\ (c' # None => Then(c'.text))
      BY <1>2, <2>2, FilesOfStep DEF WithTemp
    <3>2. pyc' \notin {None, Bad} => Then(pyc'.text)
      BY <1>2, <2>2, FilesOfStep DEF BytecodeOf
    <3>3. ASSUME NEW q \in Runs, run'[q].at \notin Unread PROVE Then(run'[q].text)
      <4>1. now' = now /\ version' = version /\ copies' = copies
        BY <2>2, KindOfStep DEF Start
      <4>2. \A i \in 1 .. Places : copies[i] # None => Then(Text(copies[i].of, i, now, "whole"))
        BY <4>1, ReadIsExplained DEF Then
      <4>3. run'[q].text.of = Borrowed => Then(run'[q].text)
        BY DEF Then, IsExplained
      <4>4. Text(Borrowed, 0, now, "whole").of = Borrowed
        BY DEF Text
      <4>5. QED
        BY <1>2, <2>2, <3>3, <4>2, <4>3, <4>4, TextsOfStep DEF TextFrom
    <3>4. ASSUME NEW q \in Runs, run'[q].at \in WithTemp PROVE Then(run'[q].temp.text)
      <4>1. CASE run'[q].temp = run[q].temp /\ run[q].at \in WithTemp
        BY <1>2, <4>1
      <4>2. ASSUME NEW state, run[q].at \notin Unread,
                   run'[q].temp = [text |-> [run[q].text EXCEPT !.state = state], at |-> now]
            PROVE  Then(run'[q].temp.text)
        <5>1. Then([run[q].text EXCEPT !.state = state])
          BY <1>2, <4>2, StateIsIrrelevant DEF Then, Types
        <5>2. QED
          BY <4>2, <5>1
      <4>3. QED
        BY <2>2, <3>4, <4>1, <4>2, TextsOfStep DEF TempFrom
    <3>5. ASSUME NEW q \in Runs, run'[q].at = "bytecode" PROVE Then(run'[q].source.text)
      BY <1>2, <2>2, <3>5, TextsOfStep DEF SourceFrom
    <3>6. QED
      BY <3>1, <3>2, <3>3, <3>4, <3>5
  <2>3. QED
    BY <2>1, <2>2 DEF Next, Tick, Edit, vars
<1>4. QED
  BY <1>3 DEF AllExplained, Explained, Then

LEMMA StoredLaterKept ==
  ASSUME Types, AllExplained, StoredLater, [Next]_vars
  PROVE  StoredLater'
<1>1. CASE UNCHANGED <<files, run>>
  BY <1>1 DEF StoredLater, ReadFirst, DateOf, files
<1>2. ASSUME NEW r \in Runs, RunStep(r) PROVE StoredLater'
  <2>1. py' # None => ReadFirst(py')
    BY <1>2, FilesOfStep DEF StoredLater, WithTemp
  <2>2. pyc' \notin {None, Bad} => ReadFirst(pyc')
    <3>1. CASE run[r].at = "bytecode" /\ pyc' = BytecodeOf(run[r].source)
      <4>1. ReadFirst(run[r].source) /\ run[r].source \in Sources
        BY <3>1 DEF StoredLater, Types
      <4>2. DateOf(run[r].source) = run[r].source.at /\ DateOf(pyc') = run[r].source.at
        BY <3>1, <4>1 DEF DateOf, BytecodeOf, Sources
      <4>3. QED
        BY <3>1, <4>1, <4>2 DEF ReadFirst, BytecodeOf
    <3>2. QED
      BY <1>2, <3>1, FilesOfStep DEF StoredLater
  <2>3. ASSUME NEW q \in Runs, run'[q].at \in WithTemp PROVE ReadFirst(run'[q].temp)
    <3>1. CASE run'[q].temp = run[q].temp /\ run[q].at \in WithTemp
      BY <3>1 DEF StoredLater
    <3>2. ASSUME NEW state \in {"partial", "short", "whole"}, run[q].at \notin Unread,
                 run'[q].temp = [text |-> [run[q].text EXCEPT !.state = state], at |-> now]
          PROVE  ReadFirst(run'[q].temp)
      <4>1. run[q].text \in Texts /\ (run[q].text.of # Borrowed => run[q].text.since <= now)
        BY <3>2 DEF AllExplained, Explained, IsExplained, Types
      <4>2. QED
        BY <3>2, <4>1 DEF ReadFirst, DateOf, Texts
    <3>3. QED
      BY <1>2, <2>3, <3>1, <3>2, TextsOfStep DEF TempFrom
  <2>4. ASSUME NEW q \in Runs, run'[q].at = "bytecode" PROVE ReadFirst(run'[q].source)
    BY <1>2, <2>4, TextsOfStep DEF SourceFrom, StoredLater
  <2>5. QED
    BY <2>1, <2>2, <2>3, <2>4 DEF StoredLater, ReadFirst, DateOf
<1>3. QED
  BY <1>1, <1>2 DEF Next, Tick, Edit, vars

LEMMA JudgedNewKept ==
  ASSUME Types, SeenBefore, HasSeen, AllExplained, JudgedNew, [Next]_vars
  PROVE  JudgedNew'
<1>. DEFINE Then(T) == IsExplained(T, now', version', copies', run')
            ThenJudged(r) == /\ run'[r].at \in Searching \cup {"KeyError", "untouched"}
                             /\ Main \in run'[r].found
                             /\ run'[r].judged \in Sources \cup Bytecodes
                             /\ run'[r].mtime <= DateOf(run'[r].judged)
                             /\ run'[r].text.of # Borrowed => run'[r].seen # None /\ Then(run'[r].judged.text)
<1>1. \A T \in Texts : Explained(T) => Then(T)
  BY ExplainedKept
<1>. HIDE DEF Then
<1>2. ASSUME NEW q \in Runs, run[q].judged # None,
             \A x \in Locals : run'[q][x] = run[q][x]
      PROVE  ThenJudged(q)
  BY <1>1, <1>2 DEF JudgedNew, Sources, Bytecodes, Locals
<1>3. ASSUME NEW r \in Runs, RunStep(r), NEW q \in Runs, run'[q].judged # None PROVE ThenJudged(q)
  <2>1. CASE Start(r)
    <3>1. q # r /\ \A x \in Locals : run'[q][x] = run[q][x]
      BY <1>3, <2>1 DEF Start, Stop, Merged, Fresh, Types, Locals
    <3>2. QED
      BY <1>2, <1>3, <3>1 DEF Locals
  <2>2. CASE ~Start(r) /\ q # r
    <3>1. OthersWait(r)
      BY <1>3, <2>2, KindOfStep, StatReads, OpenReads
         DEF Read, Ended, Finished, Judged, NothingFound, StoresOn, Borrows, Retries, Rewrites
    <3>2. QED
      BY <1>2, <1>3, <2>2, <3>1 DEF OthersWait
  <2>3. CASE ~Start(r) /\ q = r
    <3>1. Judged(r)
      <4>1. CASE Stat(r)
        BY <1>3, <2>3, <4>1, StatReads DEF Read, Same, Stat, At, JudgedNew, Searching
      <4>2. CASE Open(r)
        BY <1>3, <2>3, <4>2, OpenReads DEF Read, Same, Open, At, JudgedNew, Searching
      <4>3. ~Ended(r) /\ ~Finished(r)
        BY <1>3, <2>3 DEF Ended, Finished
      <4>4. ~NothingFound(r) /\ ~StoresOn(r) /\ ~Borrows(r) /\ ~Retries(r) /\ ~Rewrites(r)
        BY <1>3, <2>3 DEF NothingFound, StoresOn, Borrows, Retries, Rewrites, Same, JudgedNew, Searching, Storage,
           Storing
      <4>5. QED
        BY <1>3, <2>3, <4>1, <4>2, <4>3, <4>4, KindOfStep
    <3>2. CASE Same(r, {"judged"})
      <4>1. run[r].judged # None /\ run'[r].judged = run[r].judged
        BY <1>3, <2>3, <3>2 DEF Same
      <4>2. run[r].text.of # Borrowed => Then(run[r].judged.text)
        BY <1>1, <4>1 DEF JudgedNew, Sources, Bytecodes
      <4>3. QED
        BY <2>3, <3>1, <4>1, <4>2 DEF Judged, Same, JudgedNew
    <3>3. CASE /\ Main \in run'[r].found /\ run'[r].judged \in ({py} \ {None}) \cup ({pyc} \ {None, Bad})
               /\ run[r].mtime <= DateOf(run'[r].judged)
      <4>1. run'[r].judged \in Sources \cup Bytecodes /\ Then(run'[r].judged.text)
        BY <1>1, <3>3 DEF AllExplained, Types, Sources, Bytecodes
      <4>2. QED
        BY <2>3, <3>1, <3>3, <4>1 DEF Judged, Same, HasSeen
    <3>4. QED
      BY <3>1, <3>2, <3>3 DEF Judged
  <2>4. QED
    BY <2>1, <2>2, <2>3
<1>4. CASE run' = run
  BY <1>2, <1>4 DEF JudgedNew, Explained, Then, DateOf
<1>5. CASE \E r \in Runs : RunStep(r)
  BY <1>3, <1>5 DEF JudgedNew, Explained, Then, DateOf
<1>6. QED
  BY <1>4, <1>5 DEF Next, Tick, Edit, vars

-----------------------------------------------------------------------------
(* The invariant: the files.                                               *)

LEMMA WholeKept ==
  ASSUME Types, Whole, [Next]_vars
  PROVE  Whole'
<1>1. CASE UNCHANGED <<files, run, past>>
  BY <1>1 DEF Whole, IsWhole, files, past
<1>2. ASSUME NEW r \in Runs, RunStep(r) PROVE Whole'
  <2>1. full => full'
    BY <1>2, FilesOfStep
  <2>2. \A f \in {py', c'} \ {None} : f.text.state # "partial" /\ (f.text.state = "short" => full')
    BY <1>2, <2>1, FilesOfStep DEF Whole, IsWhole, Written
  <2>3. ASSUME NEW q \in Runs, run'[q].at \in Written
        PROVE  run'[q].temp.text.state # "partial" /\ (run'[q].temp.text.state = "short" => full')
    <3>1. CASE run'[q].temp = run[q].temp /\ run[q].at \in Written
      BY <2>1, <3>1 DEF Whole, IsWhole
    <3>2. ASSUME NEW state \in {"partial", "short", "whole"}, run[q].at \notin Unread,
                 run'[q].temp = [text |-> [run[q].text EXCEPT !.state = state], at |-> now],
                 state \in {run[q].text.state, "short"}, state = "short" => full'
          PROVE  run'[q].temp.text.state # "partial" /\ (run'[q].temp.text.state = "short" => full')
      BY <3>2 DEF Types, Texts, Whole, IsWhole
    <3>3. QED
      BY <1>2, <2>3, <3>1, <3>2, TextsOfStep DEF TempFrom, Written, WithTemp
  <2>4. ASSUME NEW q \in Runs, run'[q].at \notin Unread
        PROVE  run'[q].text.state # "partial" /\ (run'[q].text.state = "short" => full')
    <3>1. TextFrom(q)
      BY <1>2, <2>4, TextsOfStep
    <3>2. \A of, from : Text(of, from, now, "whole").state = "whole"
      BY DEF Text
    <3>3. CASE (run'[q].text = run[q].text /\ run[q].at \notin Unread) \/ (c # None /\ run'[q].text = c.text)
      BY <2>1, <3>3 DEF Whole, IsWhole
    <3>4. ASSUME NEW of, NEW from, run'[q].text = Text(of, from, now, "whole")
          PROVE  run'[q].text.state # "partial" /\ (run'[q].text.state = "short" => full')
      BY <3>2, <3>4
    <3>5. QED
      BY <3>1, <3>3, <3>4 DEF TextFrom
  <2>5. QED
    BY <2>2, <2>3, <2>4 DEF Whole, IsWhole
<1>3. QED
  BY <1>1, <1>2 DEF Next, Tick, Edit, vars

LEMMA CFileIsReplacedKept ==
  ASSUME Types, CFileIsReplaced, [Next]_vars
  PROVE  CFileIsReplaced'
<1>1. CASE UNCHANGED <<files, run, past>>
  BY <1>1 DEF CFileIsReplaced, At, files, past
<1>2. ASSUME NEW r \in Runs, RunStep(r) PROVE CFileIsReplaced'
  <2>1. CASE RemoveFile(r)
    <3>1. run'[r].at = "move"
      <4>. DEFINE changes == [at |-> "move"]
      <4>1. Goto(r, changes)
        BY <2>1 DEF RemoveFile
      <4>2. run'[r].at = changes.at
        BY <4>1, Went DEF Locals
      <4>3. QED
        BY <4>2
    <3>2. QED
      BY <3>1 DEF CFileIsReplaced, At
  <2>2. CASE RenameFile(r)
    BY <2>2, MibStoreAssumption, FileRenamed DEF CFileIsReplaced, Types, WithTemp, Sources
  <2>3. CASE ~RemoveFile(r) /\ ~RenameFile(r)
    <3>1. c' = c /\ installed' = installed /\ (torn => torn')
      <4>1. CASE Start(r) \/ CheckDirectory(r) \/ MakeDirectory(r) \/ MakeTemp(r) \/ WriteTemp(r)
        BY <4>1 DEF Start, CheckDirectory, MakeDirectory, MakeTemp, WriteTemp, files, past
      <4>2. CASE Kill(r) \/ WriteFails(r)
        BY <4>2 DEF Kill, WriteFails, files
      <4>3. CASE \/ Stat(r) \/ NoSource(r) \/ Open(r) \/ OpenFails(r)
                 \/ SearchBytecode(r) \/ SearchSource(r) \/ SearchElsewhere(r) \/ Generate(r) \/ GenerateFails(r)
        BY <4>3 DEF Stat, NoSource, Open, OpenFails, SearchBytecode, SearchSource, SearchElsewhere, Generate,
                    GenerateFails, files, past
      <4>4. CASE RenameSource(r) \/ CompileSource(r) \/ WriteBytecode(r) \/ CompileFails(r) \/ CheckFile(r)
        BY <4>4 DEF RenameSource, CompileSource, WriteBytecode, CompileFails, CheckFile, files, past
      <4>5. CASE Format(r)
        BY <4>5 DEF Format, files, past
      <4>6. QED
        BY <1>2, <2>3, <4>1, <4>2, <4>3, <4>4, <4>5 DEF RunStep
    <3>2. ASSUME NEW q \in Runs, At(q, "move"), installed PROVE torn' \/ run'[q].at = "move"
      <4>1. CASE q = r
        <5>1. Kill(r) \/ WriteFails(r)
          BY <1>2, <2>3, <3>2, <4>1 DEF RunStep, Start, Stat, NoSource, Open, OpenFails, SearchBytecode,
             SearchSource, SearchElsewhere, Generate, GenerateFails, CheckDirectory, MakeDirectory, MakeTemp,
             WriteTemp, RenameSource, CompileSource, WriteBytecode, CompileFails, CheckFile, Format, At, Ends
        <5>2. QED
          BY <3>2, <4>1, <5>1 DEF Kill, WriteFails
      <4>2. CASE q # r /\ ~Start(r)
        BY <1>2, <3>2, <4>2, KindOfStep, StatReads, OpenReads
           DEF OthersWait, Read, Ended, Finished, Judged, NothingFound, StoresOn, Borrows, Retries, Rewrites, At
      <4>3. CASE q # r /\ Start(r)
        BY <3>2, <4>3 DEF Start, Stop, At, Types, Locals
      <4>4. QED
        BY <4>1, <4>2, <4>3
    <3>3. QED
      BY <3>1, <3>2 DEF CFileIsReplaced, At
  <2>4. QED
    BY <2>1, <2>2, <2>3
<1>3. QED
  BY <1>1, <1>2 DEF Next, Tick, Edit, vars

-----------------------------------------------------------------------------
(* The theorems.                                                           *)

LEMMA AlwaysIInv == Spec => []IInv
<1>1. Init => IInv
  BY InitIInv
<1>2. IInv /\ [Next]_vars => IInv'
  BY TypesKept, SeenBeforeKept, HasSeenKept, AllExplainedKept, StoredLaterKept, JudgedNewKept, WholeKept,
     CFileIsReplacedKept DEF IInv
<1>3. QED
  BY <1>1, <1>2, PTL DEF Spec

\* Whatever number of runs share the directory and wherever they are killed, what
\* has a final name was written to its end, and is short only once the disk was full.
THEOREM FinalNamesAreWhole == Spec => []WholeUnderFinalName
<1>1. IInv => WholeUnderFinalName
  BY DEF IInv, Whole, IsWhole, WholeUnderFinalName
<1>2. QED
  BY <1>1, AlwaysIInv, PTL

\* Whoever edits the MIB and whichever searcher answers: an edit the searchers
\* overlook was made before the text was stored, or within the lag of the clock.
THEOREM EditsAreNoticed == Spec => []OnlyRacingEditsAreMissed
<1>1. ASSUME IInv, NEW r \in Runs, run[r].judged # None, run[r].text.of # Borrowed,
             run[r].judged.text.of # Borrowed, run[r].judged.text.from = run[r].place,
             run[r].judged.text.of < run[r].seen.of
      PROVE  run[r].seen.at \in run[r].judged.text.since .. DateOf(run[r].judged) + Lag
  <2>1. run[r].seen # None /\ Explained(run[r].judged.text) /\ run[r].mtime <= DateOf(run[r].judged)
    BY <1>1 DEF IInv, JudgedNew
  <2>2. run[r].seen.at <= run[r].mtime + Lag /\ run[r].seen.at \in 0 .. now /\ run[r].mtime \in Nat
    BY <1>1, <2>1 DEF IInv, SeenBefore, Types
  <2>3. run[r].judged.text.since \in Nat /\ DateOf(run[r].judged) \in Nat /\ Lag \in Nat
    BY <1>1, MibStoreAssumption DEF IInv, JudgedNew, Sources, Bytecodes, Texts, DateOf, Lag
  <2>4. run[r].judged.text.since <= run[r].seen.at
    BY <1>1, <2>1 DEF Explained, IsExplained, IsOfLater
  <2>5. QED
    BY <2>1, <2>2, <2>3, <2>4
<1>2. IInv => OnlyRacingEditsAreMissed
  BY <1>1 DEF OnlyRacingEditsAreMissed
<1>3. QED
  BY <1>2, AlwaysIInv, PTL

\* A local MIB that is as it was when its text was read is found to be transformed
\* already by every run that looks at that text, whichever run stored it, whatever
\* was stored over it in between, and for any clock: it is not made again.
THEOREM UnchangedIsNotMadeAgain == Spec => UnchangedIsFound
<1>1. ASSUME IInv, NEW r \in Runs, run[r].seen # None, site.origin = "file",
             NEW f, f \in {py, pyc}, IsOfSeen(f, r)
      PROVE  IsNewer(DateOf(f), run[r].mtime)
  <2>1. run[r].mtime = run[r].seen.at /\ run[r].seen.of \in 1 .. version /\ run[r].seen.at \in 0 .. now
    BY <1>1 DEF IInv, SeenBefore
  <2>2. Explained(f.text) /\ ReadFirst(f) /\ f \in Sources \cup Bytecodes
    <3>1. CASE f = py
      BY <1>1, <3>1 DEF IInv, AllExplained, StoredLater, IsOfSeen, Types
    <3>2. CASE f = pyc
      BY <1>1, <3>2 DEF IInv, AllExplained, StoredLater, IsOfSeen, Types
    <3>3. QED
      BY <1>1, <3>1, <3>2
  <2>3. f.text.of # Borrowed /\ f.text.since \in Nat /\ DateOf(f) \in Nat
    BY <1>1, <2>1, <2>2 DEF IsOfSeen, Borrowed, Sources, Bytecodes, Texts, DateOf
  <2>4. run[r].seen.at <= f.text.since
    BY <1>1, <2>2, <2>3 DEF IsOfSeen, Explained, IsExplained, IsOfLater
  <2>5. f.text.since <= DateOf(f)
    BY <2>2, <2>3 DEF ReadFirst
  <2>6. QED
    BY <2>1, <2>3, <2>4, <2>5 DEF IsNewer
<1>2. ASSUME IInv, NEW r \in Runs, run[r].seen # None, site.origin = "file", IsOfSeen(pyc, r), At(r, "search"),
             SearchBytecode(r)
      PROVE  run'[r].at # "TypeError"
  <2>1. BytecodeAnswer(pyc, run[r].mtime) # "TypeError"
    <3>1. pyc \in Bytecodes /\ DateOf(pyc) = pyc.stamp
      BY <1>2 DEF IInv, Types, IsOfSeen, Bytecodes, DateOf
    <3>2. IsNewer(pyc.stamp, run[r].mtime)
      BY <1>1, <1>2, <3>1
    <3>3. QED
      BY <3>2 DEF BytecodeAnswer
  <2>2. CASE Goto(r, [at |-> "package"]) \/ Goto(r, [at |-> "source"])
    <3>1. PICK at \in {"package", "source"} : Goto(r, [at |-> at])
      BY <2>2
    <3>. DEFINE changes == [at |-> at]
    <3>2. run'[r].at = changes.at
      BY <1>2, <3>1, Went DEF Locals, IInv
    <3>3. QED
      BY <3>2
  <2>3. CASE Proceed(r, run[r].found \cup {Main}, [judged |-> pyc])
    BY <1>2, <2>3, Proceeded DEF IInv
  <2>4. QED
    BY <1>2, <2>1, <2>2, <2>3 DEF SearchBytecode
<1>3. ASSUME IInv, NEW r \in Runs, run[r].seen # None, site.origin = "file", IsOfSeen(py, r), At(r, "source"),
             SearchSource(r)
      PROVE  run'[r].at # "package"
  <2>1. SourceAnswer(py, run[r].mtime) = "newer"
    <3>1. py \in Sources /\ py # None /\ DateOf(py) = py.at
      BY <1>3 DEF IInv, Types, IsOfSeen, Sources, DateOf
    <3>2. IsNewer(py.at, run[r].mtime)
      BY <1>1, <1>3, <3>1
    <3>3. QED
      BY <3>1, <3>2 DEF SourceAnswer
  <2>2. Proceed(r, run[r].found \cup {Main}, [judged |-> py])
    BY <1>3, <2>1 DEF SearchSource
  <2>3. QED
    BY <1>3, <2>2, Proceeded DEF IInv
<1>4. ASSUME IInv, [Next]_vars, NEW r \in Runs, run[r].at \in {"search", "source"}
      PROVE  SearchBytecode(r) \/ SearchSource(r) \/ run'[r].at = run[r].at
  <2>1. CASE run' = run
    BY <2>1
  <2>2. ASSUME NEW q \in Runs, RunStep(q), q # r PROVE run'[r].at = run[r].at
    <3>1. CASE Start(q)
      BY <1>4, <2>2, <3>1 DEF Start, Stop, IInv, Types, Locals
    <3>2. CASE ~Start(q)
      BY <1>4, <2>2, <3>2, KindOfStep, StatReads, OpenReads
         DEF IInv, OthersWait, Read, Ended, Finished, Judged, NothingFound, StoresOn, Borrows, Retries, Rewrites
    <3>3. QED
      BY <3>1, <3>2
  <2>3. CASE RunStep(r)
    BY <1>4, <2>3 DEF RunStep, Start, Kill, Stat, NoSource, Open, OpenFails, SearchElsewhere,
       Generate, GenerateFails, CheckDirectory, MakeDirectory, MakeTemp, WriteTemp, WriteFails, RenameSource,
       CompileSource, WriteBytecode, CompileFails, CheckFile, RemoveFile, RenameFile, Format, At, Ends, Storing
  <2>4. QED
    BY <1>4, <2>1, <2>2, <2>3 DEF Next, Tick, Edit, vars
<1>5. IInv /\ [Next]_vars =>
        \A r \in Runs :
          run[r].seen # None /\ site.origin = "file" /\ ~run[r].options.rebuild =>
            /\ At(r, "search") /\ Head(run[r].asked) = Main /\ IsOfSeen(pyc, r) => run'[r].at # "TypeError"
            /\ At(r, "source") /\ IsOfSeen(py, r) => run'[r].at # "package"
  <2>1. ASSUME IInv, [Next]_vars, NEW r \in Runs, run[r].seen # None, site.origin = "file",
               At(r, "search"), IsOfSeen(pyc, r)
        PROVE  run'[r].at # "TypeError"
    BY <1>2, <1>4, <2>1 DEF At, SearchSource
  <2>2. ASSUME IInv, [Next]_vars, NEW r \in Runs, run[r].seen # None, site.origin = "file",
               At(r, "source"), IsOfSeen(py, r)
        PROVE  run'[r].at # "package"
    BY <1>3, <1>4, <2>2 DEF At, SearchBytecode
  <2>3. QED
    BY <2>1, <2>2
<1>6. QED
  BY <1>5, AlwaysIInv, PTL DEF UnchangedIsFound, Spec

\* Between any number of runs a C file that was generated is missing only while one
\* of them is about to rename the new one, or when one stopped there.
THEOREM CFilesAreReplaced == Spec => []CFileIsReplaced
<1>1. IInv => CFileIsReplaced
  BY DEF IInv
<1>2. QED
  BY <1>1, AlwaysIInv, PTL
=============================================================================
