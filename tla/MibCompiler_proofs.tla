------------------------- MODULE MibCompiler_proofs -------------------------
(***************************************************************************)
(* What the report of a compilation is worth, for all MIBs, sources and    *)
(* options: no import is left out, and what is reported as done is done.   *)
(***************************************************************************)
EXTENDS MibCompiler, TLAPS

-----------------------------------------------------------------------------
(* The strengthening.                                                      *)

Mentioned == Requested \cup UNION {symbolTableMap[d] : d \in DOMAIN symbolTableMap}

Tried == DOMAIN symbolTableMap \cup failedMibs \cup answered

\* While the sources are read, a name that is mentioned has been tried, is
\* being tried, or waits.
Search ==
  /\ pc = "parse" => Mentioned \subseteq Tried \cup mibsToParse
  /\ pc = "read" => Mentioned \subseteq Tried \cup mibsToParse \cup {mibname}
  /\ pc = "generate" => Mentioned \subseteq Tried

Generated == {"borrow", "need borrowing", "decide", "store", "returned", "refused", "indexed", "error"}

Storing == {"store", "returned", "indexed", "error", "exception"}

\* What has been built is the first MIB, or borrowed and reported as such.
Built ==
  /\ pc \notin Generated \cup {"exception"} => DOMAIN builtMibs = {}
  /\ pc = "returned" => DOMAIN builtMibs = {}
  /\ \A m \in DOMAIN builtMibs :
       \/ builtMibs[m] = "generated" /\ (options.tool = "ops-snmpgen" => disk[m] \in Written("generated"))
       \/ builtMibs[m] = "borrowed" /\ m \in DOMAIN processed

\* A status of success is of a MIB that is stored, or borrowed and about to be.
Reported ==
  \A m \in DOMAIN processed :
    /\ processed[m] = "compiled" =>
         /\ pc \in Storing /\ m \notin DOMAIN builtMibs
         /\ options.dryRun \/ disk[m] \in Written("generated")
    /\ processed[m] = "borrowed" =>
         \/ pc \in {"decide", "store", "exception"} /\ m \in DOMAIN builtMibs /\ builtMibs[m] = "borrowed"
         \/ /\ pc \in Storing /\ m \notin DOMAIN builtMibs
            /\ options.dryRun \/ options.tool # "mibdump" \/ disk[m] \in Written("borrowed")

\* The first MIB is reported or still to be stored.
OriginalIsKept ==
  /\ pc \in Generated => Original \in DOMAIN processed \cup DOMAIN builtMibs
  /\ pc = "refused" => Original \in DOMAIN processed

IInv == TypeOK /\ Search /\ Built /\ Reported /\ OriginalIsKept

-----------------------------------------------------------------------------
(* Lemmas.                                                                 *)

\* What the simple constants are.
LEMMA ConstantFacts == Requested \subseteq Names /\ Original \in Requested /\ Original \in Names /\ Sources \in Nat
BY MibCompilerAssumption

\* Changing one entry of the disk keeps its type.
LEMMA DiskFacts ==
  ASSUME TypeOK, NEW m \in Names, NEW v \in {"partial", "short", "generated", "borrowed"}
  PROVE  /\ With(disk, All({m}, v)) \in [Names -> {"absent", "partial", "short", "generated", "borrowed"}]
         /\ With(disk, All({m}, v))[m] = v
         /\ \A x \in Names : x # m => With(disk, All({m}, v))[x] = disk[x]
<1>1. DOMAIN disk = Names /\ \A x \in Names : disk[x] \in {"absent", "partial", "short", "generated", "borrowed"}
  BY DEF TypeOK
<1>2. With(disk, All({m}, v)) = [x \in Names |-> IF x = m THEN v ELSE disk[x]]
  BY <1>1 DEF With, All
<1> QED
  BY <1>1, <1>2

\* A file declares modules that are names and import names.
LEMMA FileFacts ==
  ASSUME NEW m \in Names, NEW f \in Files[m]
  PROVE  /\ f.ok \in BOOLEAN
         /\ DOMAIN f.modules \subseteq Names
         /\ \A d \in DOMAIN f.modules : f.modules[d] \subseteq Names
         /\ ImportsOf(f) \subseteq Names
<1>1. f \in FileType
  BY MibCompilerAssumption
<1>2. PICK D \in SUBSET Names : f.modules \in [D -> SUBSET Names]
  BY <1>1 DEF FileType
<1> QED
  BY <1>1, <1>2 DEF FileType, ImportsOf

-----------------------------------------------------------------------------
(* The invariant.                                                          *)

LEMMA InitIInv == Init => IInv
<1> SUFFICES ASSUME Init PROVE IInv
  OBVIOUS
<1> USE ConstantFacts
<1>1. disk \in [Names -> {"absent", "partial", "short", "generated", "borrowed"}]
  BY DEF Init, All
<1>2. TypeOK
  BY <1>1 DEF Init, TypeOK
<1>3. Search /\ Built /\ Reported /\ OriginalIsKept
  BY DEF Init, Search, Mentioned, Tried, Built, Reported, OriginalIsKept, Generated
<1> QED
  BY <1>2, <1>3 DEF IInv

\* Reading a file keeps what was said of its names.
LEMMA Reading ==
  ASSUME TypeOK, mibname' = mibname, NEW f \in Files[mibname], Parsed(f)
  PROVE  /\ mibsToParse' \subseteq Names
         /\ DOMAIN symbolTableMap' = DOMAIN symbolTableMap \cup DOMAIN f.modules
         /\ DOMAIN symbolTableMap' \subseteq Names
         /\ \A m \in DOMAIN symbolTableMap' : symbolTableMap'[m] \subseteq Names
         /\ parsedMibs' \subseteq DOMAIN symbolTableMap'
         /\ Mentioned' \subseteq Mentioned \cup mibsToParse'
         /\ mibsToParse \subseteq mibsToParse'
<1>0. mibname \in Names
  BY DEF TypeOK
<1>1. /\ DOMAIN f.modules \subseteq Names
      /\ \A d \in DOMAIN f.modules : f.modules[d] \subseteq Names
      /\ ImportsOf(f) \subseteq Names
  BY <1>0, FileFacts
<1>2. /\ DOMAIN symbolTableMap' = DOMAIN symbolTableMap \cup DOMAIN f.modules
      /\ \A x \in DOMAIN f.modules : symbolTableMap'[x] = f.modules[x]
      /\ \A x \in DOMAIN symbolTableMap \ DOMAIN f.modules : symbolTableMap'[x] = symbolTableMap[x]
  BY DEF With, All, Parsed
<1>3. \A d \in DOMAIN f.modules : f.modules[d] \subseteq mibsToParse'
  BY DEF Parsed, ImportsOf
<1>4. Mentioned' \subseteq Mentioned \cup mibsToParse'
  BY <1>2, <1>3 DEF Mentioned
<1> QED
  BY <1>1, <1>2, <1>4 DEF Parsed, TypeOK

LEMMA NextTypeOK == TypeOK /\ [Next]_vars => TypeOK'
<1> SUFFICES ASSUME TypeOK, [Next]_vars PROVE TypeOK'
  OBVIOUS
<1> USE ConstantFacts
<1>1. CASE NextName
  <2>1. PICK m \in mibsToParse :
          /\ mibsToParse' = mibsToParse \ {m}
          /\ IF IsKnown(m)
               THEN UNCHANGED <<mibname, source, pc>>
               ELSE mibname' = m /\ source' = 1 /\ pc' = "read"
    BY <1>1 DEF NextName
  <2>2. UNCHANGED <<options, answered, symbolTableMap, parsedMibs, failedMibs, borrowedMibs,
                    builtMibs, processed, disk, index>>
    BY <1>1 DEF NextName
  <2>3. mibname' \in Names /\ source' \in 1 .. Sources + 1
    <3>0. 1 \in 1 .. Sources + 1
      <4>1. Sources \in Nat
        BY ConstantFacts
      <4> QED
        BY ONLY <4>1
    <3>1. m \in Names
      BY DEF TypeOK
    <3>2. CASE IsKnown(m)
      BY <2>1, <3>2 DEF TypeOK
    <3>3. CASE ~IsKnown(m)
      BY <2>1, <3>0, <3>1, <3>3
    <3> QED
      BY <3>2, <3>3
  <2>4. pc' = pc \/ pc' = "read"
    BY <2>1
  <2> QED
    BY <2>1, <2>2, <2>3, <2>4 DEF TypeOK
<1>2. CASE ReadFile
  <2>1. PICK f \in Files[mibname] :
          Parsed(f) /\ failedMibs' = IF DOMAIN f.modules = {} THEN failedMibs ELSE failedMibs \ {mibname}
    BY <1>2 DEF ReadFile
  <2>2. UNCHANGED <<options, mibname, source, borrowedMibs, builtMibs, processed, disk, index>>
    BY <1>2 DEF ReadFile
  <2> QED
    BY <1>2, <2>1, <2>2, Reading DEF ReadFile, TypeOK, Ended
<1>3. CASE ReadFails
  <2>1. PICK f \in Files[mibname] : Parsed(f)
    BY <1>3 DEF ReadFails
  <2>2. DOMAIN processed' \subseteq Names /\ \A m \in DOMAIN processed' : processed'[m] \in Statuses
    BY <1>3 DEF With, All, ReadFails, TypeOK, Statuses
  <2>3. source' \in 1 .. Sources + 1
    BY <1>3 DEF ReadFails, TypeOK, HasSource
  <2>4. /\ failedMibs' \subseteq Names
        /\ UNCHANGED <<options, mibname, answered, borrowedMibs, builtMibs, disk, index, pc>>
    BY <1>3 DEF ReadFails, TypeOK
  <2>5. /\ mibsToParse' \subseteq Names
        /\ DOMAIN symbolTableMap' \subseteq Names
        /\ \A m \in DOMAIN symbolTableMap' : symbolTableMap'[m] \subseteq Names
        /\ parsedMibs' \subseteq DOMAIN symbolTableMap'
    BY <2>1, <2>4, Reading
  <2> QED
    BY <2>2, <2>3, <2>4, <2>5 DEF TypeOK
<1>4. CASE NotFound
  BY <1>4 DEF NotFound, HasSource, TypeOK
<1>5. CASE SourcesExhausted
  <2>1. DOMAIN processed' \subseteq Names /\ \A m \in DOMAIN processed' : processed'[m] \in Statuses
    BY <1>5 DEF With, All, SourcesExhausted, TypeOK, Statuses
  <2> QED
    BY <1>5, <2>1 DEF SourcesExhausted, reading, TypeOK
<1>6. CASE SearchParsed
  <2>1. DOMAIN processed' \subseteq Names /\ \A m \in DOMAIN processed' : processed'[m] \in Statuses
    BY <1>6 DEF With, All, SearchParsed, TypeOK, Statuses
  <2>2. parsedMibs' \subseteq parsedMibs
    BY <1>6 DEF SearchParsed
  <2> QED
    BY <1>6, <2>1, <2>2 DEF SearchParsed, reading, TypeOK
<1>7. CASE Generate
  <2>1. disk' \in [Names -> {"absent", "partial", "short", "generated", "borrowed"}]
    <3>1. PICK text \in Written("generated") :
            disk' = IF options.tool = "ops-snmpgen" THEN With(disk, All({Original}, text)) ELSE disk
      BY <1>7 DEF Generate
    <3>2. text \in {"partial", "short", "generated", "borrowed"}
      BY DEF Written
    <3> QED
      BY <3>1, <3>2, DiskFacts, ConstantFacts DEF TypeOK
  <2>2. DOMAIN builtMibs' \subseteq Names /\ \A m \in DOMAIN builtMibs' : builtMibs'[m] \in {"generated", "borrowed"}
    BY <1>7 DEF With, All, Generate, TypeOK
  <2> QED
    BY <1>7, <2>1, <2>2 DEF Generate, reading, TypeOK
<1>8. CASE GenerateFails
  <2>0. disk' = disk \/ disk' = With(disk, All({Original}, "partial"))
    BY <1>8 DEF GenerateFails, WrittenByThen
  <2>1. disk' \in [Names -> {"absent", "partial", "short", "generated", "borrowed"}]
    <3>1. CASE disk' = disk
      BY <3>1 DEF TypeOK
    <3>2. CASE disk' = With(disk, All({Original}, "partial"))
      BY <3>2, DiskFacts, ConstantFacts
    <3> QED
      BY <2>0, <3>1, <3>2
  <2>2. DOMAIN processed' \subseteq Names /\ \A m \in DOMAIN processed' : processed'[m] \in Statuses
    BY <1>8 DEF With, All, GenerateFails, Failure, TypeOK, Statuses
  <2> QED
    BY <1>8, <2>1, <2>2 DEF GenerateFails, reading, TypeOK
<1>9. CASE GenerateRaises
  <2>0. disk' = disk \/ disk' = With(disk, All({Original}, "partial"))
    BY <1>9 DEF GenerateRaises, WrittenByThen
  <2>1. disk' \in [Names -> {"absent", "partial", "short", "generated", "borrowed"}]
    <3>1. CASE disk' = disk
      BY <3>1 DEF TypeOK
    <3>2. CASE disk' = With(disk, All({Original}, "partial"))
      BY <3>2, DiskFacts, ConstantFacts
    <3> QED
      BY <2>0, <3>1, <3>2
  <2> QED
    BY <1>9, <2>1 DEF GenerateRaises, reading, TypeOK, Ended
<1>10. CASE NothingToGenerate
  BY <1>10 DEF NothingToGenerate, reading, TypeOK, Ended
<1>11. CASE Borrow
  BY <1>11 DEF Borrow, reading, TypeOK
<1>12. CASE SearchBorrowed
  <2>1. PICK found \in SUBSET borrowedMibs :
          LET dropped == {m \in borrowedMibs : m \in found \/ Excluded(m)}
              kept == borrowedMibs \ dropped
          IN  /\ builtMibs' = With(builtMibs, All(kept, "borrowed"))
              /\ processed' = With(processed, With(All(dropped, "untouched"), All(kept, "borrowed")))
    BY <1>12 DEF SearchBorrowed
  <2> DEFINE dropped == {m \in borrowedMibs : m \in found \/ Excluded(m)}
             kept == borrowedMibs \ dropped
  <2>2. kept \subseteq Names /\ dropped \subseteq Names
    BY DEF TypeOK
  <2> HIDE DEF kept, dropped
  <2>3. DOMAIN builtMibs' \subseteq Names /\ \A m \in DOMAIN builtMibs' : builtMibs'[m] \in {"generated", "borrowed"}
    BY <2>1, <2>2 DEF With, All, kept, dropped, TypeOK
  <2>4. DOMAIN processed' \subseteq Names /\ \A m \in DOMAIN processed' : processed'[m] \in Statuses
    <3> DEFINE g == With(All(dropped, "untouched"), All(kept, "borrowed"))
    <3>1. DOMAIN g = dropped \cup kept /\ \A x \in DOMAIN g : g[x] \in Statuses
      BY DEF With, All, Statuses
    <3>2. processed' = With(processed, g)
      BY <2>1 DEF kept, dropped
    <3> HIDE DEF g
    <3> QED
      BY <2>2, <3>1, <3>2 DEF With, All, TypeOK
  <2> QED
    BY <1>12, <2>3, <2>4 DEF SearchBorrowed, reading, TypeOK
<1>13. CASE Refuse
  <2>1. DOMAIN processed' \subseteq Names /\ \A m \in DOMAIN processed' : processed'[m] \in Statuses
    BY <1>13 DEF With, All, Refuse, Waived, TypeOK, Statuses
  <2> QED
    BY <1>13, <2>1 DEF Refuse, reading, TypeOK, Ended
<1>14. CASE Proceed
  BY <1>14 DEF Proceed, reading, TypeOK
<1>15. CASE Store
  <2>0. PICK m \in DOMAIN builtMibs : \E text \in Written(builtMibs[m]) :
          /\ disk' = IF options.tool = "mibdump" /\ ~options.dryRun
                       THEN With(disk, All({m}, text)) ELSE disk
          /\ processed' = With(All({m}, "compiled"), processed)
          /\ builtMibs' = Without(builtMibs, m)
    BY <1>15 DEF Store
  <2>1. PICK text \in Written(builtMibs[m]) :
          /\ disk' = IF options.tool = "mibdump" /\ ~options.dryRun
                       THEN With(disk, All({m}, text)) ELSE disk
          /\ processed' = With(All({m}, "compiled"), processed)
          /\ builtMibs' = Without(builtMibs, m)
    BY <2>0
  <2>2. m \in Names /\ text \in {"partial", "short", "generated", "borrowed"}
    BY DEF TypeOK, Written
  <2>3. disk' \in [Names -> {"absent", "partial", "short", "generated", "borrowed"}]
    BY <2>1, <2>2, DiskFacts, ConstantFacts DEF TypeOK
  <2>4. DOMAIN processed' \subseteq Names /\ \A x \in DOMAIN processed' : processed'[x] \in Statuses
    BY <2>1, <2>2 DEF With, All, TypeOK, Statuses
  <2>5. DOMAIN builtMibs' \subseteq Names /\ \A x \in DOMAIN builtMibs' : builtMibs'[x] \in {"generated", "borrowed"}
    BY <2>1 DEF Without, TypeOK
  <2> QED
    BY <1>15, <2>3, <2>4, <2>5 DEF Store, reading, TypeOK
<1>16. CASE StoreFails
  <2>1. PICK m \in DOMAIN builtMibs :
          /\ processed' = With(processed, All({m}, "failed"))
          /\ failedMibs' = failedMibs \cup {m}
          /\ builtMibs' = Without(builtMibs, m)
    BY <1>16 DEF StoreFails, StatusOfUnwritten
  <2>2. DOMAIN processed' \subseteq Names /\ \A x \in DOMAIN processed' : processed'[x] \in Statuses
    BY <2>1 DEF With, All, TypeOK, Statuses
  <2>3. DOMAIN builtMibs' \subseteq Names /\ \A x \in DOMAIN builtMibs' : builtMibs'[x] \in {"generated", "borrowed"}
    BY <2>1 DEF Without, TypeOK
  <2> QED
    BY <1>16, <2>1, <2>2, <2>3 DEF StoreFails, reading, TypeOK
<1>17. CASE Return \/ StoreRaises
  BY <1>17 DEF Return, StoreRaises, reading, TypeOK, Ended
<1>18. CASE BuildIndex \/ BuildIndexFails
  BY <1>18 DEF BuildIndex, BuildIndexFails, reading, TypeOK, Ended, Indexed
<1>19. CASE UNCHANGED vars
  BY <1>19 DEF vars, reading, TypeOK
<1> QED
  BY <1>1, <1>2, <1>3, <1>4, <1>5, <1>6, <1>7, <1>8, <1>9, <1>10, <1>11, <1>12, <1>13,
     <1>14, <1>15, <1>16, <1>17, <1>18, <1>19 DEF Next

LEMMA NextSearch == TypeOK /\ Search /\ [Next]_vars => Search'
<1> SUFFICES ASSUME TypeOK, Search, [Next]_vars PROVE Search'
  OBVIOUS
<1>1. CASE NextName
  <2>1. PICK m \in mibsToParse :
          /\ mibsToParse' = mibsToParse \ {m}
          /\ IF IsKnown(m)
               THEN UNCHANGED <<mibname, source, pc>>
               ELSE mibname' = m /\ source' = 1 /\ pc' = "read"
    BY <1>1 DEF NextName
  <2>2. Mentioned' = Mentioned /\ Tried' = Tried /\ pc = "parse"
    BY <1>1 DEF NextName, Mentioned, Tried
  <2>3. Mentioned \subseteq Tried \cup mibsToParse
    BY <2>2 DEF Search
  <2>4. CASE IsKnown(m)
    <3>1. m \in Tried
      BY <2>4 DEF IsKnown, Tried, TypeOK
    <3> QED
      BY <2>1, <2>2, <2>3, <2>4, <3>1 DEF Search
  <2>5. CASE ~IsKnown(m)
    BY <2>1, <2>2, <2>3, <2>5 DEF Search
  <2> QED
    BY <2>4, <2>5
<1>2. CASE ReadFile
  <2>1. PICK f \in Files[mibname] :
          Parsed(f) /\ failedMibs' = IF DOMAIN f.modules = {} THEN failedMibs ELSE failedMibs \ {mibname}
    BY <1>2 DEF ReadFile
  <2>2. /\ mibname' = mibname /\ answered' = answered \cup {mibname}
        /\ pc = "read" /\ pc' = "parse"
    BY <1>2 DEF ReadFile
  <2>3. /\ DOMAIN symbolTableMap \subseteq DOMAIN symbolTableMap'
        /\ Mentioned' \subseteq Mentioned \cup mibsToParse'
        /\ mibsToParse \subseteq mibsToParse'
    BY <2>1, <2>2, Reading
  <2>4. failedMibs \subseteq failedMibs' \cup {mibname}
    BY <2>1
  <2>5. Tried \cup {mibname} \subseteq Tried'
    BY <2>2, <2>3, <2>4 DEF Tried
  <2> QED
    BY <2>2, <2>3, <2>5 DEF Search
<1>3. CASE ReadFails
  <2>1. PICK f \in Files[mibname] : Parsed(f)
    BY <1>3 DEF ReadFails
  <2>2. /\ mibname' = mibname /\ answered' = answered /\ failedMibs \subseteq failedMibs'
        /\ pc = "read" /\ pc' = pc
    BY <1>3 DEF ReadFails
  <2>3. /\ DOMAIN symbolTableMap \subseteq DOMAIN symbolTableMap'
        /\ Mentioned' \subseteq Mentioned \cup mibsToParse'
        /\ mibsToParse \subseteq mibsToParse'
    BY <2>1, <2>2, Reading
  <2>4. Tried \subseteq Tried'
    BY <2>2, <2>3 DEF Tried
  <2> QED
    BY <2>2, <2>3, <2>4 DEF Search
<1>4. CASE NotFound
  BY <1>4 DEF NotFound, Search, Mentioned, Tried
<1>5. CASE SourcesExhausted
  BY <1>5 DEF SourcesExhausted, reading, Search, Mentioned, Tried
<1>6. CASE SearchParsed
  <2>1. /\ pc = "parse" /\ mibsToParse = {} /\ pc' = "generate"
        /\ UNCHANGED <<symbolTableMap, failedMibs, answered>>
    BY <1>6 DEF SearchParsed, reading
  <2> QED
    BY <2>1 DEF Search, Mentioned, Tried
<1>7. CASE Generate
  BY <1>7 DEF Generate, Search
<1>8. CASE GenerateFails
  BY <1>8 DEF GenerateFails, Search
<1>9. CASE GenerateRaises
  BY <1>9 DEF GenerateRaises, Search
<1>10. CASE NothingToGenerate
  BY <1>10 DEF NothingToGenerate, Search
<1>11. CASE Borrow
  BY <1>11 DEF Borrow, Search
<1>12. CASE SearchBorrowed
  BY <1>12 DEF SearchBorrowed, Search
<1>13. CASE Refuse
  BY <1>13 DEF Refuse, Search
<1>14. CASE Proceed
  BY <1>14 DEF Proceed, Search
<1>15. CASE Store
  BY <1>15 DEF Store, Search
<1>16. CASE StoreFails
  BY <1>16 DEF StoreFails, Search
<1>17. CASE Return \/ StoreRaises
  BY <1>17 DEF Return, StoreRaises, Search
<1>18. CASE BuildIndex \/ BuildIndexFails
  BY <1>18 DEF BuildIndex, BuildIndexFails, reading, Search
<1>19. CASE UNCHANGED vars
  BY <1>19 DEF vars, reading, Search, Mentioned, Tried
<1> QED
  BY <1>1, <1>2, <1>3, <1>4, <1>5, <1>6, <1>7, <1>8, <1>9, <1>10, <1>11, <1>12, <1>13,
     <1>14, <1>15, <1>16, <1>17, <1>18, <1>19 DEF Next

LEMMA NextBuilt == TypeOK /\ Built /\ [Next]_vars => Built'
<1> SUFFICES ASSUME TypeOK, Built, [Next]_vars PROVE Built'
  OBVIOUS
<1>1. CASE NextName
  BY <1>1 DEF NextName, Built, Generated
<1>2. CASE ReadFile
  BY <1>2 DEF ReadFile, Built, Generated
<1>3. CASE ReadFails
  BY <1>3 DEF ReadFails, Built, Generated
<1>4. CASE NotFound
  BY <1>4 DEF NotFound, Built, Generated
<1>5. CASE SourcesExhausted
  BY <1>5 DEF SourcesExhausted, Built, Generated
<1>6. CASE SearchParsed
  BY <1>6 DEF SearchParsed, Built, Generated
<1>7. CASE Generate
  <2>1. DOMAIN builtMibs' = {Original} /\ builtMibs'[Original] = "generated"
    BY <1>7 DEF Generate, Built, Generated, With, All
  <2>2. options.tool = "ops-snmpgen" => disk'[Original] \in Written("generated")
    <3>1. PICK text \in Written("generated") :
            options.tool = "ops-snmpgen" => disk' = With(disk, All({Original}, text))
      BY <1>7 DEF Generate
    <3>2. text \in {"partial", "short", "generated", "borrowed"}
      BY DEF Written
    <3>3. With(disk, All({Original}, text))[Original] = text
      BY <3>2, ConstantFacts, DiskFacts
    <3> QED
      BY <3>1, <3>3
  <2> QED
    BY <1>7, <2>1, <2>2 DEF Generate, Built, Generated
<1>8. CASE GenerateFails
  BY <1>8 DEF GenerateFails, Built, Generated
<1>9. CASE GenerateRaises
  BY <1>9 DEF GenerateRaises, Built, Generated
<1>10. CASE NothingToGenerate
  BY <1>10 DEF NothingToGenerate, Built, Generated
<1>11. CASE Borrow
  BY <1>11 DEF Borrow, Built, Generated
<1>12. CASE SearchBorrowed
  <2>1. PICK found \in SUBSET borrowedMibs :
          LET dropped == {m \in borrowedMibs : m \in found \/ Excluded(m)}
              kept == borrowedMibs \ dropped
          IN  /\ builtMibs' = With(builtMibs, All(kept, "borrowed"))
              /\ processed' = With(processed, With(All(dropped, "untouched"), All(kept, "borrowed")))
    BY <1>12 DEF SearchBorrowed
  <2> DEFINE dropped == {m \in borrowedMibs : m \in found \/ Excluded(m)}
             kept == borrowedMibs \ dropped
             g == With(All(dropped, "untouched"), All(kept, "borrowed"))
  <2>2. DOMAIN g = dropped \cup kept
    BY DEF With, All
  <2>3. processed' = With(processed, g) /\ builtMibs' = With(builtMibs, All(kept, "borrowed"))
    BY <2>1
  <2> HIDE DEF kept, dropped, g
  <2>4. DOMAIN processed' = DOMAIN processed \cup dropped \cup kept
    BY <2>2, <2>3 DEF With
  <2>5. /\ DOMAIN builtMibs' = DOMAIN builtMibs \cup kept
        /\ \A m \in kept : builtMibs'[m] = "borrowed"
        /\ \A m \in DOMAIN builtMibs \ kept : builtMibs'[m] = builtMibs[m]
    BY <2>3 DEF With, All
  <2>6. pc' = "decide" /\ UNCHANGED <<options, disk>>
    BY <1>12 DEF SearchBorrowed
  <2> QED
    BY <2>4, <2>5, <2>6 DEF Built, Generated
<1>13. CASE Refuse
  <2>1. DOMAIN processed \subseteq DOMAIN processed'
    BY <1>13 DEF Refuse, With
  <2> QED
    BY <1>13, <2>1 DEF Refuse, Built, Generated
<1>14. CASE Proceed
  BY <1>14 DEF Proceed, Built, Generated
<1>15. CASE Store
  <2>0. PICK m \in DOMAIN builtMibs : \E text \in Written(builtMibs[m]) :
          /\ disk' = IF options.tool = "mibdump" /\ ~options.dryRun
                       THEN With(disk, All({m}, text)) ELSE disk
          /\ processed' = With(All({m}, "compiled"), processed)
          /\ builtMibs' = Without(builtMibs, m)
    BY <1>15 DEF Store
  <2>1. PICK text \in Written(builtMibs[m]) :
          /\ disk' = IF options.tool = "mibdump" /\ ~options.dryRun
                       THEN With(disk, All({m}, text)) ELSE disk
          /\ processed' = With(All({m}, "compiled"), processed)
          /\ builtMibs' = Without(builtMibs, m)
    BY <2>0
  <2>2. m \in Names /\ text \in {"partial", "short", "generated", "borrowed"}
    BY DEF TypeOK, Written
  <2>3. \A x \in Names : x # m => disk'[x] = disk[x]
    <3>1. CASE disk' = disk
      BY <3>1
    <3>2. CASE disk' = With(disk, All({m}, text))
      BY <2>2, <3>2 DEF With, All, TypeOK
    <3> QED
      BY <2>1, <3>1, <3>2
  <2>4. /\ DOMAIN builtMibs' = DOMAIN builtMibs \ {m}
        /\ \A x \in DOMAIN builtMibs' : builtMibs'[x] = builtMibs[x] /\ x \in Names /\ x # m
    BY <2>1 DEF Without, TypeOK
  <2>5. DOMAIN processed \subseteq DOMAIN processed'
    BY <2>1 DEF With
  <2>6. pc = "store" /\ pc' = pc /\ options' = options
    BY <1>15 DEF Store
  <2> QED
    BY <2>3, <2>4, <2>5, <2>6 DEF Built, Generated
<1>16. CASE StoreFails
  <2>1. PICK m \in DOMAIN builtMibs :
          processed' = With(processed, All({m}, "failed")) /\ builtMibs' = Without(builtMibs, m)
    BY <1>16 DEF StoreFails, StatusOfUnwritten
  <2>2. /\ DOMAIN builtMibs' \subseteq DOMAIN builtMibs
        /\ \A x \in DOMAIN builtMibs' : builtMibs'[x] = builtMibs[x]
    BY <2>1 DEF Without
  <2>3. DOMAIN processed \subseteq DOMAIN processed'
    BY <2>1 DEF With
  <2> QED
    BY <1>16, <2>2, <2>3 DEF StoreFails, Built, Generated
<1>17. CASE Return \/ StoreRaises
  BY <1>17 DEF Return, StoreRaises, Built, Generated
<1>18. CASE BuildIndex \/ BuildIndexFails
  BY <1>18 DEF BuildIndex, BuildIndexFails, reading, Built, Generated
<1>19. CASE UNCHANGED vars
  BY <1>19 DEF vars, Built, Generated
<1> QED
  BY <1>1, <1>2, <1>3, <1>4, <1>5, <1>6, <1>7, <1>8, <1>9, <1>10, <1>11, <1>12, <1>13,
     <1>14, <1>15, <1>16, <1>17, <1>18, <1>19 DEF Next

LEMMA NextReported == TypeOK /\ Built /\ Reported /\ [Next]_vars => Reported'
<1> SUFFICES ASSUME TypeOK, Built, Reported, [Next]_vars PROVE Reported'
  OBVIOUS
<1>1. CASE NextName
  <2>1. pc = "parse" /\ pc' \in {"parse", "read"} /\ processed' = processed
    BY <1>1 DEF NextName
  <2> QED
    BY <2>1 DEF Reported, Storing
<1>2. CASE ReadFile
  BY <1>2 DEF ReadFile, Reported, Storing
<1>3. CASE ReadFails
  <2>1. pc = "read"
    BY <1>3 DEF ReadFails
  <2>2. processed' = With(processed, All({mibname}, "failed"))
    BY <1>3 DEF ReadFails
  <2>3. \A m \in DOMAIN processed' :
          /\ m \in {mibname} => processed'[m] = "failed"
          /\ m \notin {mibname} => m \in DOMAIN processed /\ processed'[m] = processed[m]
    BY <2>2 DEF With, All
  <2> QED
    BY <2>1, <2>3 DEF Reported, Storing
<1>4. CASE NotFound
  BY <1>4 DEF NotFound, Reported, Storing
<1>5. CASE SourcesExhausted
  <2>1. pc = "read"
    BY <1>5 DEF SourcesExhausted
  <2>2. processed' = With(All({mibname}, "missing"), processed)
    BY <1>5 DEF SourcesExhausted
  <2>3. \A m \in DOMAIN processed' :
          /\ m \notin DOMAIN processed => processed'[m] = "missing"
          /\ m \in DOMAIN processed => m \in DOMAIN processed /\ processed'[m] = processed[m]
    BY <2>2 DEF With, All
  <2> QED
    BY <2>1, <2>3 DEF Reported, Storing
<1>6. CASE SearchParsed
  <2>1. pc = "parse"
    BY <1>6 DEF SearchParsed
  <2>2. PICK D \in SUBSET parsedMibs : processed' = With(processed, All(D, "untouched"))
    BY <1>6 DEF SearchParsed
  <2>3. \A m \in DOMAIN processed' :
          /\ m \in D => processed'[m] = "untouched"
          /\ m \notin D => m \in DOMAIN processed /\ processed'[m] = processed[m]
    BY <2>2 DEF With, All
  <2> QED
    BY <2>1, <2>3 DEF Reported, Storing
<1>7. CASE Generate
  BY <1>7 DEF Generate, Reported, Storing
<1>8. CASE GenerateFails
  <2>1. pc = "generate"
    BY <1>8 DEF GenerateFails, Failure
  <2>2. processed' = With(processed, All({Original}, "failed"))
    BY <1>8 DEF GenerateFails, Failure
  <2>3. \A m \in DOMAIN processed' :
          /\ m \in {Original} => processed'[m] = "failed"
          /\ m \notin {Original} => m \in DOMAIN processed /\ processed'[m] = processed[m]
    BY <2>2 DEF With, All
  <2> QED
    BY <2>1, <2>3 DEF Reported, Storing
<1>9. CASE GenerateRaises
  BY <1>9 DEF GenerateRaises, Reported, Storing
<1>10. CASE NothingToGenerate
  BY <1>10 DEF NothingToGenerate, Reported, Storing
<1>11. CASE Borrow
  BY <1>11 DEF Borrow, Reported, Storing
<1>12. CASE SearchBorrowed
  <2>1. PICK found \in SUBSET borrowedMibs :
          LET dropped == {m \in borrowedMibs : m \in found \/ Excluded(m)}
              kept == borrowedMibs \ dropped
          IN  /\ builtMibs' = With(builtMibs, All(kept, "borrowed"))
              /\ processed' = With(processed, With(All(dropped, "untouched"), All(kept, "borrowed")))
    BY <1>12 DEF SearchBorrowed
  <2> DEFINE dropped == {m \in borrowedMibs : m \in found \/ Excluded(m)}
             kept == borrowedMibs \ dropped
             g == With(All(dropped, "untouched"), All(kept, "borrowed"))
  <2>2. \A x \in DOMAIN g : g[x] = "untouched" \/ x \in kept
    BY DEF With, All
  <2>3. processed' = With(processed, g) /\ builtMibs' = With(builtMibs, All(kept, "borrowed"))
    BY <2>1
  <2> HIDE DEF kept, dropped, g
  <2>4. \A m \in DOMAIN processed' :
          \/ processed'[m] = "untouched" \/ m \in kept
          \/ m \in DOMAIN processed /\ processed'[m] = processed[m]
    BY <2>2, <2>3 DEF With
  <2>5. \A m \in kept : m \in DOMAIN builtMibs' /\ builtMibs'[m] = "borrowed"
    BY <2>3 DEF With, All
  <2>6. pc = "need borrowing" /\ pc' = "decide"
    BY <1>12 DEF SearchBorrowed
  <2>7. \A m \in DOMAIN processed : processed[m] # "compiled" /\ processed[m] # "borrowed"
    BY <2>6 DEF Reported, Storing
  <2>8. \A m \in kept : m \in DOMAIN processed' => processed'[m] = "borrowed"
    <3>1. \A m \in kept : m \in DOMAIN g /\ g[m] = "borrowed"
      BY DEF g, With, All
    <3> QED
      BY <2>3, <3>1 DEF With
  <2> QED
    BY <2>4, <2>5, <2>6, <2>7, <2>8 DEF Reported, Storing
<1>13. CASE Refuse
  <2>1. \A m \in DOMAIN processed' :
          \/ processed'[m] = "unprocessed"
          \/ m \in DOMAIN processed /\ m \notin DOMAIN builtMibs /\ processed'[m] = processed[m]
    BY <1>13 DEF Refuse, Waived, With, All
  <2>2. pc = "decide" /\ pc' = "refused"
    BY <1>13 DEF Refuse
  <2> QED
    BY <2>1, <2>2 DEF Reported, Storing
<1>14. CASE Proceed
  BY <1>14 DEF Proceed, Reported, Storing
<1>15. CASE Store
  <2>0. PICK m \in DOMAIN builtMibs : \E text \in Written(builtMibs[m]) :
          /\ disk' = IF options.tool = "mibdump" /\ ~options.dryRun
                       THEN With(disk, All({m}, text)) ELSE disk
          /\ processed' = With(All({m}, "compiled"), processed)
          /\ builtMibs' = Without(builtMibs, m)
    BY <1>15 DEF Store
  <2>1. PICK text \in Written(builtMibs[m]) :
          /\ disk' = IF options.tool = "mibdump" /\ ~options.dryRun
                       THEN With(disk, All({m}, text)) ELSE disk
          /\ processed' = With(All({m}, "compiled"), processed)
          /\ builtMibs' = Without(builtMibs, m)
    BY <2>0
  <2>2. m \in Names /\ text \in {"partial", "short", "generated", "borrowed"}
    BY DEF TypeOK, Written
  <2>3. /\ \A x \in Names : x # m => disk'[x] = disk[x]
        /\ options.tool = "mibdump" /\ ~options.dryRun => disk'[m] \in Written(builtMibs[m])
        /\ ~(options.tool = "mibdump" /\ ~options.dryRun) => disk' = disk
    <3>1. CASE ~(options.tool = "mibdump" /\ ~options.dryRun)
      BY <2>1, <3>1
    <3>2. CASE options.tool = "mibdump" /\ ~options.dryRun
      <4>1. disk' = With(disk, All({m}, text)) /\ text \in Written(builtMibs[m])
        BY <2>1, <3>2
      <4> QED
        BY <2>2, <3>2, <4>1 DEF With, All, TypeOK
    <3> QED
      BY <3>1, <3>2
  <2>4. /\ DOMAIN builtMibs' = DOMAIN builtMibs \ {m}
        /\ \A x \in DOMAIN builtMibs' : builtMibs'[x] = builtMibs[x]
    BY <2>1 DEF Without
  <2>5. \A x \in DOMAIN processed' :
          \/ x \in DOMAIN processed /\ processed'[x] = processed[x]
          \/ x = m /\ x \notin DOMAIN processed /\ processed'[x] = "compiled"
    BY <2>1 DEF With, All
  <2>6. pc = "store" /\ pc' = pc /\ options' = options /\ DOMAIN processed \subseteq Names
    BY <1>15 DEF Store, TypeOK
  <2>7. options.tool \in {"ops-snmpgen", "mibdump"}
    BY MibCompilerAssumption DEF TypeOK, Options
  <2> SUFFICES ASSUME NEW x \in DOMAIN processed'
               PROVE  /\ processed'[x] = "compiled" =>
                           /\ pc' \in Storing /\ x \notin DOMAIN builtMibs'
                           /\ options'.dryRun \/ disk'[x] \in Written("generated")
                      /\ processed'[x] = "borrowed" =>
                           \/ /\ pc' \in {"decide", "store", "exception"} /\ x \in DOMAIN builtMibs'
                              /\ builtMibs'[x] = "borrowed"
                           \/ /\ pc' \in Storing /\ x \notin DOMAIN builtMibs'
                              /\ options'.dryRun \/ options'.tool # "mibdump" \/ disk'[x] \in Written("borrowed")
    BY DEF Reported
  <2>8. CASE x # m
    <3>1. x \in DOMAIN processed /\ processed'[x] = processed[x] /\ disk'[x] = disk[x]
      BY <2>3, <2>5, <2>6, <2>8
    <3> QED
      BY <2>4, <2>6, <2>8, <3>1 DEF Reported
  <2>9. CASE x = m /\ x \in DOMAIN processed
    <3>1. processed'[m] = processed[m] /\ m \notin DOMAIN builtMibs'
      BY <2>4, <2>5, <2>9
    <3>2. processed[m] # "compiled"
      BY <2>9 DEF Reported
    <3>3. processed[m] = "borrowed" => builtMibs[m] = "borrowed"
      BY <2>9 DEF Reported
    <3> QED
      BY <2>3, <2>6, <2>9, <3>1, <3>2, <3>3 DEF Storing
  <2>10. CASE x = m /\ x \notin DOMAIN processed
    <3>1. processed'[m] = "compiled" /\ m \notin DOMAIN builtMibs'
      BY <2>4, <2>5, <2>10
    <3>2. builtMibs[m] = "generated" /\ (options.tool = "ops-snmpgen" => disk[m] \in Written("generated"))
      BY <2>10 DEF Built
    <3>3. options.dryRun \/ disk'[m] \in Written("generated")
      BY <2>3, <2>7, <3>2
    <3> QED
      BY <2>6, <2>10, <3>1, <3>3 DEF Storing
  <2> QED
    BY <2>8, <2>9, <2>10
<1>16. CASE StoreFails
  <2>1. PICK m \in DOMAIN builtMibs :
          processed' = With(processed, All({m}, "failed")) /\ builtMibs' = Without(builtMibs, m)
    BY <1>16 DEF StoreFails, StatusOfUnwritten
  <2>2. /\ DOMAIN builtMibs' = DOMAIN builtMibs \ {m}
        /\ \A x \in DOMAIN builtMibs' : builtMibs'[x] = builtMibs[x]
    BY <2>1 DEF Without
  <2>3. \A x \in DOMAIN processed' :
          \/ processed'[x] = "failed"
          \/ x # m /\ x \in DOMAIN processed /\ processed'[x] = processed[x]
    BY <2>1 DEF With, All
  <2>4. UNCHANGED <<options, disk, pc>>
    BY <1>16 DEF StoreFails
  <2> QED
    BY <2>2, <2>3, <2>4 DEF Reported
<1>17. CASE Return \/ StoreRaises
  BY <1>17 DEF Return, StoreRaises, Reported, Storing
<1>18. CASE BuildIndex \/ BuildIndexFails
  BY <1>18 DEF BuildIndex, BuildIndexFails, reading, Reported, Storing
<1>19. CASE UNCHANGED vars
  BY <1>19 DEF vars, Reported
<1> QED
  BY <1>1, <1>2, <1>3, <1>4, <1>5, <1>6, <1>7, <1>8, <1>9, <1>10, <1>11, <1>12, <1>13,
     <1>14, <1>15, <1>16, <1>17, <1>18, <1>19 DEF Next

LEMMA NextOriginal == TypeOK /\ OriginalIsKept /\ [Next]_vars => OriginalIsKept'
<1> SUFFICES ASSUME TypeOK, OriginalIsKept, [Next]_vars PROVE OriginalIsKept'
  OBVIOUS
<1> USE DEF OriginalIsKept, Generated
<1>1. CASE NextName
  <2>1. pc' \in {"parse", "read"}
    BY <1>1 DEF NextName
  <2> QED
    BY <2>1
<1>2. CASE ReadFile \/ ReadFails \/ NotFound \/ SourcesExhausted \/ SearchParsed
  BY <1>2 DEF ReadFile, ReadFails, NotFound, SourcesExhausted, SearchParsed
<1>3. CASE Generate
  BY <1>3 DEF Generate, With, All
<1>4. CASE GenerateFails
  BY <1>4 DEF GenerateFails, Failure, With, All
<1>5. CASE GenerateRaises \/ NothingToGenerate
  BY <1>5 DEF GenerateRaises, NothingToGenerate
<1>6. CASE Borrow
  BY <1>6 DEF Borrow
<1>7. CASE SearchBorrowed
  <2>1. /\ DOMAIN builtMibs \subseteq DOMAIN builtMibs' /\ DOMAIN processed \subseteq DOMAIN processed'
        /\ pc = "need borrowing" /\ pc' = "decide"
    BY <1>7 DEF SearchBorrowed, With
  <2> QED
    BY <2>1
<1>8. CASE Refuse
  <2>1. DOMAIN processed' = DOMAIN processed \cup DOMAIN builtMibs
    BY <1>8 DEF Refuse, Waived, With, All
  <2> QED
    BY <1>8, <2>1 DEF Refuse
<1>9. CASE Proceed \/ StoreRaises \/ Return \/ BuildIndex \/ BuildIndexFails
  BY <1>9 DEF Proceed, StoreRaises, Return, BuildIndex, BuildIndexFails
<1>10. CASE Store
  <2>1. PICK m \in DOMAIN builtMibs :
          processed' = With(All({m}, "compiled"), processed) /\ builtMibs' = Without(builtMibs, m)
    BY <1>10 DEF Store
  <2>2. DOMAIN processed' = DOMAIN processed \cup {m} /\ DOMAIN builtMibs' = DOMAIN builtMibs \ {m}
    BY <2>1 DEF With, All, Without
  <2> QED
    BY <1>10, <2>2 DEF Store
<1>11. CASE StoreFails
  <2>1. PICK m \in DOMAIN builtMibs :
          processed' = With(processed, All({m}, "failed")) /\ builtMibs' = Without(builtMibs, m)
    BY <1>11 DEF StoreFails, StatusOfUnwritten
  <2>2. DOMAIN processed' = DOMAIN processed \cup {m} /\ DOMAIN builtMibs' = DOMAIN builtMibs \ {m}
    BY <2>1 DEF With, All, Without
  <2> QED
    BY <1>11, <2>2 DEF StoreFails
<1>12. CASE UNCHANGED vars
  BY <1>12 DEF vars
<1> QED
  BY <1>1, <1>2, <1>3, <1>4, <1>5, <1>6, <1>7, <1>8, <1>9, <1>10, <1>11, <1>12 DEF Next

-----------------------------------------------------------------------------
(* The theorems.                                                           *)

\* The strengthening is an invariant of compile.
THEOREM Invariant == Spec => []IInv
<1>1. IInv /\ [Next]_vars => IInv'
  BY NextTypeOK, NextSearch, NextBuilt, NextReported, NextOriginal DEF IInv
<1> QED
  BY <1>1, InitIInv, PTL DEF Spec

\* Every variable of compile keeps its type.
THEOREM TypeCorrect == Spec => []TypeOK
<1>1. IInv => TypeOK
  BY DEF IInv
<1> QED
  BY <1>1, Invariant, PTL

\* When the generator starts, what was requested and what a parsed module
\* imports has been looked for.
THEOREM NoImportForgotten == Spec => []NoImportIsForgotten
<1>1. IInv => NoImportIsForgotten
  BY DEF IInv, Search, Mentioned, Tried, NoImportIsForgotten
<1> QED
  BY <1>1, Invariant, PTL

\* A run that ends with a report has stored what it reports as compiled or
\* borrowed, as far as the disk had room.
THEOREM ReportedStored == Spec => []ReportedIsStored
<1>1. IInv => ReportedIsStored
  <2> SUFFICES ASSUME IInv, pc \in {"returned", "refused"}, ~options.dryRun, NEW m \in DOMAIN processed
               PROVE  /\ processed[m] = "compiled" => disk[m] \in Written("generated")
                      /\ processed[m] = "borrowed" /\ options.tool = "mibdump" => disk[m] \in Written("borrowed")
    BY DEF ReportedIsStored
  <2> QED
    BY DEF IInv, Reported
<1> QED
  BY <1>1, Invariant, PTL

\* A run that is given up reports no success.
THEOREM RefusedNoSuccess == Spec => []RefusedReportsNoSuccess
<1>1. IInv => RefusedReportsNoSuccess
  BY DEF IInv, Reported, Storing, RefusedReportsNoSuccess
<1> QED
  BY <1>1, Invariant, PTL

\* A run that ends with a report says what became of the first MIB.
THEOREM OriginalReported == Spec => []OriginalIsReported
<1>1. IInv => OriginalIsReported
  BY DEF IInv, OriginalIsKept, Built, Generated, OriginalIsReported
<1> QED
  BY <1>1, Invariant, PTL
=============================================================================
