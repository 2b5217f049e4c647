--------------------------- MODULE MCMibCompiler ---------------------------
(* Two requested MIBs, one that is imported and one that no source has: a   *)
(* cycle of imports, files with two modules, with an error at the end or    *)
(* none, an empty file, and one that declares a module of another name.     *)
EXTENDS MibCompiler, TLC

MCNames == {"A", "B", "C", "D"}

File(modules, ok) == [modules |-> modules, ok |-> ok]

None == [m \in {} |-> {}]

MCFiles ==
  [m \in MCNames |->
     CASE m = "A" -> {File("A" :> {"B", "C"}, TRUE), File(None, FALSE),
                      File("A" :> {"B"} @@ "D" :> {"C"}, TRUE),
                      File("A" :> {"B"} @@ "C" :> {"D"}, FALSE)}
       [] m = "B" -> {File("B" :> {"A"}, TRUE), File(None, TRUE)}
       [] m = "C" -> {File("C" :> {"A"}, TRUE), File("B" :> {"A"}, FALSE), File("A" :> {}, TRUE)}
       [] m = "D" -> {}]
=============================================================================
