----------------------------- MODULE MCMibStore -----------------------------
(* A package directory with an old text of the requested MIB, an egg that     *)
(* holds both MIBs, and no package at all.                                    *)
EXTENDS MibStore, TLC

Py(t) == [text |-> Text(1, 1, 0, "whole"), at |-> t]

Pyc(t) == [text |-> Text(1, 1, 0, "whole"), stamp |-> t]

Nothing == [py |-> None, pyc |-> None]

Package(layout, dotted, main, dep) ==
  [layout |-> layout, dotted |-> dotted, holds |-> [m \in {Main, Dep} |-> IF m = Main THEN main ELSE dep]]

NoPackage == Package("none", FALSE, Nothing, Nothing)

OldPackage == Package("directory", FALSE, [py |-> Py(0), pyc |-> None], [py |-> None, pyc |-> Pyc(1)])

Egg == Package("egg", TRUE, [py |-> Py(1), pyc |-> None], [py |-> None, pyc |-> Pyc(1)])

Mibdump(rebuild, pyCompile, dryRun) ==
  [tool |-> "mibdump", rebuild |-> rebuild, pyCompile |-> pyCompile, dryRun |-> dryRun]

Snmpgen(dryRun) == [tool |-> "ops-snmpgen", rebuild |-> FALSE, pyCompile |-> FALSE, dryRun |-> dryRun]

MCSites == {
  [origin |-> "file", index |-> 2, package |-> OldPackage, stubs |-> {},
   options |-> {Mibdump(FALSE, TRUE, FALSE), Mibdump(TRUE, FALSE, FALSE), Mibdump(FALSE, TRUE, TRUE), Snmpgen(FALSE)}],
  [origin |-> "http", index |-> 0, package |-> Egg, stubs |-> {},
   options |-> {Mibdump(FALSE, TRUE, FALSE), Snmpgen(TRUE)}],
  [origin |-> "ftp", index |-> 0, package |-> NoPackage, stubs |-> {Dep},
   options |-> {Mibdump(FALSE, TRUE, FALSE), Mibdump(TRUE, FALSE, FALSE)}] }

Symmetry == Permutations(Runs)
=============================================================================
