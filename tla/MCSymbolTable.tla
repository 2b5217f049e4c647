--------------------------- MODULE MCSymbolTable ---------------------------
(* The clauses, in every order and number: a chain of three types, the last *)
(* of which may be declared as the first, a table with its SEQUENCE, its    *)
(* row and a row that augments it, under an imported or a declared node.    *)
EXTENDS SymbolTable, TLC

Plain == [name |-> "none", syntax |-> None, table_of |-> None, augments |-> None,
          fakes |-> <<>>, oid |-> {}, is_sequence |-> FALSE]

MCDeclarations ==
  { [Plain EXCEPT !.name = "A", !.syntax = "Integer32"],
    [Plain EXCEPT !.name = "B", !.syntax = "A"],
    [Plain EXCEPT !.name = "C", !.syntax = "B"],
    [Plain EXCEPT !.name = "A", !.syntax = "C"],
    [Plain EXCEPT !.name = "Entry", !.is_sequence = TRUE],
    [Plain EXCEPT !.name = "table", !.table_of = "Entry", !.oid = {"node"}],
    [Plain EXCEPT !.name = "entry", !.syntax = "Entry", !.oid = {"table"}, !.fakes = <<"fake">>],
    [Plain EXCEPT !.name = "more", !.syntax = "Entry", !.augments = "entry", !.oid = {"entry"}] }

MCNames == {d.name : d \in MCDeclarations} \cup {"none", "node", "fake", "mib_2", "Integer32"}

Old == "RFC1213_MIB"
New == "SNMPv2_SMI"

MCModuleOrder == <<Old, New>>

MCImports ==
  { (Old :> {"mib_2", "node"}) @@ (New :> {}),
    (Old :> {}) @@ (New :> {"A"}) }

MCConvert == <<Old, "mib_2">> :> {<<New, "mib_2">>}

MCConstImports == (Old :> {}) @@ (New :> {"Integer32"})
=============================================================================
