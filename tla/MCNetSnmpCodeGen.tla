------------------------- MODULE MCNetSnmpCodeGen -------------------------
(* A main MIB with a type over an imported one, scalars, a table, a table   *)
(* that augments it and a trap; a MIB of textual conventions; another that  *)
(* shares names with the main MIB, in several orders of the clauses.        *)
EXTENDS NetSnmpCodeGen, TLC

C(kind, name, syntax, parent) ==
  [kind |-> kind, name |-> name, syntax |-> syntax, parent |-> parent,
   index |-> <<>>, augments |-> None, objects |-> <<>>, defval |-> None]

Top    == C("node", "top", None, "mib_2")
Own    == C("type", "Own", "Name", None)
Scalar == [C("scalar", "scalar", "Own", "top") EXCEPT !.defval = "fits"]
Count  == C("scalar", "count", "Counter32", "top")
Flags  == C("scalar", "flags", "Flags", "top")
Table  == C("table", "table", None, "top")
Row    == [C("row", "row", None, "table") EXCEPT !.index = <<"key">>]
Key    == C("column", "key", "Integer32", "row")
Value  == C("column", "value", "Name", "row")
More   == C("table", "more", None, "top")
MoreOf == [C("row", "moreRow", None, "more") EXCEPT !.augments = "row"]
Extra  == C("column", "extra", "Own", "moreRow")
Trap   == [C("notification", "trap", None, "top") EXCEPT !.objects = <<"scalar", "value">>]

Tidy == <<Top, Own, Scalar, Count, Flags, Table, Row, Key, Value, More, MoreOf, Extra, Trap>>

MainTexts ==
  { Tidy,
    <<Top, Own, Trap, Extra, More, MoreOf>>,               \* a column before its row
    <<Top, Row, Table>>,                              \* a row before its table
    <<Top, Own, [Scalar EXCEPT !.defval = "unfit"]>>,
    <<Top, [Flags EXCEPT !.defval = "bits"]>>,
    <<Top, Own, [Count EXCEPT !.parent = "Own"]>>,    \* a type as parent
    <<Top, Table, Row, Key>>,
    <<Top, C("scalar", "scalar", "Bits", "top")>>,
    <<Top, Table, [Row EXCEPT !.index = <<"INTEGER">>], Key>>,
    <<Top, Table, Row, Key, [More EXCEPT !.parent = "top"], [MoreOf EXCEPT !.augments = None, !.index = <<"key">>], Extra, Own, Scalar, Trap>>,
    <<Top, [Trap EXCEPT !.objects = <<"count", "elsewhere">>], Count>> }

OtherTexts ==
  { <<>>,
    <<C("scalar", "elsewhere", "Integer32", "top"), C("node", "top", None, "mib_2")>>,
    <<C("node", "odd", None, "mib_2"), C("type", "Own", "Odd", None), C("type", "Odd", "Integer32", None),
      C("scalar", "scalar", "Own", "odd")>>,
    <<C("node", "odd", None, "mib_2"), C("scalar", "elsewhere", "Label", "odd"),
      [C("notification", "trap2", None, "odd") EXCEPT !.objects = <<"elsewhere">>]>>,
    <<C("node", "odd", None, "gone"), C("type", "Label", "Integer32", None)>>,
    <<C("node", "odd", None, "mib_2"), C("type", "Alias", "Lost", None)>>,
    <<C("node", "odd", None, "mib_2"), C("type", "Alias", "Label", None)>>,
    <<C("node", "odd", None, "mib_2"), C("scalar", "value", "Integer32", "odd"),
      [C("notification", "trap2", None, "odd") EXCEPT !.objects = <<"value">>]>>,
    <<C("node", "odd", None, "mib_2"), C("scalar", "value", "Integer32", "odd"),
      [C("notification", "trap", None, "odd") EXCEPT !.objects = <<"value">>],
      [C("notification", "trap2", None, "odd") EXCEPT !.objects = <<"value">>]>>,
    <<C("node", "odd", None, "mib_2"), C("table", "others", None, "odd"),
      [C("row", "othersRow", None, "others") EXCEPT !.index = <<"key">>],
      C("column", "value2", "Integer32", "othersRow")>>,
    <<C("node", "odd", None, "mib_2"),                \* an object that Main imports and Other does not
      [C("notification", "trap2", None, "odd") EXCEPT !.objects = <<"smiObject">>]>> }

TcText == <<C("type", "Name", "Label", None), C("type", "Label", "OctetString", None), C("type", "Flags", "Bits", None)>>

SmiText == <<C("node", "mib_2", None, Iso), C("type", "Counter32", "Integer32", None),
             C("scalar", "smiObject", "Integer32", "mib_2")>>

Imported(names, m) == [n \in names |-> m]

MCImports ==
  [Main  |-> Imported({"Name", "Flags"}, "Tc") @@ Imported({"mib_2", "Counter32", "smiObject"}, "Smi")
               @@ Imported({"elsewhere", "Alias"}, "Other"),
   Other |-> Imported({"Label"}, "Tc") @@ Imported({"Lost", "gone"}, "Gone") @@ Imported({"mib_2"}, "Smi") @@ Imported({"key"}, "Main"),
   Tc    |-> <<>>,
   Smi   |-> <<>>]

Reads(n, row) == n :> row

MCMappings ==
  { Reads("scalar", Reads("scalar", "system")),
    Reads("scalar", Reads("scalar", "system"))
      @@ Reads("table", [c \in {"key", "value"} |-> "port"])
      @@ Reads("more", ("key" :> "interface") @@ ("extra" :> "interface"))
      @@ Reads("others", [c \in {"key", "value2"} |-> "port"]),
    Reads("scalar", Reads("scalar", "system")) @@ Reads("count", Reads("count", "system"))
      @@ Reads("table", [c \in {"key", "value"} |-> "port"])
      @@ Reads("more", [c \in {"key", "extra"} |-> "port"]) }

\* The orders of the dict of modules; the textual conventions may be missing.
MCKnown == { <<"Main", "Tc", "Other", "Smi">>, <<"Other", "Smi", "Tc", "Main">>, <<"Smi", "Other", "Main">> }

MCJobs ==
  { [main |-> "Main",
     text |-> [Main |-> main, Other |-> other, Tc |-> TcText, Smi |-> SmiText],
     imports |-> MCImports, known |-> known, handed |-> {"Main", "Other"} \cup tc,
     mapping |-> mapping, json |-> json] :
    main \in MainTexts, other \in OtherTexts, known \in MCKnown, tc \in {{}, {"Tc"}},
    mapping \in MCMappings, json \in {<<>>, <<"table">>} }

MCJobsInUse == {j \in MCJobs : j.handed \subseteq {j.known[i] : i \in DOMAIN j.known}}
=============================================================================
