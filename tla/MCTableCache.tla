---------------------------- MODULE MCTableCache ----------------------------
(* Two rows that may have the same index, one that has no index and one the *)
(* SkipFunction leaves out; tables that are cached, by default and never.   *)
EXTENDS TableCache

Row(i, d, s) == [index |-> i, data |-> d, skip |-> s]

MCContents == {Row(1, "u", FALSE), Row(1, "v", FALSE), Row(2, "u", FALSE), Row(0, "u", FALSE), Row(2, "u", TRUE)}

MCTimeouts == {-1, 0, 1}
=============================================================================
