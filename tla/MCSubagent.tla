----------------------------- MODULE MCSubagent -----------------------------
(* Two plugins and the two signals.                                        *)
EXTENDS Subagent

CONSTANTS p1, p2
=============================================================================
