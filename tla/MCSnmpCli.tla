----------------------------- MODULE MCSnmpCli -----------------------------
(* Two sessions, v2c and v3 receivers, one user whose name is also a    *)
(* community's, and limits of one (the trap limit admits two).              *)
EXTENDS SnmpCli, TLC

CONSTANTS good, bad, n1, n2, x, v1, s1, s2

MCReceivers ==
  {[address |-> good, port |-> 162, version |-> "v2c", type |-> "trap"],
   [address |-> good, port |-> 162, version |-> "v3",  type |-> "trap"],
   [address |-> good, port |-> 162, version |-> "v2c", type |-> "inform"],
   [address |-> bad,  port |-> 162, version |-> "v2c", type |-> "trap"]}

\* What the protocols are does not matter here.
MCSecurities == {[auth |-> "md5", priv |-> "aes"]}

\* The sessions are interchangeable; nothing here is a liveness property.
SessionSymmetry == Permutations(Sessions)
=============================================================================
