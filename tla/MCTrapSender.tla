---------------------------- MODULE MCTrapSender ----------------------------
(* A trap receiver whose row has no community and an inform receiver of one,
   an inform and a trap receiver of users.                                *)
EXTENDS TrapSender

MCReceivers ==
  { [name |-> "",        version |-> "v1",  type |-> "trap"],
    [name |-> "private", version |-> "v2c", type |-> "inform"],
    [name |-> "admin",   version |-> "v3",  type |-> "inform"],
    [name |-> "guest",   version |-> "v3",  type |-> "trap"] }
=============================================================================
