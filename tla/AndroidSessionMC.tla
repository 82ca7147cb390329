------------------------- MODULE AndroidSessionMC --------------------------
(* Small instances of AndroidSession for TLC, and the abstraction of its   *)
(* states to those of SessionContract.                                     *)
EXTENDS AndroidSessionInv

PlainOnly == {[agc |-> FALSE, biast |-> FALSE]}

=============================================================================
