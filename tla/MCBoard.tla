------------------------------ MODULE MCBoard ------------------------------
(***************************************************************************)
(* The instance of Board that TLC checks: a ring of three slots gone round *)
(* twice and more, stamps both behind and ahead of the clock, and requests *)
(* below, at and above what the ring holds.                                *)
(***************************************************************************)
EXTENDS Board

MCStamps == {0, 3}
MCAsked  == -1..4

=============================================================================
