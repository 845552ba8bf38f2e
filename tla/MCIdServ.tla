------------------------------ MODULE MCIdServ ------------------------------
(* The instance of IdServ that TLC checks. *)
EXTENDS IdServ

=============================================================================
