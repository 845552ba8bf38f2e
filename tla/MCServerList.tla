---------------------------- MODULE MCServerList ----------------------------
(* The instance of ServerList that TLC checks. *)
EXTENDS ServerList

=============================================================================
