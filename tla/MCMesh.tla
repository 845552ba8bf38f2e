------------------------------- MODULE MCMesh -------------------------------
(***************************************************************************)
(* Instances of Mesh for TLC.                                              *)
(***************************************************************************)
EXTENDS Mesh, TLC

\* No action and no property tells one message from another.
MessageSymmetry == Permutations(Message)

\* Nor one server from another.
Symmetry == Permutations(Server) \cup Permutations(Message)

\* To find a counterexample sooner: at most one server is inside an iteration
\* of its loop.  Only runs that look for a violation use it.
OneAtATime == Cardinality({s \in Server : phase[s] = "loop" /\ ~AtSelect(s)}) < 2

=============================================================================
