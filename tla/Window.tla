------------------------------- MODULE Window -------------------------------
(***************************************************************************)
(* The last elements of a growing sequence, oldest first.  The ring of     *)
(* util_matrix.c keeps exactly this of the messages added to it; the       *)
(* modules above this one use the window in place of the ring.             *)
(***************************************************************************)
EXTENDS Integers, Sequences

Lesser(a, b)  == IF a < b THEN a ELSE b
Greater(a, b) == IF a > b THEN a ELSE b

\* The last n elements of w, or all of them when there are fewer.
Latest(w, n) ==
  LET k == Lesser(n, Len(w)) IN [i \in 1..k |-> w[Len(w) - k + i]]

\* The window of the last n elements after x has been added to it.
Push(w, x, n) == Latest(Append(w, x), n)

=============================================================================
