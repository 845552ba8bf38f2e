----------------------------- MODULE BoundedLog -----------------------------
(***************************************************************************)
(* What the message board of one server promises, with no ring, no index   *)
(* arithmetic and no overflow flag: it keeps the last Capacity messages in *)
(* the order in which they were added, every message is stamped no lower   *)
(* than the logical clock, which then moves past the stamp, and a request  *)
(* for n messages is answered with the last n of those kept.               *)
(***************************************************************************)
EXTENDS Window

CONSTANTS Capacity,    \* how many messages it keeps
          Message      \* the texts that can be published

VARIABLES window,      \* the messages kept, oldest first
          clock,       \* the stamp a message published next would take
          reply        \* the messages of the last answer sent

vars == <<window, clock, reply>>

Init == window = <<>> /\ clock = 0 /\ reply = <<>>

\* The stamp taken is the one just below the clock's new value.
Add(m) ==
  /\ clock' > clock
  /\ window' = Push(window, [lc |-> clock' - 1, msg |-> m], Capacity)
  /\ UNCHANGED reply

Read(n) ==
  /\ reply' = Latest(window, n)
  /\ UNCHANGED <<window, clock>>

Next == (\E m \in Message : Add(m)) \/ (\E n \in 1..Capacity : Read(n))

Spec == Init /\ [][Next]_vars

=============================================================================
