------------------------------ MODULE Bulletin ------------------------------
(***************************************************************************)
(* What the message servers promise together, with no sockets, no frames   *)
(* and no event loop: a message enters the system once, at one server,     *)
(* under a stamp above that of every message this server has taken in so   *)
(* far, and it can reach other servers only after that.                    *)
(***************************************************************************)
EXTENDS Integers

CONSTANTS Server, Message

VARIABLES stamp,       \* stamp[m]: the stamp m was published under, or Unpublished
          deps,        \* deps[m]: what the publishing server had taken in before m
          seen         \* seen[s]: the messages server s has taken in

vars == <<stamp, deps, seen>>

Unpublished == -1

Init ==
  /\ stamp = [m \in Message |-> Unpublished]
  /\ deps = [m \in Message |-> {}]
  /\ seen = [s \in Server |-> {}]

Publish(s, m) ==
  /\ stamp[m] = Unpublished
  /\ stamp'[m] \in Nat
  /\ \A n \in seen[s] : stamp[n] < stamp'[m]
  /\ stamp' = [stamp EXCEPT ![m] = stamp'[m]]
  /\ deps' = [deps EXCEPT ![m] = seen[s]]
  /\ seen' = [seen EXCEPT ![s] = @ \cup {m}]

Deliver(s, m) ==
  /\ stamp[m] # Unpublished
  /\ seen' = [seen EXCEPT ![s] = @ \cup {m}]
  /\ UNCHANGED <<stamp, deps>>

Next == \E s \in Server, m \in Message : Publish(s, m) \/ Deliver(s, m)

Spec == Init /\ [][Next]_vars

=============================================================================
