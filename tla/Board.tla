------------------------------- MODULE Board -------------------------------
(***************************************************************************)
(* The message board of one msgserv process: the ring of util_matrix.c,    *)
(* the logical clock g_lc and new_message of struct_message.c, and the     *)
(* handlers of msgserv/message.c that add to the ring and answer from it.  *)
(*                                                                         *)
(* `size' counts every addition ever made and is never reduced; the slot   *)
(* of an index is the index modulo Capacity.  create_matrix does not       *)
(* initialise the overflow flag, so its first value is either one.         *)
(***************************************************************************)
EXTENDS Window

CONSTANTS Capacity,    \* slots of the ring: the -m option of msgserv
          Message,     \* the texts that can be published
          Stamps,      \* the stamps a line received from a peer may carry
          Asked,       \* the numbers a client may ask for, as atoi reads them
          MaxAdds,     \* bound on the additions explored
          NoItem       \* an empty slot

\* `-m 0` makes `index % capacity` divide by zero, so a server that serves at
\* all was started with a positive capacity.
ASSUME CapacityAssumption == Capacity \in Nat \ {0}

ASSUME BoardAssumption ==
  /\ Stamps \subseteq Nat
  /\ Asked \subseteq Int
  /\ MaxAdds \in Nat
  /\ NoItem \notin [lc : Nat, msg : Message]

VARIABLES slots,       \* struct _matrix: array
          size,        \* struct _matrix: size
          overflow,    \* struct _matrix: overflow
          clock,       \* g_lc
          reply        \* the messages of the last answer sent

vars == <<slots, size, overflow, clock, reply>>

Item == [lc : Nat, msg : Message]

Slot == 0..(Capacity - 1)

Init ==
  /\ slots = [j \in Slot |-> NoItem]
  /\ size = 0
  /\ overflow \in BOOLEAN
  /\ clock = 0
  /\ reply = <<>>

-----------------------------------------------------------------------------
(* The ring. *)

Element(index) == slots[index % Capacity]

\* add_element(this, get_size(this), x)
AddElement(x) ==
  /\ size < MaxAdds
  /\ overflow' = (overflow \/ Element(size) # NoItem)
  /\ slots' = [slots EXCEPT ![size % Capacity] = x]
  /\ size' = size + 1

\* Mutant of Walk: the loops do not stop at an empty slot.
WalkOn(first, last) == [i \in 1..(last - first) |-> Element(first + i - 1)]

\* The elements at the indices first..last - 1, up to the first empty slot,
\* where the loops of get_first_n_messages break.
Walk(first, last) ==
  LET stops == {k \in first..(last - 1) : Element(k) = NoItem}
      end   == IF stops = {} THEN last
               ELSE CHOOSE k \in stops : \A l \in stops : k <= l
  IN  [i \in 1..(end - first) |-> Element(first + i - 1)]

\* Mutant of GetFirst: the first n, as the name has it.
GetFirstOldest(n) == IF size - n >= 0 THEN Walk(0, n) ELSE Walk(0, size)

\* get_first_n_messages: despite its name, the last n.
GetFirst(n) ==
  IF size = 0 THEN <<>>
  ELSE IF size - n >= 0 THEN Walk(size - n, size)
  ELSE (IF overflow THEN Walk(Capacity + (size - n), Capacity) ELSE <<>>)
       \o Walk(0, size)

-----------------------------------------------------------------------------
(* The handlers. *)

\* new_message: the message takes the clock's value and the clock moves on.
NewMessage(lc, m) ==
  /\ AddElement([lc |-> lc, msg |-> m])
  /\ clock' = lc + 1

\* A PUBLISH datagram of a client.
HandlePublish(m) == NewMessage(clock, m) /\ UNCHANGED reply

\* Mutant of ParseMessage: the copy keeps the stamp on the line.
ParseMessageAsIs(lc, m) == NewMessage(lc, m) /\ UNCHANGED reply

\* A line of an SMESSAGES frame: first raise the clock to the stamp on the
\* line, then stamp the copy like a message of this server's own.
ParseMessage(lc, m) == NewMessage(Greater(clock, lc), m) /\ UNCHANGED reply

\* A GET_MESSAGES datagram.  atoi's result is stored unsigned: a negative
\* number becomes larger than any capacity, and only 0 is turned down.
HandleGetMessages(num) ==
  LET n == IF num < 0 THEN Capacity ELSE Lesser(num, Capacity)
  IN  /\ num # 0
      /\ reply' = GetFirst(Lesser(n, size))
      /\ UNCHANGED <<slots, size, overflow, clock>>

\* An SGET_MESSAGES line: everything the ring holds.
HandleSgetMessages ==
  /\ reply' = GetFirst(Capacity)
  /\ UNCHANGED <<slots, size, overflow, clock>>

Next ==
  \/ \E m \in Message : HandlePublish(m)
  \/ \E m \in Message, lc \in Stamps : ParseMessage(lc, m)
  \/ \E num \in Asked : HandleGetMessages(num)
  \/ HandleSgetMessages

Spec == Init /\ [][Next]_vars

-----------------------------------------------------------------------------
(* Properties. *)

\* The variables hold values of their types (struct _matrix, g_lc).
TypeOK ==
  /\ slots \in [Slot -> Item \cup {NoItem}]
  /\ size \in Nat
  /\ overflow \in BOOLEAN
  /\ clock \in Nat
  /\ reply \in Seq(Item)

\* The messages in the ring, oldest first.
Kept == LET k == Lesser(size, Capacity)
        IN  [i \in 1..k |-> Element(size - k + i - 1)]

\* The ring implements the bounded log: whatever the flag was at first and
\* however often the indices have wrapped, get_first_n_messages answers with
\* the last n messages that were added, in order, and never with a message
\* already overwritten or an empty slot.
Log == INSTANCE BoundedLog WITH window <- Kept
LogSpec == Log!Spec

\* Going round the ring from the oldest message to the newest, stamps only
\* grow, and the clock is past them all: a copy whose stamp lagged behind is
\* moved up by parse_message before it is stored.
StampsIncrease ==
  /\ \A i, j \in DOMAIN Kept : i < j => Kept[i].lc < Kept[j].lc
  /\ \A i \in DOMAIN Kept : Kept[i].lc < clock

=============================================================================
