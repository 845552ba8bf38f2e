------------------------------- MODULE IdServ -------------------------------
(***************************************************************************)
(* The identity server (src/idserv/main.go): one goroutine reads datagrams *)
(* and starts another for each, and the main one keeps the list of servers *)
(* and is reached over two channels.  serverRecv is buffered; over         *)
(* askForServers, which is not, a request (nil) and the list that answers  *)
(* it both pass, in opposite directions.                                   *)
(*                                                                         *)
(* The list is a slice: the first `size` cells of an array that an append  *)
(* writes in place while it has room, and that every answer still being    *)
(* written shares.                                                         *)
(***************************************************************************)
EXTENDS Integers, Sequences, SequencesExt

CONSTANTS
  Entry,     \* what may be read from a REG datagram: a name and its ports
  Request,   \* GET_SERVERS datagrams, each of which is read once
  NoEntry,   \* a cell of an array that was never written
  Mixed,     \* what is read of a cell while it is written: parts of two entries
  Buffer,    \* the capacity of serverRecv
  MaxRegs    \* bound: REG datagrams read

ASSUME BufferAssumption == Buffer \in Nat \ {0}
ASSUME EntryAssumption == {NoEntry, Mixed} \cap Entry = {}

VARIABLES
  regs,        \* goroutines of handleRegistrations about to send, by entry
  serverRecv,  \* the channel
  asker,       \* where the goroutine of each request is
  slice,       \* the slice it has received: an array and a length
  answer,      \* what it has written to the client
  sending,     \* the main goroutine is in `askForServers <- servers`
  arrays,      \* the arrays ever allocated, the last one is the list's
  size,        \* the length of the list
  timer,       \* the one timer has not expired
  count,       \* REG datagrams read so far
  listed,      \* history: the entries listed when a request was read
  alone        \* history: the requests no other one has overlapped

list     == <<arrays, size, timer>>
channels == <<regs, serverRecv, count>>
history  == <<listed, alone>>
vars     == <<regs, serverRecv, asker, slice, answer, sending, list, count, history>>

Nil == <<1, 0>>          \* the nil slice: no cell of the first array
Unanswered == <<NoEntry>>

Servers == SubSeq(arrays[Len(arrays)], 1, size)
Content(s) == SubSeq(arrays[s[1]], 1, s[2])

-----------------------------------------------------------------------------
(* handleUDPConn: a datagram is read and its goroutine starts. *)

ReadReg(e) ==
  /\ count < MaxRegs
  /\ count' = count + 1
  /\ regs' = [regs EXCEPT ![e] = @ + 1]
  /\ UNCHANGED <<serverRecv, asker, slice, answer, sending, list, history>>

Pending == {r \in Request : asker[r] \in {"ask", "wait"}}

ReadGet(r) ==
  /\ asker[r] = "unread"
  /\ asker' = [asker EXCEPT ![r] = "ask"]
  /\ listed' = [listed EXCEPT ![r] = ToSet(Servers)]
  /\ alone' = IF Pending = {} THEN alone \cup {r} ELSE alone \ Pending
  /\ UNCHANGED <<channels, slice, answer, sending, list>>

-----------------------------------------------------------------------------
(* handleRegistrations, and the main goroutine's part. *)

\* Mutant of PutReg: the entry is dropped when the channel is full.
PutRegOrDrop(e) ==
  /\ regs[e] > 0
  /\ regs' = [regs EXCEPT ![e] = @ - 1]
  /\ serverRecv' = IF Len(serverRecv) < Buffer THEN Append(serverRecv, e) ELSE serverRecv
  /\ UNCHANGED <<asker, slice, answer, sending, list, count, history>>

\* serverRecv <- newServer.  Goroutines arrive here in any order.
PutReg(e) ==
  /\ regs[e] > 0
  /\ Len(serverRecv) < Buffer
  /\ regs' = [regs EXCEPT ![e] = @ - 1]
  /\ serverRecv' = Append(serverRecv, e)
  /\ UNCHANGED <<asker, slice, answer, sending, list, count, history>>

\* append finds no room: an array twice as long, with the old cells.
Grown(a) ==
  [i \in 1..(IF Len(a) = 0 THEN 1 ELSE 2 * Len(a)) |->
     IF i \in DOMAIN a THEN a[i] ELSE NoEntry]

\* Mutant of Appended: the new array has room for the new entry only.
AppendedNew(e) == Append(arrays, <<e>>)

\* servers = append(servers, e)
Appended(e) ==
  LET a == arrays[Len(arrays)]
  IN  IF size < Len(a)
      THEN [arrays EXCEPT ![Len(arrays)][size + 1] = e]
      ELSE Append(arrays, [Grown(a) EXCEPT ![size + 1] = e])

\* Mutant of Received: servers = append(servers[:0], e).
ReceivedAlone ==
  /\ ~sending
  /\ serverRecv # <<>>
  /\ serverRecv' = Tail(serverRecv)
  /\ arrays' = IF size = 0 THEN Appended(Head(serverRecv))
               ELSE [arrays EXCEPT ![Len(arrays)][1] = Head(serverRecv)]
  /\ size' = 1

\* The loop before the append looks for the entry, but its break leaves the
\* loop only: an entry is added as often as it is received.
Received ==
  /\ ~sending
  /\ serverRecv # <<>>
  /\ serverRecv' = Tail(serverRecv)
  /\ arrays' = Appended(Head(serverRecv))
  /\ size' = size + 1

Add ==
  /\ Received
  /\ UNCHANGED <<regs, asker, slice, answer, sending, timer, count, history>>

\* The timer, which is never set again: servers = servers[:0].
Wipe ==
  /\ ~sending
  /\ timer
  /\ timer' = FALSE
  /\ size' = 0
  /\ UNCHANGED <<channels, asker, slice, answer, sending, arrays, history>>

-----------------------------------------------------------------------------
(* handleServerRequests, and the main goroutine's part. *)

\* Mutant of Ask: the main goroutine does not go on to send.
AskOnly(r) ==
  /\ ~sending
  /\ asker[r] = "ask"
  /\ asker' = [asker EXCEPT ![r] = "wait"]
  /\ UNCHANGED <<channels, slice, answer, sending, list, history>>

\* askForServers <- nil, received by the main goroutine.
Ask(r) ==
  /\ ~sending
  /\ asker[r] = "ask"
  /\ asker' = [asker EXCEPT ![r] = "wait"]
  /\ sending' = TRUE
  /\ UNCHANGED <<channels, slice, answer, list, history>>

\* askForServers <- nil by q, received by r, which takes it for the list.
Cross(q, r) ==
  /\ asker[q] = "ask"
  /\ asker[r] = "wait"
  /\ asker' = [asker EXCEPT ![q] = "wait", ![r] = "have"]
  /\ slice' = [slice EXCEPT ![r] = Nil]
  /\ UNCHANGED <<channels, answer, sending, list, history>>

\* Mutant of Give: the main goroutine tries to send again.
GiveAgain(r) ==
  /\ sending
  /\ asker[r] = "wait"
  /\ asker' = [asker EXCEPT ![r] = "have"]
  /\ slice' = [slice EXCEPT ![r] = <<Len(arrays), size>>]
  /\ UNCHANGED <<channels, answer, sending, list, history>>

\* askForServers <- servers
Give(r) ==
  /\ sending
  /\ asker[r] = "wait"
  /\ asker' = [asker EXCEPT ![r] = "have"]
  /\ slice' = [slice EXCEPT ![r] = <<Len(arrays), size>>]
  /\ sending' = FALSE
  /\ UNCHANGED <<channels, answer, list, history>>

\* The answer is written from the array as it is by now, and sent.  (The cells
\* are read one after the other: an answer may have some from before a write
\* and some from after it, which no property below tells from this.)
Answered(r, cells) ==
  /\ asker[r] = "have"
  /\ asker' = [asker EXCEPT ![r] = "done"]
  /\ answer' = [answer EXCEPT ![r] = cells]

Answer(r) ==
  /\ Answered(r, Content(slice[r]))
  /\ UNCHANGED <<channels, slice, sending, list, history>>

\* A race: the cell that append writes in place is read meanwhile.
AnswerDuringAdd(r) ==
  /\ Received
  /\ slice[r][1] = Len(arrays)
  /\ size < slice[r][2]
  /\ \E seen \in {Servers'[size + 1], Mixed} :
       Answered(r, [Content(slice[r]) EXCEPT ![size + 1] = seen])
  /\ UNCHANGED <<regs, slice, sending, timer, count, history>>

-----------------------------------------------------------------------------
Init ==
  /\ regs = [e \in Entry |-> 0]
  /\ serverRecv = <<>>
  /\ asker = [r \in Request |-> "unread"]
  /\ slice = [r \in Request |-> Nil]
  /\ answer = [r \in Request |-> Unanswered]
  /\ sending = FALSE
  /\ arrays = << <<>> >>
  /\ size = 0
  /\ timer = TRUE
  /\ count = 0
  /\ listed = [r \in Request |-> {}]
  /\ alone = {}

\* What the goroutines do with what was read.
Work ==
  \/ \E e \in Entry : PutReg(e)
  \/ \E r \in Request : Ask(r) \/ Give(r) \/ Answer(r) \/ AnswerDuringAdd(r)
  \/ \E q, r \in Request : Cross(q, r)
  \/ Add

Next ==
  \/ Work
  \/ Wipe
  \/ \E e \in Entry : ReadReg(e)
  \/ \E r \in Request : ReadGet(r)

Spec == Init /\ [][Next]_vars

\* The scheduler runs some goroutine while there is one that can run.
FairSpec == Spec /\ WF_vars(Work)

-----------------------------------------------------------------------------
(* Properties. *)

\* The variables hold values of their types.
TypeOK ==
  /\ regs \in [Entry -> Nat]
  /\ serverRecv \in Seq(Entry)
  /\ asker \in [Request -> {"unread", "ask", "wait", "have", "done"}]
  /\ sending \in BOOLEAN
  /\ arrays \in Seq(Seq(Entry \cup {NoEntry}))
  /\ arrays # <<>>
  /\ size \in 0..Len(arrays[Len(arrays)])
  /\ slice \in [Request -> (1..Len(arrays)) \X Nat]
  /\ \A r \in Request : slice[r][2] <= Len(arrays[slice[r][1]])
  /\ answer \in [Request -> Seq(Entry \cup {NoEntry, Mixed})]
  /\ timer \in BOOLEAN
  /\ count \in Nat
  /\ listed \in [Request -> SUBSET (Entry \cup {NoEntry})]
  /\ alone \subseteq Request

\* The main goroutine is about to send exactly when one request waits, though
\* requests take each other's nil: neither it nor a request is ever left
\* alone at the channel (handleServerRequests, main).
OneWaits ==
  /\ sending <=> \E r \in Request : asker[r] = "wait"
  /\ \A q, r \in Request : asker[q] = "wait" /\ asker[r] = "wait" => q = r

\* A request that no other one overlaps is answered with all that was listed
\* when it was read, until the timer expires.
AloneGetsList ==
  \A r \in alone :
    asker[r] = "done" /\ timer => listed[r] \subseteq ToSet(answer[r])

\* Every request read is answered, whatever requests take from each other.
EveryoneAnswered == \A r \in Request : asker[r] = "ask" ~> asker[r] = "done"

\* Every registration read comes into the list, however many there are.
Registered ==
  \A e \in Entry : regs[e] > 0 ~> \E i \in 1..size : Servers[i] = e

=============================================================================
