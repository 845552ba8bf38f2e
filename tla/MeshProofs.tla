----------------------------- MODULE MeshProofs -----------------------------
(***************************************************************************)
(* Theorems about the message servers together, for any number of servers  *)
(* and messages, any capacity, any number of stops, and whatever the       *)
(* identity server and TCP do.                                             *)
(*                                                                         *)
(* Stamps: every copy of a message, on a board or on its way, carries a    *)
(* stamp no lower than the one it was published under, and the clock of a  *)
(* server is past every stamp of what the server has taken in.             *)
(*                                                                         *)
(* Joins: with an identity server that lists what registers and answers    *)
(* with the list, any number of servers that join in any order, while      *)
(* others stop, end up pairwise connected, except where a connection could *)
(* not be made.  Of two servers that have both looked up, one looked up    *)
(* after the other had registered, so it was told of the other: it has yet *)
(* to connect to it, has failed to, or the connection is there.            *)
(*                                                                         *)
(* Frames: as long as TCP delivers frames whole, a server never drops a    *)
(* line.  The header of a frame is read in the call of                     *)
(* server_treat_communications that reads its messages, and a request for  *)
(* messages is the first line of its connection.                           *)
(*                                                                         *)
(* Two servers: each message one of them has taken in, the other has too,  *)
(* or it is on its way, or the first still owes the other its board, if no *)
(* connection between the two failed to be made.                           *)
(***************************************************************************)
EXTENDS Mesh, SequenceProofs, FiniteSetTheorems

Inboxes == [Server -> [Conn -> Seq(Line)]]

\* x is a copy of a published message, stamped no lower than it was.
Copy(x) ==
  /\ x.msg \in Message
  /\ stamp[x.msg] # Unpublished
  /\ stamp[x.msg] <= x.lc

\* A text that waits in a UDP socket has not been published.
PendingUnpublished ==
  \A m \in Message : dest[m] # NoServer => stamp[m] = Unpublished

LinesAreCopies ==
  \A s \in Server, c \in Conn : \A i \in DOMAIN inbox[s][c] :
    inbox[s][c][i].kind = "MSG" => Copy(inbox[s][c][i])

BoardsAreCopies ==
  \A s \in Server : \A i \in DOMAIN board[s] : Copy(board[s][i])

ClocksPastSeen ==
  \A s \in Server : \A m \in seen[s] :
    stamp[m] # Unpublished /\ stamp[m] < clock[s]

\* A server that is sharing has something to share.
BoardsFit ==
  \A s \in Server :
    /\ Len(board[s]) <= Capacity
    /\ sharing[s] # {} => board[s] # <<>>

\* If the publisher had taken n in before it published m, then n's stamp is
\* the smaller one: the order of stamps never contradicts cause and effect,
\* though copies are stamped anew at every server and travel by several ways
\* (handle_publish, parse_message).
CausalStamps ==
  \A m, n \in Message :
    stamp[m] # Unpublished /\ n \in deps[m]
      => stamp[n] # Unpublished /\ stamp[n] < stamp[m]

\* The inductive invariant.
IInv ==
  /\ TypeOK
  /\ PendingUnpublished
  /\ LinesAreCopies
  /\ BoardsAreCopies
  /\ ClocksPastSeen
  /\ BoardsFit
  /\ CausalStamps

-----------------------------------------------------------------------------
(* Lines and frames. *)

LEMMA ConnEnds ==
  ASSUME NEW c \in Conn, NEW s \in Server
  PROVE  c[1] \in Server /\ c[2] \in Server /\ Peer(s, c) \in Server
  BY DEF Conn, Peer

\* The inboxes with lines added to one of them, and with a line taken out.
Added(box, p, c, xs) == [box EXCEPT ![p][c] = @ \o xs]
Dropped(box, p, c) == [box EXCEPT ![p][c] = Tail(@)]

\* The lines of new are lines of box, or of xs.
LinesOf(new, box, xs) ==
  \A t \in Server, d \in Conn : \A i \in DOMAIN new[t][d] :
    \/ \E j \in DOMAIN box[t][d] : new[t][d][i] = box[t][d][j]
    \/ \E j \in DOMAIN xs : new[t][d][i] = xs[j]

\* Appending lines to one inbox: what is there was there, or is new.
LEMMA AppendLines ==
  ASSUME NEW box \in Inboxes, NEW p \in Server, NEW c \in Conn,
         NEW xs \in Seq(Line)
  PROVE  /\ Added(box, p, c, xs) \in Inboxes
         /\ LinesOf(Added(box, p, c, xs), box, xs)
<1> DEFINE old == box[p][c]
           new == [box EXCEPT ![p][c] = @ \o xs]
<1> USE DEF Added
<1>1. old \in Seq(Line)
  BY DEF Inboxes
<1>2. old \o xs \in Seq(Line)
  BY <1>1
<1>3. new \in Inboxes
  BY <1>2 DEF Inboxes
<1>4. \A i \in DOMAIN (old \o xs) :
        \/ \E j \in DOMAIN old : (old \o xs)[i] = old[j]
        \/ \E j \in DOMAIN xs : (old \o xs)[i] = xs[j]
  <2> HIDE DEF old
  <2> SUFFICES ASSUME NEW i \in DOMAIN (old \o xs)
               PROVE  \/ \E j \in DOMAIN old : (old \o xs)[i] = old[j]
                      \/ \E j \in DOMAIN xs : (old \o xs)[i] = xs[j]
    OBVIOUS
  <2>1. /\ Len(old) \in Nat /\ Len(xs) \in Nat
        /\ DOMAIN old = 1..Len(old) /\ DOMAIN xs = 1..Len(xs)
        /\ DOMAIN (old \o xs) = 1..(Len(old) + Len(xs))
    BY <1>1
  <2>2. (old \o xs)[i] = IF i <= Len(old) THEN old[i] ELSE xs[i - Len(old)]
    BY <1>1, <2>1
  <2>3. CASE i <= Len(old)
    BY <2>1, <2>2, <2>3
  <2>4. CASE ~(i <= Len(old))
    <3>1. i - Len(old) \in DOMAIN xs
      BY <2>1, <2>4
    <3> QED BY <2>2, <2>4, <3>1
  <2> QED BY <2>3, <2>4
<1>5. ASSUME NEW t \in Server, NEW d \in Conn
      PROVE  new[t][d] = IF t = p /\ d = c THEN old \o xs ELSE box[t][d]
  BY DEF Inboxes
<1> QED
  <2> SUFFICES ASSUME NEW t \in Server, NEW d \in Conn,
                      NEW i \in DOMAIN new[t][d]
               PROVE  \/ \E j \in DOMAIN box[t][d] : new[t][d][i] = box[t][d][j]
                      \/ \E j \in DOMAIN xs : new[t][d][i] = xs[j]
    BY <1>3 DEF LinesOf
  <2>1. CASE t = p /\ d = c
    <3>1. new[t][d] = old \o xs /\ box[t][d] = old
      BY <1>5, <2>1
    <3> QED BY <1>4, <3>1
  <2>2. CASE ~(t = p /\ d = c)
    <3>1. new[t][d] = box[t][d]
      BY <1>5, <2>2
    <3> QED BY <3>1
  <2> QED BY <2>1, <2>2

\* Reading a line of one inbox leaves lines that were there.
LEMMA TailLines ==
  ASSUME NEW box \in Inboxes, NEW p \in Server, NEW c \in Conn,
         box[p][c] # <<>>
  PROVE  /\ Dropped(box, p, c) \in Inboxes
         /\ LinesOf(Dropped(box, p, c), box, <<>>)
<1> DEFINE old == box[p][c]
           new == [box EXCEPT ![p][c] = Tail(@)]
<1> USE DEF Dropped
<1>1. old \in Seq(Line) /\ old # <<>>
  BY DEF Inboxes
<1>2. /\ Tail(old) \in Seq(Line)
      /\ \A i \in DOMAIN Tail(old) : i + 1 \in DOMAIN old /\ Tail(old)[i] = old[i + 1]
  <2> HIDE DEF old
  <2> QED BY <1>1
<1>3. new \in Inboxes
  BY <1>2 DEF Inboxes
<1>4. ASSUME NEW t \in Server, NEW d \in Conn
      PROVE  new[t][d] = IF t = p /\ d = c THEN Tail(old) ELSE box[t][d]
  BY DEF Inboxes
<1> QED
  <2> SUFFICES ASSUME NEW t \in Server, NEW d \in Conn,
                      NEW i \in DOMAIN new[t][d]
               PROVE  \E j \in DOMAIN box[t][d] : new[t][d][i] = box[t][d][j]
    BY <1>3 DEF LinesOf
  <2>1. CASE t = p /\ d = c
    <3>1. new[t][d] = Tail(old) /\ box[t][d] = old
      BY <1>4, <2>1
    <3> QED BY <1>2, <3>1
  <2>2. CASE ~(t = p /\ d = c)
    <3>1. new[t][d] = box[t][d]
      BY <1>4, <2>2
    <3> QED BY <3>1
  <2> QED BY <2>1, <2>2

\* A frame is a header and then messages, those of the board.
LEMMA FrameLines ==
  ASSUME NEW items \in Seq(Item)
  PROVE  /\ Frame(items) \in Seq(Line)
         /\ Len(Frame(items)) \in Nat /\ Len(Frame(items)) >= 1
         /\ Frame(items)[1].kind = "SMSG"
         /\ \A i \in 2..Len(Frame(items)) : Frame(items)[i].kind = "MSG"
         /\ \A i \in DOMAIN Frame(items) :
              Frame(items)[i].kind = "MSG" =>
                \E j \in DOMAIN items : /\ Frame(items)[i].msg = items[j].msg
                                        /\ Frame(items)[i].lc = items[j].lc
<1> DEFINE n == Len(items)
           body == [i \in 1..n |-> Said(items[i])]
<1>1. n \in Nat /\ DOMAIN items = 1..n /\ \A i \in 1..n : items[i] \in Item
  BY ElementOfSeq, LenProperties
<1>2. \A i \in 1..n : Said(items[i]) \in Line
  BY <1>1 DEF Said, Line, Item
<1>3. body \in Seq(Line) /\ Len(body) = n
  <2>1. body \in [1..n -> Line]
    BY <1>2
  <2> HIDE DEF body, n
  <2> QED BY <1>1, <2>1, FunctionIsSeq
<1>4. <<Header>> \in Seq(Line) /\ Header.kind = "SMSG"
  BY DEF Header, Line
<1>5. Frame(items) = <<Header>> \o body
  BY DEF Frame
<1>6. \A i \in 1..n : /\ body[i].kind = "MSG"
                       /\ body[i].msg = items[i].msg /\ body[i].lc = items[i].lc
  BY DEF Said
<1> HIDE DEF body, n
<1>7. /\ Frame(items) \in Seq(Line)
      /\ DOMAIN Frame(items) = 1..(n + 1) /\ Len(Frame(items)) = n + 1
      /\ Frame(items)[1] = Header
      /\ \A i \in 2..(n + 1) : i - 1 \in 1..n /\ Frame(items)[i] = body[i - 1]
  BY <1>1, <1>3, <1>4, <1>5
<1>8. /\ n + 1 \in Nat /\ n + 1 >= 1
      /\ Frame(items)[1].kind = "SMSG"
      /\ \A i \in 2..(n + 1) : Frame(items)[i].kind = "MSG"
  BY <1>1, <1>4, <1>6, <1>7
<1> QED
  <2> SUFFICES ASSUME NEW i \in DOMAIN Frame(items),
                      Frame(items)[i].kind = "MSG"
               PROVE  \E j \in DOMAIN items :
                        /\ Frame(items)[i].msg = items[j].msg
                        /\ Frame(items)[i].lc = items[j].lc
    BY <1>7, <1>8
  <2>1. i # 1
    BY <1>4, <1>7
  <2>2. i \in 2..(n + 1)
    BY <1>1, <1>7, <2>1
  <2> QED BY <1>1, <1>6, <1>7, <2>2

-----------------------------------------------------------------------------
(* Connections made, and not made. *)

Unmade(s, t) == failed' = failed \cup {<<s, t>>} /\ UNCHANGED <<asked, net>>

Made(s, t) ==
  /\ phase[t] # "down"
  /\ links' = [links EXCEPT ![s] = links[s] \cup {<<s, t>>}]
  /\ backlog' = [backlog EXCEPT ![t] = backlog[t] \cup {<<s, t>>}]
  /\ inbox' = Ask(s, t)
  /\ asked' = [asked EXCEPT ![s] = TRUE]
  /\ UNCHANGED failed

LEMMA ConnectCases ==
  ASSUME NEW s, NEW t, Connect(s, t)
  PROVE  Unmade(s, t) \/ Made(s, t)
  BY DEF Connect, Unmade, Made

-----------------------------------------------------------------------------
(* Types. *)

LEMMA InitInv == Init => IInv
<1> SUFFICES ASSUME Init PROVE IInv
  OBVIOUS
<1> USE DEF Init, Unpublished
<1>1. TypeOK
  BY DEF TypeOK, Descriptors, Nothing
<1>2. PendingUnpublished /\ LinesAreCopies /\ BoardsAreCopies
  BY DEF PendingUnpublished, LinesAreCopies, BoardsAreCopies
<1>3. ClocksPastSeen /\ CausalStamps
  BY DEF ClocksPastSeen, CausalStamps
<1>4. BoardsFit
  BY CapacityAssumption DEF BoardsFit
<1> QED BY <1>1, <1>2, <1>3, <1>4 DEF IInv

\* What new_message does to a board, a clock and the set of what was seen.
LEMMA NewMessageStep ==
  ASSUME TypeOK, BoardsFit, NEW s \in Server, NEW lc \in Nat, NEW m \in Message,
         NewMessage(s, lc, m)
  PROVE  /\ board' \in [Server -> Seq(Item)]
         /\ clock' \in [Server -> Nat]
         /\ seen' \in [Server -> SUBSET Message]
         /\ Len(board'[s]) <= Capacity /\ board'[s] # <<>>
         /\ \A i \in DOMAIN board'[s] :
              \/ board'[s][i] = [lc |-> lc, msg |-> m]
              \/ \E j \in DOMAIN board[s] : board'[s][i] = board[s][j]
         /\ clock'[s] = lc + 1
         /\ seen'[s] = seen[s] \cup {m}
         /\ \A t \in Server \ {s} : /\ board'[t] = board[t]
                                    /\ clock'[t] = clock[t]
                                    /\ seen'[t] = seen[t]
<1> DEFINE x == [lc |-> lc, msg |-> m]
           w == board[s]
<1>1. /\ board' = [board EXCEPT ![s] = Push(board[s], x, Capacity)]
      /\ clock' = [clock EXCEPT ![s] = lc + 1]
      /\ seen' = [seen EXCEPT ![s] = seen[s] \cup {m}]
  BY DEF NewMessage, TypeOK
<1>2. board[s] \in Seq(Item) /\ Len(board[s]) <= Capacity /\ x \in Item
  BY DEF TypeOK, BoardsFit, Item
<1>3. /\ Push(w, x, Capacity) \in Seq(Item)
      /\ Len(Push(w, x, Capacity)) \in 1..Capacity
      /\ \A i \in DOMAIN Push(w, x, Capacity) :
           Push(w, x, Capacity)[i] = x \/ \E j \in DOMAIN w : Push(w, x, Capacity)[i] = w[j]
  <2> HIDE DEF x, w
  <2>1. w \in Seq(Item) /\ Len(w) <= Capacity /\ x \in Item
    BY <1>2 DEF w
  <2> QED BY ONLY <2>1, PushMembers, CapacityAssumption
<1> HIDE DEF x
<1>4. Push(board[s], x, Capacity) # <<>> /\ Len(Push(board[s], x, Capacity)) <= Capacity
  BY <1>3, CapacityAssumption
<1>5. board'[s] = Push(board[s], x, Capacity)
  BY <1>1 DEF TypeOK
<1>6. /\ board' \in [Server -> Seq(Item)]
      /\ \A t \in Server \ {s} : board'[t] = board[t]
  BY <1>1, <1>3 DEF TypeOK
<1>7. /\ clock' \in [Server -> Nat]
      /\ clock'[s] = lc + 1
      /\ \A t \in Server \ {s} : clock'[t] = clock[t]
  BY <1>1 DEF TypeOK
<1>8. /\ seen' \in [Server -> SUBSET Message]
      /\ seen'[s] = seen[s] \cup {m}
      /\ \A t \in Server \ {s} : seen'[t] = seen[t]
  BY <1>1 DEF TypeOK
<1> QED BY <1>3, <1>4, <1>5, <1>6, <1>7, <1>8 DEF x

\* Write leaves lines that were there or are those of xs, and closes at most
\* a connection.
LEMMA WriteStep ==
  ASSUME TypeOK, NEW s \in Server, NEW c \in Conn, NEW xs \in Seq(Line),
         Write(s, c, xs)
  PROVE  /\ inbox' \in Inboxes
         /\ links' \in [Server -> SUBSET Conn]
         /\ LinesOf(inbox', inbox, xs)
<1>1. inbox \in Inboxes /\ links \in [Server -> SUBSET Conn]
  BY DEF TypeOK, Inboxes
<1>2. CASE PeerOpen(s, c)
  <2>1. inbox' = Added(inbox, Peer(s, c), c, xs) /\ links' = links
    BY <1>2 DEF Write, Added
  <2>2. Peer(s, c) \in Server
    BY ConnEnds
  <2> QED BY <1>1, <2>1, <2>2, AppendLines
<1>3. CASE ~PeerOpen(s, c)
  <2>1. inbox' = inbox /\ links' \in {links, [links EXCEPT ![s] = links[s] \ {c}]}
    BY <1>3 DEF Write
  <2>2. links' \in [Server -> SUBSET Conn]
    BY <1>1, <2>1
  <2> QED BY <1>1, <2>1, <2>2 DEF LinesOf
<1> QED BY <1>2, <1>3

\* What a server receives from a connection it reads.
LEMMA ReceivedLine ==
  ASSUME IInv, NEW s \in Server, Receives(s)
  PROVE  /\ drain[s] \in Conn
         /\ Received(s) \in Line
         /\ Received(s).kind = "MSG" => Copy(Received(s))
         /\ DropHead(s) \in Inboxes
         /\ LinesOf(DropHead(s), inbox, <<>>)
<1>1. drain[s] \in Conn /\ inbox \in Inboxes
  BY DEF Receives, TypeOK, IInv, Inboxes
<1>2. inbox[s][drain[s]] \in Seq(Line) /\ inbox[s][drain[s]] # <<>>
  BY <1>1 DEF Inboxes, Receives
<1>3. /\ 1 \in DOMAIN inbox[s][drain[s]]
      /\ Received(s) = inbox[s][drain[s]][1]
      /\ Received(s) \in Line
  <2> DEFINE q == inbox[s][drain[s]]
  <2> HIDE DEF q
  <2>1. 1 \in DOMAIN q /\ Head(q) = q[1] /\ Head(q) \in Line
    BY <1>2 DEF q
  <2> QED BY <2>1 DEF q, Received
<1>4. Received(s).kind = "MSG" => Copy(Received(s))
  BY <1>1, <1>3 DEF IInv, LinesAreCopies
<1>5. DropHead(s) = Dropped(inbox, s, drain[s])
  BY DEF DropHead, Dropped
<1> QED BY <1>1, <1>2, <1>3, <1>4, <1>5, TailLines

\* Every step keeps the types.
LEMMA TypeStep == IInv /\ [Next]_vars => TypeOK'
<1> SUFFICES ASSUME IInv, [Next]_vars PROVE TypeOK'
  OBVIOUS
<1> USE DEF ids, net, loop, log
<1>0. TypeOK
  BY DEF IInv
<1>1. ASSUME NEW s \in Server, Register(s) PROVE TypeOK'
  BY <1>0, <1>1 DEF TypeOK, Register, Listed
<1>2. ASSUME NEW s \in Server, Lookup(s) PROVE TypeOK'
  BY <1>0, <1>2 DEF TypeOK, Lookup
<1>3. ASSUME NEW s \in Server, LookupFails(s) PROVE TypeOK'
  BY <1>0, <1>3 DEF TypeOK, LookupFails
<1>4. ASSUME NEW s \in Server, NEW t \in Server, Connect(s, t) PROVE TypeOK'
  <2>1. <<s, t>> \in Conn
    BY DEF Conn
  <2>2. Ask(s, t) \in [Server -> [Conn -> Seq(Line)]]
    <3>1. CASE asked[s]
      BY <1>0, <3>1 DEF TypeOK, Ask
    <3>2. CASE ~asked[s]
      <4>1. Sget \in Line
        BY DEF Sget, Line
      <4>2. Append(inbox[t][<<s, t>>], Sget) \in Seq(Line)
        BY <1>0, <2>1, <4>1 DEF TypeOK
      <4> QED BY <1>0, <2>1, <3>2, <4>2 DEF TypeOK, Ask
    <3> QED BY <3>1, <3>2
  <2>3. known' \in [Server -> SUBSET Server]
    BY <1>0, <1>4 DEF TypeOK, Connect
  <2>4. CASE Unmade(s, t)
    BY <1>0, <1>4, <2>1, <2>3, <2>4 DEF TypeOK, Connect, Unmade
  <2>5. CASE Made(s, t)
    <3>1. /\ links' \in [Server -> SUBSET Conn]
          /\ backlog' \in [Server -> SUBSET Conn]
          /\ asked' \in [Server -> BOOLEAN]
          /\ inbox' \in [Server -> [Conn -> Seq(Line)]]
      <4>1. /\ links' = [links EXCEPT ![s] = links[s] \cup {<<s, t>>}]
            /\ backlog' = [backlog EXCEPT ![t] = backlog[t] \cup {<<s, t>>}]
            /\ asked' = [asked EXCEPT ![s] = TRUE]
            /\ inbox' = Ask(s, t)
        BY <2>5 DEF Made
      <4> QED BY <1>0, <2>1, <2>2, <4>1 DEF TypeOK
    <3> QED BY <1>0, <1>4, <2>3, <2>5, <3>1 DEF TypeOK, Connect, Made
  <2> QED BY <1>4, <2>4, <2>5, ConnectCases
<1>5. ASSUME NEW s \in Server, Joined(s) PROVE TypeOK'
  BY <1>0, <1>5 DEF TypeOK, Joined
<1>6. ASSUME NEW s \in Server, Select(s) PROVE TypeOK'
  <2>1. Ready(s) \in Descriptors
    <3>1. {c \in links[s] : Readable(s, c)} \in SUBSET Conn
      BY <1>0 DEF TypeOK
    <3> QED BY <3>1 DEF Ready, Descriptors
  <2> QED BY <1>0, <1>6, <2>1 DEF TypeOK, Select
<1>7. ASSUME NEW s \in Server, UpdateReg(s) PROVE TypeOK'
  BY <1>0, <1>7 DEF TypeOK, UpdateReg, Listed
<1>8. ASSUME NEW s \in Server, Accept(s) PROVE TypeOK'
  <2>1. ready' \in [Server -> Descriptors]
    <3>1. ready[s] \in Descriptors
      BY <1>0 DEF TypeOK
    <3>2. [ready[s] EXCEPT !.listen = FALSE] \in Descriptors
      BY <3>1 DEF Descriptors
    <3>3. ready' = [ready EXCEPT ![s] = [ready[s] EXCEPT !.listen = FALSE]]
      BY <1>8 DEF Accept
    <3> QED BY <1>0, <3>2, <3>3 DEF TypeOK
  <2>2. PICK c \in backlog[s] :
          /\ backlog' = [backlog EXCEPT ![s] = Waiting(s, c)]
          /\ links' = [links EXCEPT ![s] = links[s] \cup {c}]
    BY <1>0, <1>8 DEF TypeOK, Accept
  <2>3. links' \in [Server -> SUBSET Conn] /\ backlog' \in [Server -> SUBSET Conn]
    BY <1>0, <2>2 DEF TypeOK, Waiting
  <2> QED BY <1>0, <1>8, <2>1, <2>3 DEF TypeOK, Accept
<1>9. ASSUME NEW s \in Server, NEW m \in Message, Publish(s, m) PROVE TypeOK'
  <2>1. NewMessage(s, clock[s], m) /\ clock[s] \in Nat
    BY <1>0, <1>9 DEF TypeOK, Publish
  <2>2. /\ board' \in [Server -> Seq(Item)]
        /\ clock' \in [Server -> Nat]
        /\ seen' \in [Server -> SUBSET Message]
    BY <1>0, <2>1, NewMessageStep DEF IInv
  <2>3. ready' \in [Server -> Descriptors]
    <3>1. ready[s] \in Descriptors
      BY <1>0 DEF TypeOK
    <3>2. [ready[s] EXCEPT !.udp = FALSE] \in Descriptors
      BY <3>1 DEF Descriptors
    <3>3. ready' = [ready EXCEPT ![s] = [ready[s] EXCEPT !.udp = FALSE]]
      BY <1>9 DEF Publish
    <3> QED BY <1>0, <3>2, <3>3 DEF TypeOK
  <2>4. /\ dest' \in [Message -> Server \cup {NoServer}]
        /\ sharing' \in [Server -> SUBSET Conn]
        /\ stamp' \in [Message -> Nat \cup {Unpublished}]
        /\ deps' \in [Message -> SUBSET Message]
    BY <1>0, <1>9 DEF TypeOK, Publish, Taken
  <2> QED BY <1>0, <1>9, <2>2, <2>3, <2>4 DEF TypeOK, Publish
<1>10. ASSUME NEW s \in Server, NEW c \in Conn, Share(s, c) PROVE TypeOK'
  <2> DEFINE x == board[s][Len(board[s])]
             xs == Frame(<<x>>)
  <2>1. board[s] \in Seq(Item) /\ board[s] # <<>>
    BY <1>0, <1>10 DEF TypeOK, IInv, BoardsFit, Share
  <2>2. <<x>> \in Seq(Item)
    BY <2>1
  <2>3. xs \in Seq(Line)
    BY <2>2, FrameLines
  <2>4. Write(s, c, xs)
    BY <1>10 DEF Share
  <2> HIDE DEF xs
  <2>5. inbox' \in Inboxes /\ links' \in [Server -> SUBSET Conn]
    BY <1>0, <2>3, <2>4, WriteStep
  <2> QED BY <1>0, <1>10, <2>5 DEF TypeOK, Share, Inboxes
<1>11. ASSUME NEW s \in Server, NEW c \in Conn, Treat(s, c) PROVE TypeOK'
  <2>1. ready' \in [Server -> Descriptors]
    <3>1. ready[s] \in Descriptors
      BY <1>0 DEF TypeOK
    <3>2. [ready[s] EXCEPT !.conns = ready[s].conns \ {c}] \in Descriptors
      BY <3>1 DEF Descriptors
    <3>3. ready' = [ready EXCEPT ![s] = [ready[s] EXCEPT !.conns = ready[s].conns \ {c}]]
      BY <1>11 DEF Treat
    <3> QED BY <1>0, <3>2, <3>3 DEF TypeOK
  <2>2. drain' \in [Server -> Conn \cup {NoConn}] /\ sms' \in [Server -> BOOLEAN]
    BY <1>0, <1>11 DEF TypeOK, Treat
  <2> QED BY <1>0, <1>11, <2>1, <2>2 DEF TypeOK, Treat
<1>12. ASSUME NEW s \in Server, RecvHeader(s) PROVE TypeOK'
  <2>1. inbox' \in Inboxes
    BY <1>12, ReceivedLine DEF RecvHeader
  <2> QED BY <1>0, <1>12, <2>1 DEF TypeOK, RecvHeader, Inboxes
<1>13. ASSUME NEW s \in Server, RecvSget(s) PROVE TypeOK'
  <2> DEFINE c == drain[s]
             box == DropHead(s)
  <2>1. c \in Conn /\ box \in Inboxes
    BY <1>13, ReceivedLine DEF RecvSget
  <2>2. CASE PeerOpen(s, c)
    <3>1. Answer(s) \in Seq(Line)
      BY <1>0, FrameLines DEF TypeOK, Answer
    <3>2. Peer(s, c) \in Server
      BY <2>1, ConnEnds
    <3>3. inbox' = Added(box, Peer(s, c), c, Answer(s)) /\ UNCHANGED <<links, drain>>
      BY <1>13, <2>2 DEF RecvSget, Added
    <3>4. inbox' \in Inboxes
      BY <2>1, <3>1, <3>2, <3>3, AppendLines
    <3> QED BY <1>0, <1>13, <3>3, <3>4 DEF TypeOK, RecvSget, Inboxes
  <2>3. CASE ~PeerOpen(s, c)
    <3>1. inbox' = box
      BY <1>13, <2>3 DEF RecvSget
    <3>2. links' \in [Server -> SUBSET Conn]
      <4>1. links' = links \/ links' = [links EXCEPT ![s] = links[s] \ {c}]
        BY <1>13, <2>3 DEF RecvSget
      <4>2. links \in [Server -> SUBSET Conn]
        BY <1>0 DEF TypeOK
      <4> QED BY <4>1, <4>2
    <3>3. drain' \in [Server -> Conn \cup {NoConn}]
      <4>1. drain' = drain \/ drain' = [drain EXCEPT ![s] = NoConn]
        BY <1>13, <2>3 DEF RecvSget, EndDrain
      <4>2. drain \in [Server -> Conn \cup {NoConn}]
        BY <1>0 DEF TypeOK
      <4> QED BY <4>1, <4>2
    <3> QED BY <1>0, <1>13, <2>1, <3>1, <3>2, <3>3 DEF TypeOK, RecvSget, Inboxes
  <2> QED BY <2>2, <2>3
<1>14. ASSUME NEW s \in Server, RecvMessage(s) PROVE TypeOK'
  <2> DEFINE lc == Raised(s, Received(s).lc)
             m == Received(s).msg
  <2>1. inbox' \in Inboxes /\ m \in Message /\ Received(s).lc \in Nat
    BY <1>14, ReceivedLine DEF RecvMessage, Copy, Line
  <2>2. lc \in Nat
    BY <1>0, <2>1 DEF TypeOK, Raised, Greater
  <2>3. NewMessage(s, lc, m)
    BY <1>14 DEF RecvMessage
  <2> HIDE DEF lc, m
  <2>4. /\ board' \in [Server -> Seq(Item)]
        /\ clock' \in [Server -> Nat]
        /\ seen' \in [Server -> SUBSET Message]
    BY <1>0, <2>1, <2>2, <2>3, NewMessageStep DEF IInv
  <2> QED BY <1>0, <1>14, <2>1, <2>4 DEF TypeOK, RecvMessage, Inboxes
<1>15. ASSUME NEW s \in Server, RecvDiscard(s) PROVE TypeOK'
  <2>1. inbox' \in Inboxes
    BY <1>15, ReceivedLine DEF RecvDiscard
  <2> QED BY <1>0, <1>15, <2>1 DEF TypeOK, RecvDiscard, Inboxes
<1>16. ASSUME NEW s \in Server, RecvAgain(s) PROVE TypeOK'
  BY <1>0, <1>16 DEF TypeOK, RecvAgain, EndDrain
<1>17. ASSUME NEW s \in Server, RecvEof(s) PROVE TypeOK'
  BY <1>0, <1>17 DEF TypeOK, RecvEof, EndDrain
<1>18. ASSUME NEW s \in Server, NEW m \in Message, ClientSends(s, m) PROVE TypeOK'
  BY <1>0, <1>18 DEF TypeOK, ClientSends
<1>19. ASSUME NEW s \in Server, Stop(s) PROVE TypeOK'
  <2>1. inbox' \in [Server -> [Conn -> Seq(Line)]]
    BY <1>0, <1>19 DEF TypeOK, Stop
  <2>2. /\ ready' \in [Server -> Descriptors]
        /\ dest' \in [Message -> Server \cup {NoServer}]
    BY <1>0, <1>19 DEF TypeOK, Stop, Descriptors, Nothing
  <2>3. /\ phase' \in [Server -> {"prompt", "lookup", "connect", "loop", "down"}]
        /\ known' \in [Server -> SUBSET Server]
        /\ links' \in [Server -> SUBSET Conn]
        /\ backlog' \in [Server -> SUBSET Conn]
        /\ sharing' \in [Server -> SUBSET Conn]
        /\ drain' \in [Server -> Conn \cup {NoConn}]
        /\ sms' \in [Server -> BOOLEAN]
        /\ stops' \in Nat
    BY <1>0, <1>19 DEF TypeOK, Stop
  <2> QED BY <1>0, <1>19, <2>1, <2>2, <2>3 DEF TypeOK, Stop
<1>20. CASE Wipe
  BY <1>0, <1>20 DEF TypeOK, Wipe
<1>21. CASE UNCHANGED vars
  BY <1>0, <1>21 DEF TypeOK, vars
<1> QED
  BY <1>1, <1>2, <1>3, <1>4, <1>5, <1>6, <1>7, <1>8, <1>9, <1>10, <1>11, <1>12,
     <1>13, <1>14, <1>15, <1>16, <1>17, <1>18, <1>19, <1>20, <1>21
     DEF Next, Join, Serve, RecvOverrun

-----------------------------------------------------------------------------
(* Which steps touch the stamps, the boards and the lines. *)

\* Only a publication and a message received touch clocks, boards, stamps and
\* the history, and only a publication starts to share.
LEMMA LogSteps ==
  ASSUME TypeOK, [Next]_vars
  PROVE  \/ \E s \in Server, m \in Message : Publish(s, m)
         \/ \E s \in Server : RecvMessage(s)
         \/ UNCHANGED log /\ \A t \in Server : sharing'[t] \subseteq sharing[t]
<1> DEFINE Goal ==
      \/ \E s \in Server, m \in Message : Publish(s, m)
      \/ \E s \in Server : RecvMessage(s)
      \/ UNCHANGED log /\ \A t \in Server : sharing'[t] \subseteq sharing[t]
<1>1. ASSUME NEW s \in Server, Join(s) PROVE Goal
  BY <1>1 DEF Join, Register, Lookup, Joined, Connect, loop
<1>s. ASSUME NEW s \in Server, Stop(s) PROVE Goal
  <2>1. UNCHANGED log /\ sharing' = [sharing EXCEPT ![s] = {}]
    BY <1>s DEF Stop
  <2>2. sharing \in [Server -> SUBSET Conn]
    BY DEF TypeOK
  <2> QED BY <2>1, <2>2
<1>2. ASSUME NEW s \in Server, Serve(s) PROVE Goal
  <2>1. ASSUME NEW c \in Conn, Share(s, c) PROVE Goal
    <3>1. UNCHANGED log /\ sharing' = [sharing EXCEPT ![s] = sharing[s] \ {c}]
      BY <2>1 DEF Share
    <3>2. sharing \in [Server -> SUBSET Conn]
      BY DEF TypeOK
    <3> QED BY <3>1, <3>2
  <2>2. ASSUME NEW c \in Conn, Treat(s, c) PROVE Goal
    BY <2>2 DEF Treat
  <2>3. CASE \/ Select(s) \/ Accept(s) \/ RecvHeader(s) \/ RecvSget(s)
             \/ RecvDiscard(s) \/ RecvAgain(s) \/ RecvEof(s)
    BY <2>3 DEF Select, Accept, RecvHeader, RecvSget, RecvDiscard, RecvAgain,
                RecvEof, loop
  <2> QED BY <1>2, <1>s, <2>1, <2>2, <2>3 DEF Serve, RecvOverrun
<1>4. ASSUME NEW s \in Server, LookupFails(s) \/ UpdateReg(s) PROVE Goal
  BY <1>4 DEF LookupFails, UpdateReg, loop
<1>5. ASSUME NEW s \in Server, NEW m \in Message, ClientSends(s, m) PROVE Goal
  BY <1>5 DEF ClientSends, loop
<1>6. CASE Wipe
  BY <1>6 DEF Wipe, loop
<1>7. CASE UNCHANGED vars
  BY <1>7 DEF vars, log, loop
<1> QED BY <1>1, <1>2, <1>s, <1>4, <1>5, <1>6, <1>7 DEF Next

\* A stamp, once given, stays.
StampsStay == \A n \in Message : stamp[n] # Unpublished => stamp'[n] = stamp[n]

\* What a publication does to the stamps.
LEMMA PublishStamps ==
  ASSUME IInv, NEW s \in Server, NEW m \in Message, Publish(s, m)
  PROVE  /\ stamp[m] = Unpublished
         /\ stamp'[m] = clock[s] /\ clock[s] \in Nat
         /\ \A n \in Message \ {m} : stamp'[n] = stamp[n]
         /\ deps'[m] = seen[s]
         /\ \A n \in Message \ {m} : deps'[n] = deps[n]
         /\ StampsStay
<1>1. TypeOK /\ dest[m] = s /\ NoServer \notin Server
  BY MeshAssumption DEF IInv, Publish
<1>2. stamp[m] = Unpublished
  BY <1>1 DEF IInv, PendingUnpublished
<1>3. /\ stamp' = [stamp EXCEPT ![m] = clock[s]]
      /\ deps' = [deps EXCEPT ![m] = seen[s]]
  BY DEF Publish
<1>4. /\ stamp'[m] = clock[s] /\ clock[s] \in Nat
      /\ \A n \in Message \ {m} : stamp'[n] = stamp[n]
      /\ deps'[m] = seen[s]
      /\ \A n \in Message \ {m} : deps'[n] = deps[n]
  BY <1>1, <1>3 DEF TypeOK
<1> QED BY <1>2, <1>4 DEF StampsStay

LEMMA StampsStayStep == IInv /\ [Next]_vars => StampsStay
<1> SUFFICES ASSUME IInv, [Next]_vars PROVE StampsStay
  OBVIOUS
<1>1. CASE \E s \in Server, m \in Message : Publish(s, m)
  BY <1>1, PublishStamps
<1>2. CASE \E s \in Server : RecvMessage(s)
  BY <1>2 DEF RecvMessage, StampsStay
<1>3. CASE UNCHANGED log
  BY <1>3 DEF log, StampsStay
<1> QED BY <1>1, <1>2, <1>3, LogSteps DEF IInv

\* A copy stays a copy.
LEMMA CopiesStay ==
  ASSUME StampsStay, NEW x, Copy(x)
  PROVE  Copy(x)'
  BY DEF Copy, StampsStay

\* Lines that were there, and copies, are all that comes into the inboxes.
LEMMA LinesStay ==
  ASSUME IInv, StampsStay, NEW xs, LinesOf(inbox', inbox, xs),
         \A j \in DOMAIN xs : xs[j].kind = "MSG" => Copy(xs[j])
  PROVE  LinesAreCopies'
<1> SUFFICES ASSUME NEW t \in Server, NEW d \in Conn, NEW i \in DOMAIN inbox'[t][d],
                    inbox'[t][d][i].kind = "MSG"
             PROVE  /\ inbox'[t][d][i].msg \in Message
                    /\ stamp'[inbox'[t][d][i].msg] # Unpublished
                    /\ stamp'[inbox'[t][d][i].msg] <= inbox'[t][d][i].lc
  BY DEF LinesAreCopies, Copy
<1> DEFINE y == inbox'[t][d][i]
<1>1. CASE \E j \in DOMAIN inbox[t][d] : y = inbox[t][d][j]
  BY <1>1 DEF IInv, LinesAreCopies, Copy, StampsStay
<1>2. CASE \E j \in DOMAIN xs : y = xs[j]
  BY <1>2 DEF Copy, StampsStay
<1> QED BY <1>1, <1>2 DEF LinesOf

\* Every step keeps the lines under way copies.
LEMMA LinesStep == IInv /\ [Next]_vars => LinesAreCopies'
<1> SUFFICES ASSUME IInv, [Next]_vars PROVE LinesAreCopies'
  OBVIOUS
<1>0. TypeOK /\ inbox \in Inboxes
  BY DEF IInv, TypeOK, Inboxes
<1>s. StampsStay
  BY StampsStayStep
<1>e. /\ <<>> \in Seq(Line)
      /\ \A j \in DOMAIN <<>> : <<>>[j].kind = "MSG" => Copy(<<>>[j])
  OBVIOUS
<1>k. LinesOf(inbox', inbox, <<>>) => LinesAreCopies'
  BY <1>s, <1>e, LinesStay
<1>u. UNCHANGED inbox => LinesAreCopies'
  BY <1>k DEF LinesOf
<1>d. ASSUME NEW s \in Server, Receives(s), inbox' = DropHead(s)
      PROVE  LinesAreCopies'
  BY <1>d, <1>k, ReceivedLine
<1>1. ASSUME NEW s \in Server, NEW t \in Server, Connect(s, t)
      PROVE  LinesAreCopies'
  <2>1. <<s, t>> \in Conn
    BY DEF Conn
  <2>2. CASE Unmade(s, t) \/ (Made(s, t) /\ asked[s])
    <3>1. UNCHANGED inbox
      BY <2>2 DEF Unmade, Made, net, Ask
    <3> QED BY <3>1, <1>u
  <2>3. CASE Made(s, t) /\ ~asked[s]
    <3> DEFINE xs == <<Sget>>
    <3>1. xs \in Seq(Line) /\ \A j \in DOMAIN xs : xs[j].kind = "MSG" => Copy(xs[j])
      BY DEF Sget, Line
    <3>2. inbox' = [inbox EXCEPT ![t][<<s, t>>] = Append(inbox[t][<<s, t>>], Sget)]
      BY <2>3 DEF Made, Ask
    <3>3. Append(inbox[t][<<s, t>>], Sget) = inbox[t][<<s, t>>] \o xs
      <4>1. inbox[t][<<s, t>>] \in Seq(Line) /\ Sget \in Line
        BY <1>0, <2>1 DEF Inboxes, Sget, Line
      <4> QED BY <4>1, AppendIsConcat
    <3>4. inbox' = Added(inbox, t, <<s, t>>, xs)
      BY <3>2, <3>3 DEF Added
    <3> HIDE DEF xs
    <3>5. LinesOf(inbox', inbox, xs)
      BY <1>0, <2>1, <3>1, <3>4, AppendLines
    <3> QED BY <1>s, <3>1, <3>5, LinesStay
  <2> QED BY <1>1, <2>2, <2>3, ConnectCases
<1>2. ASSUME NEW s \in Server, NEW c \in Conn, Share(s, c)
      PROVE  LinesAreCopies'
  <2> DEFINE x == board[s][Len(board[s])]
             items == <<x>>
             xs == Frame(items)
  <2>1. board[s] \in Seq(Item) /\ board[s] # <<>>
    BY <1>0, <1>2 DEF TypeOK, IInv, BoardsFit, Share
  <2>2. Len(board[s]) \in DOMAIN board[s] /\ x \in Item
    BY <2>1
  <2>3. Copy(x)
    BY <2>2 DEF IInv, BoardsAreCopies
  <2>4. Write(s, c, xs)
    BY <1>2 DEF Share
  <2> HIDE DEF x
  <2>5. items \in Seq(Item) /\ \A j \in DOMAIN items : items[j] = x
    BY <2>2
  <2> HIDE DEF items
  <2>6. /\ xs \in Seq(Line)
        /\ \A j \in DOMAIN xs : xs[j].kind = "MSG" => Copy(xs[j])
    BY <2>3, <2>5, FrameLines DEF Copy
  <2> HIDE DEF xs
  <2>7. LinesOf(inbox', inbox, xs)
    BY <1>0, <2>4, <2>6, WriteStep
  <2> QED BY <1>s, <2>6, <2>7, LinesStay
<1>3. ASSUME NEW s \in Server, RecvSget(s)
      PROVE  LinesAreCopies'
  <2> DEFINE c == drain[s]
             box == DropHead(s)
             xs == Answer(s)
  <2>1. c \in Conn /\ box \in Inboxes /\ LinesOf(box, inbox, <<>>)
    BY <1>3, ReceivedLine DEF RecvSget
  <2>2. CASE ~PeerOpen(s, c)
    BY <1>3, <1>d, <2>2 DEF RecvSget
  <2>3. CASE PeerOpen(s, c)
    <3>1. Peer(s, c) \in Server
      BY <2>1, ConnEnds
    <3>2. board[s] \in Seq(Item) /\ \A j \in DOMAIN board[s] : Copy(board[s][j])
      BY <1>0 DEF TypeOK, IInv, BoardsAreCopies
    <3>3. /\ xs \in Seq(Line)
          /\ \A j \in DOMAIN xs : xs[j].kind = "MSG" => Copy(xs[j])
      BY <3>2, FrameLines DEF Answer, Copy
    <3>4. inbox' = Added(box, Peer(s, c), c, xs)
      BY <1>3, <2>3 DEF RecvSget, Added
    <3> HIDE DEF xs, box
    <3>5. LinesOf(inbox', box, xs)
      BY <2>1, <3>1, <3>3, <3>4, AppendLines
    <3>6. LinesOf(inbox', inbox, xs)
      BY <2>1, <3>5 DEF LinesOf
    <3> QED BY <1>s, <3>3, <3>6, LinesStay
  <2> QED BY <2>2, <2>3
<1>4. ASSUME NEW s \in Server, RecvHeader(s) \/ RecvMessage(s) \/ RecvDiscard(s)
      PROVE  LinesAreCopies'
  BY <1>4, <1>d DEF RecvHeader, RecvMessage, RecvDiscard
<1>5. ASSUME NEW s \in Server, Stop(s)
      PROVE  LinesAreCopies'
  <2>1. PICK kept \in BOOLEAN :
          inbox' = [t \in Server |-> [c \in Conn |->
                      IF t = s \/ (~kept /\ s \in {c[1], c[2]}) THEN <<>>
                      ELSE inbox[t][c]]]
    BY <1>5 DEF Stop
  <2>2. \A t \in Server, c \in Conn :
          inbox'[t][c] = <<>> \/ inbox'[t][c] = inbox[t][c]
    BY <2>1
  <2>3. LinesOf(inbox', inbox, <<>>)
    BY <2>2 DEF LinesOf
  <2> QED BY <2>3, <1>k
<1>6. ASSUME NEW s \in Server,
             \/ Register(s) \/ Lookup(s) \/ Joined(s) \/ LookupFails(s)
             \/ UpdateReg(s) \/ Select(s) \/ Accept(s) \/ RecvAgain(s) \/ RecvEof(s)
      PROVE  LinesAreCopies'
  BY <1>6, <1>u DEF Register, Lookup, Joined, LookupFails, UpdateReg, Select,
     Accept, RecvAgain, RecvEof, net
<1>7. ASSUME NEW s \in Server, NEW c \in Conn, Treat(s, c)
      PROVE  LinesAreCopies'
  BY <1>7, <1>u DEF Treat, net
<1>8. ASSUME NEW s \in Server, NEW m \in Message, Publish(s, m) \/ ClientSends(s, m)
      PROVE  LinesAreCopies'
  BY <1>8, <1>u DEF Publish, ClientSends, net
<1>9. CASE Wipe \/ UNCHANGED vars
  BY <1>9, <1>u DEF Wipe, vars, net
<1> QED
  BY <1>1, <1>2, <1>3, <1>4, <1>5, <1>6, <1>7, <1>8, <1>9
     DEF Next, Join, Serve, RecvOverrun

-----------------------------------------------------------------------------
(* The invariant. *)

\* A text in a socket stays unpublished until the socket is served.
LEMMA PendingStep == IInv /\ [Next]_vars => PendingUnpublished'
<1> SUFFICES ASSUME IInv, [Next]_vars PROVE PendingUnpublished'
  OBVIOUS
<1>0. TypeOK /\ PendingUnpublished
  BY DEF IInv
<1>1. CASE \E s \in Server, m \in Message : Publish(s, m)
  <2>1. PICK s \in Server, m \in Message : Publish(s, m)
    BY <1>1
  <2>2. dest' = [dest EXCEPT ![m] = NoServer]
    BY <2>1 DEF Publish, Taken
  <2>3. \A n \in Message \ {m} : dest'[n] = dest[n] /\ stamp'[n] = stamp[n]
    BY <1>0, <2>1, <2>2, PublishStamps DEF TypeOK
  <2>4. dest'[m] = NoServer
    BY <1>0, <2>2 DEF TypeOK
  <2> QED BY <1>0, <2>3, <2>4 DEF PendingUnpublished
<1>2. CASE \E s \in Server, m \in Message : ClientSends(s, m)
  <2>1. PICK s \in Server, m \in Message : ClientSends(s, m)
    BY <1>2
  <2>2. dest' = [dest EXCEPT ![m] = s] /\ stamp[m] = Unpublished /\ UNCHANGED stamp
    BY <2>1 DEF ClientSends, log
  <2> QED BY <1>0, <2>2 DEF PendingUnpublished, TypeOK
<1>3. CASE \E s \in Server : Stop(s)
  <2>1. PICK s \in Server : Stop(s)
    BY <1>3
  <2>2. /\ dest' = [m \in Message |-> IF dest[m] = s THEN NoServer ELSE dest[m]]
        /\ UNCHANGED stamp
    BY <2>1 DEF Stop, log
  <2> QED BY <1>0, <2>2 DEF PendingUnpublished
<1>4. CASE \E s \in Server : Join(s) \/ LookupFails(s) \/ UpdateReg(s)
  <2>1. UNCHANGED <<dest, stamp>>
    BY <1>4 DEF Join, Register, Lookup, Joined, Connect, LookupFails, UpdateReg, log
  <2> QED BY <1>0, <2>1 DEF PendingUnpublished
<1>5. CASE \E s \in Server : /\ Serve(s) /\ ~RecvOverrun(s)
                             /\ ~\E m \in Message : Publish(s, m)
  <2>1. UNCHANGED <<dest, stamp>>
    BY <1>5 DEF Serve, Select, Accept, Share, Treat, RecvHeader, RecvSget,
       RecvMessage, RecvDiscard, RecvAgain, RecvEof, log
  <2> QED BY <1>0, <2>1 DEF PendingUnpublished
<1>6. CASE Wipe \/ UNCHANGED vars
  BY <1>0, <1>6 DEF Wipe, vars, log, PendingUnpublished
<1> QED BY <1>1, <1>2, <1>3, <1>4, <1>5, <1>6 DEF Next, RecvOverrun

\* A publication keeps what the invariant says of boards, clocks and causes.
LEMMA PublishKeeps ==
  ASSUME IInv, NEW s \in Server, NEW m \in Message, Publish(s, m)
  PROVE  BoardsAreCopies' /\ ClocksPastSeen' /\ BoardsFit' /\ CausalStamps'
<1>0. TypeOK /\ BoardsFit
  BY DEF IInv
<1>1. /\ stamp[m] = Unpublished
      /\ stamp'[m] = clock[s] /\ clock[s] \in Nat
      /\ \A n \in Message \ {m} : stamp'[n] = stamp[n]
      /\ deps'[m] = seen[s]
      /\ \A n \in Message \ {m} : deps'[n] = deps[n]
      /\ StampsStay
  BY PublishStamps
<1> DEFINE x == [lc |-> clock[s], msg |-> m]
<1>2. /\ Len(board'[s]) <= Capacity /\ board'[s] # <<>>
      /\ \A i \in DOMAIN board'[s] :
           board'[s][i] = x \/ \E j \in DOMAIN board[s] : board'[s][i] = board[s][j]
      /\ clock'[s] = clock[s] + 1
      /\ seen'[s] = seen[s] \cup {m}
      /\ \A t \in Server \ {s} : /\ board'[t] = board[t]
                                 /\ clock'[t] = clock[t]
                                 /\ seen'[t] = seen[t]
  <2>1. NewMessage(s, clock[s], m)
    BY DEF Publish
  <2> QED BY <1>0, <1>1, <2>1, NewMessageStep
<1>3. BoardsAreCopies'
  <2>1. \A t \in Server : \A i \in DOMAIN board[t] :
          /\ board[t][i].msg \in Message
          /\ stamp'[board[t][i].msg] # Unpublished
          /\ stamp'[board[t][i].msg] <= board[t][i].lc
    BY <1>1 DEF IInv, BoardsAreCopies, Copy, StampsStay
  <2>2. x.msg \in Message /\ stamp'[x.msg] # Unpublished /\ stamp'[x.msg] <= x.lc
    BY <1>1 DEF Unpublished
  <2> HIDE DEF x
  <2> QED BY <1>2, <2>1, <2>2 DEF BoardsAreCopies, Copy
<1>4. \A t \in Server : \A n \in seen[t] :
        n \in Message /\ n # m /\ stamp'[n] = stamp[n]
        /\ stamp[n] # Unpublished /\ stamp[n] < clock[t]
  BY <1>0, <1>1 DEF IInv, ClocksPastSeen, TypeOK
<1>5. ClocksPastSeen'
  <2> SUFFICES ASSUME NEW t \in Server, NEW n \in seen'[t]
               PROVE  stamp'[n] # Unpublished /\ stamp'[n] < clock'[t]
    BY DEF ClocksPastSeen
  <2>1. CASE t # s
    BY <1>2, <1>4, <2>1
  <2>2. CASE t = s /\ n = m
    BY <1>1, <1>2, <2>2 DEF Unpublished
  <2>3. CASE t = s /\ n # m
    <3>1. n \in seen[s] /\ clock'[s] = clock[s] + 1
      BY <1>2, <2>3
    <3>2. stamp[n] \in Nat
      BY <1>0, <1>4, <3>1 DEF TypeOK, Unpublished
    <3> QED BY <1>1, <1>4, <2>3, <3>1, <3>2
  <2> QED BY <2>1, <2>2, <2>3
<1>6. BoardsFit'
  <2>1. \A t \in Server \ {s} : sharing'[t] = sharing[t]
    BY <1>0 DEF Publish, TypeOK
  <2> QED BY <1>0, <1>2, <2>1 DEF BoardsFit
<1>7. CausalStamps'
  <2> SUFFICES ASSUME NEW p \in Message, NEW n \in Message,
                      stamp'[p] # Unpublished, n \in deps'[p]
               PROVE  stamp'[n] # Unpublished /\ stamp'[n] < stamp'[p]
    BY DEF CausalStamps
  <2>1. CASE p = m
    BY <1>1, <1>4, <2>1
  <2>2. CASE p # m
    <3>1. stamp[p] # Unpublished /\ n \in deps[p] /\ stamp'[p] = stamp[p]
      BY <1>1, <2>2
    <3>2. stamp[n] # Unpublished /\ stamp[n] < stamp[p]
      BY <3>1 DEF IInv, CausalStamps
    <3> QED BY <1>1, <3>1, <3>2 DEF StampsStay
  <2> QED BY <2>1, <2>2
<1> QED BY <1>3, <1>5, <1>6, <1>7

\* So does a message received.
LEMMA ReceiveKeeps ==
  ASSUME IInv, NEW s \in Server, RecvMessage(s)
  PROVE  BoardsAreCopies' /\ ClocksPastSeen' /\ BoardsFit' /\ CausalStamps'
<1>0. TypeOK /\ BoardsFit
  BY DEF IInv
<1> DEFINE y == Received(s)
           lc == Raised(s, y.lc)
           m == y.msg
           x == [lc |-> lc, msg |-> m]
<1>1. /\ y.lc \in Nat /\ m \in Message
      /\ stamp[m] # Unpublished /\ stamp[m] <= y.lc
  BY ReceivedLine DEF RecvMessage, Copy, Line
<1>2. clock[s] \in Nat /\ stamp[m] \in Nat
  BY <1>0, <1>1 DEF TypeOK
<1>3. lc \in Nat /\ stamp[m] <= lc /\ clock[s] <= lc
  BY <1>1, <1>2 DEF Raised, Greater
<1>4. /\ NewMessage(s, lc, m)
      /\ UNCHANGED <<stamp, deps, sharing>>
  BY DEF RecvMessage, loop
<1> HIDE DEF y, lc, m
<1>5. /\ Len(board'[s]) <= Capacity /\ board'[s] # <<>>
      /\ \A i \in DOMAIN board'[s] :
           board'[s][i] = x \/ \E j \in DOMAIN board[s] : board'[s][i] = board[s][j]
      /\ clock'[s] = lc + 1
      /\ seen'[s] = seen[s] \cup {m}
      /\ \A t \in Server \ {s} : /\ board'[t] = board[t]
                                 /\ clock'[t] = clock[t]
                                 /\ seen'[t] = seen[t]
  BY <1>0, <1>1, <1>3, <1>4, NewMessageStep
<1>6. BoardsAreCopies'
  <2>1. x.msg \in Message /\ stamp[x.msg] # Unpublished /\ stamp[x.msg] <= x.lc
    BY <1>1, <1>3
  <2> HIDE DEF x
  <2> QED BY <1>4, <1>5, <2>1 DEF IInv, BoardsAreCopies, Copy
<1>7. ClocksPastSeen'
  <2> SUFFICES ASSUME NEW t \in Server, NEW n \in seen'[t]
               PROVE  stamp[n] # Unpublished /\ stamp[n] < clock'[t]
    BY <1>4 DEF ClocksPastSeen
  <2>1. CASE t # s
    BY <1>5, <2>1 DEF IInv, ClocksPastSeen
  <2>2. CASE t = s /\ n = m
    BY <1>1, <1>2, <1>3, <1>5, <2>2
  <2>3. CASE t = s /\ n # m
    <3>1. n \in seen[s] /\ n \in Message /\ clock'[s] = lc + 1
      BY <1>0, <1>5, <2>3 DEF TypeOK
    <3>2. stamp[n] # Unpublished /\ stamp[n] < clock[s] /\ stamp[n] \in Nat
      BY <1>0, <3>1 DEF IInv, ClocksPastSeen, TypeOK
    <3> QED BY <1>2, <1>3, <2>3, <3>1, <3>2
  <2> QED BY <2>1, <2>2, <2>3
<1>8. BoardsFit'
  BY <1>0, <1>4, <1>5 DEF BoardsFit
<1>9. CausalStamps'
  BY <1>4 DEF IInv, CausalStamps
<1> QED BY <1>6, <1>7, <1>8, <1>9

\* The invariant is inductive.
LEMMA InvStep == IInv /\ [Next]_vars => IInv'
<1> SUFFICES ASSUME IInv, [Next]_vars PROVE IInv'
  OBVIOUS
<1>1. TypeOK' /\ PendingUnpublished' /\ LinesAreCopies'
  BY TypeStep, PendingStep, LinesStep
<1>2. BoardsAreCopies' /\ ClocksPastSeen' /\ BoardsFit' /\ CausalStamps'
  <2>1. CASE \E s \in Server, m \in Message : Publish(s, m)
    BY <2>1, PublishKeeps
  <2>2. CASE \E s \in Server : RecvMessage(s)
    BY <2>2, ReceiveKeeps
  <2>3. CASE UNCHANGED log /\ \A t \in Server : sharing'[t] \subseteq sharing[t]
    <3>1. UNCHANGED <<clock, board, stamp, deps, seen>>
      BY <2>3 DEF log
    <3>2. BoardsAreCopies'
      BY <3>1 DEF IInv, BoardsAreCopies, Copy
    <3>3. ClocksPastSeen' /\ CausalStamps'
      BY <3>1 DEF IInv, ClocksPastSeen, CausalStamps
    <3>4. BoardsFit'
      BY <2>3, <3>1 DEF IInv, BoardsFit
    <3> QED BY <3>2, <3>3, <3>4
  <2> QED BY <2>1, <2>2, <2>3, LogSteps DEF IInv
<1> QED BY <1>1, <1>2 DEF IInv

LEMMA Invariant == Spec => []IInv
  BY InitInv, InvStep, PTL DEF Spec

-----------------------------------------------------------------------------
(* The theorems. *)

\* The variables of the servers keep their types; no header is ever stored as
\* a message, and there is something to share whenever a server shares.
THEOREM TypeCorrect == Spec => []TypeOK
<1>1. IInv => TypeOK
  BY DEF IInv
<1> QED BY <1>1, Invariant, PTL

\* A message always carries a larger stamp than every message its publisher
\* had taken in, whatever is lost, split or cut off, and however the copies
\* were stamped anew on their way.
THEOREM StampsAreCausal == Spec => []CausalStamps
<1>1. IInv => CausalStamps
  BY DEF IInv
<1> QED BY <1>1, Invariant, PTL

LEMMA BulletinInit == Init => B!Init
  BY DEF Init, B!Init, Unpublished, B!Unpublished

LEMMA BulletinStep == IInv /\ [Next]_vars => [B!Next]_(B!vars)
<1> SUFFICES ASSUME IInv, [Next]_vars PROVE B!Next \/ UNCHANGED B!vars
  OBVIOUS
<1>0. TypeOK
  BY DEF IInv
<1>1. ASSUME NEW s \in Server, NEW m \in Message, Publish(s, m)
      PROVE  B!Publish(s, m)
  <2>1. /\ stamp[m] = Unpublished /\ stamp'[m] = clock[s] /\ clock[s] \in Nat
        /\ \A n \in Message \ {m} : stamp'[n] = stamp[n]
    BY <1>1, PublishStamps
  <2>2. /\ stamp' = [stamp EXCEPT ![m] = stamp'[m]]
        /\ deps' = [deps EXCEPT ![m] = seen[s]]
        /\ seen' = [seen EXCEPT ![s] = seen[s] \cup {m}]
    BY <1>1, <2>1 DEF Publish, NewMessage
  <2>3. \A n \in seen[s] : stamp[n] < stamp'[m]
    BY <2>1 DEF IInv, ClocksPastSeen
  <2> QED BY <2>1, <2>2, <2>3 DEF B!Publish, B!Unpublished, Unpublished
<1>2. ASSUME NEW s \in Server, RecvMessage(s)
      PROVE  \E m \in Message : B!Deliver(s, m)
  <2> DEFINE m == Received(s).msg
  <2>1. m \in Message /\ stamp[m] # Unpublished
    BY <1>2, ReceivedLine DEF RecvMessage, Copy
  <2>2. /\ seen' = [seen EXCEPT ![s] = seen[s] \cup {m}]
        /\ UNCHANGED <<stamp, deps>>
    BY <1>2 DEF RecvMessage, NewMessage
  <2> HIDE DEF m
  <2>3. B!Deliver(s, m)
    BY <2>1, <2>2 DEF B!Deliver, B!Unpublished, Unpublished
  <2> QED BY <2>1, <2>3
<1>3. CASE UNCHANGED log
  BY <1>3 DEF log, B!vars
<1> QED BY <1>0, <1>1, <1>2, <1>3, LogSteps DEF B!Next

\* The servers implement the bulletin: a message enters once, at one server,
\* stamped above all that server has taken in, and is taken in elsewhere only
\* after that.
THEOREM ServersImplementBulletin == Spec => BulletinSpec
  BY BulletinInit, BulletinStep, Invariant, PTL DEF Spec, BulletinSpec, B!Spec

-----------------------------------------------------------------------------
(* Joins. *)

\* s has its list of servers and has not stopped.
LookedUp(s) == phase[s] \in {"connect", "loop"}

\* handle_join sends REG before it asks for the list.
RegisteredFirst ==
  \A s \in Server : phase[s] = "lookup" \/ LookedUp(s) => s \in registered

\* The list is empty before the look-up and used up when the join ends.
KnownWhileConnecting ==
  \A s \in Server : phase[s] # "connect" => known[s] = {}

\* One of the two is to connect to the other, has done so or has failed to.
Linked(s, t) ==
  \/ t \in known[s] \/ s \in known[t]
  \/ Connected(<<s, t>>) \/ Connected(<<t, s>>)
  \/ ~Reached(s, t)

PairsLinked ==
  \A s, t \in Server : s # t /\ LookedUp(s) /\ LookedUp(t) => Linked(s, t)

\* The inductive invariant.
JInv == RegisteredFirst /\ KnownWhileConnecting /\ PairsLinked

LEMMA JInit == Init => JInv
  BY DEF Init, JInv, RegisteredFirst, KnownWhileConnecting, PairsLinked, LookedUp

\* Only a failed write, the end of the stream and a stop close a connection,
\* and the first two only when the peer has closed it.
LEMMA ClosedOnlyByPeer ==
  ASSUME TypeOK, [Next]_vars, NEW s \in Server, NEW c \in Conn,
         phase'[s] # "down", c \in links[s], PeerOpen(s, c)
  PROVE  c \in links'[s]
<1>0. links \in [Server -> SUBSET Conn]
  BY DEF TypeOK
<1> USE DEF net
<1>1. ASSUME NEW p \in Server, NEW t \in Server, Connect(p, t)
      PROVE  c \in links'[s]
  BY <1>0, <1>1 DEF Connect
<1>2. ASSUME NEW p \in Server, Accept(p) PROVE c \in links'[s]
  <2>1. PICK d \in backlog[p] : links' = [links EXCEPT ![p] = links[p] \cup {d}]
    BY <1>2 DEF Accept
  <2> QED BY <1>0, <2>1
<1>3. ASSUME NEW p \in Server, NEW d \in Conn, Share(p, d) PROVE c \in links'[s]
  <2>1. Write(p, d, Frame(<<board[p][Len(board[p])]>>))
    BY <1>3 DEF Share
  <2>2. UNCHANGED links \/
          (~PeerOpen(p, d) /\ links' = [links EXCEPT ![p] = links[p] \ {d}])
    BY <2>1 DEF Write
  <2> QED BY <1>0, <2>2
<1>4. ASSUME NEW p \in Server, RecvSget(p) PROVE c \in links'[s]
  <2>1. UNCHANGED links \/
          (~PeerOpen(p, drain[p]) /\ links' = [links EXCEPT ![p] = links[p] \ {drain[p]}])
    BY <1>4 DEF RecvSget
  <2> QED BY <1>0, <2>1
<1>5. ASSUME NEW p \in Server, RecvEof(p) PROVE c \in links'[s]
  <2>1. /\ ~PeerOpen(p, drain[p])
        /\ links' = [links EXCEPT ![p] = links[p] \ {drain[p]}]
    BY <1>5 DEF RecvEof
  <2> QED BY <1>0, <2>1
<1>6. ASSUME NEW p \in Server, Stop(p) PROVE c \in links'[s]
  <2>1. /\ phase' = [phase EXCEPT ![p] = "down"]
        /\ links' = [links EXCEPT ![p] = {}]
    BY <1>6 DEF Stop
  <2> QED BY <1>0, <2>1 DEF TypeOK
<1>7. ASSUME NEW p \in Server,
             \/ Register(p) \/ Lookup(p) \/ Joined(p) \/ LookupFails(p)
             \/ UpdateReg(p) \/ Select(p) \/ RecvHeader(p) \/ RecvMessage(p)
             \/ RecvDiscard(p) \/ RecvAgain(p)
      PROVE  c \in links'[s]
  BY <1>7 DEF Register, Lookup, Joined, LookupFails, UpdateReg, Select,
     RecvHeader, RecvMessage, RecvDiscard, RecvAgain
<1>8. ASSUME NEW p \in Server, NEW d \in Conn, Treat(p, d) PROVE c \in links'[s]
  BY <1>8 DEF Treat
<1>9. ASSUME NEW p \in Server, NEW m \in Message, Publish(p, m) \/ ClientSends(p, m)
      PROVE  c \in links'[s]
  BY <1>9 DEF Publish, ClientSends
<1>10. CASE Wipe \/ UNCHANGED vars
  BY <1>10 DEF Wipe, vars
<1> QED
  BY <1>1, <1>2, <1>3, <1>4, <1>5, <1>6, <1>7, <1>8, <1>9, <1>10
     DEF Next, Join, Serve, RecvOverrun

\* A connection leaves the backlog of a server that runs by being accepted.
LEMMA BacklogAccepted ==
  ASSUME TypeOK, [Next]_vars, NEW s \in Server, NEW c \in Conn,
         phase'[s] # "down", c \in backlog[s]
  PROVE  c \in backlog'[s] \cup links'[s]
<1>0. links \in [Server -> SUBSET Conn] /\ backlog \in [Server -> SUBSET Conn]
  BY DEF TypeOK
<1> USE DEF net
<1>1. ASSUME NEW p \in Server, NEW t \in Server, Connect(p, t)
      PROVE  c \in backlog'[s]
  BY <1>0, <1>1 DEF Connect
<1>2. ASSUME NEW p \in Server, Accept(p) PROVE c \in backlog'[s] \cup links'[s]
  <2>1. PICK d \in backlog[p] :
          /\ backlog' = [backlog EXCEPT ![p] = backlog[p] \ {d}]
          /\ links' = [links EXCEPT ![p] = links[p] \cup {d}]
    BY <1>2 DEF Accept, Waiting
  <2> QED BY <1>0, <2>1
<1>3. ASSUME NEW p \in Server, Stop(p) PROVE c \in backlog'[s]
  <2>1. /\ phase' = [phase EXCEPT ![p] = "down"]
        /\ backlog' = [backlog EXCEPT ![p] = {}]
    BY <1>3 DEF Stop
  <2> QED BY <1>0, <2>1 DEF TypeOK
<1>4. ASSUME NEW p \in Server,
             \/ Register(p) \/ Lookup(p) \/ Joined(p) \/ LookupFails(p)
             \/ UpdateReg(p) \/ Select(p) \/ RecvHeader(p) \/ RecvSget(p)
             \/ RecvMessage(p) \/ RecvDiscard(p) \/ RecvAgain(p) \/ RecvEof(p)
      PROVE  c \in backlog'[s]
  BY <1>4 DEF Register, Lookup, Joined, LookupFails, UpdateReg, Select,
     RecvHeader, RecvSget, RecvMessage, RecvDiscard, RecvAgain, RecvEof
<1>5. ASSUME NEW p \in Server, NEW d \in Conn, Treat(p, d) \/ Share(p, d)
      PROVE  c \in backlog'[s]
  BY <1>5 DEF Treat, Share
<1>6. ASSUME NEW p \in Server, NEW m \in Message, Publish(p, m) \/ ClientSends(p, m)
      PROVE  c \in backlog'[s]
  BY <1>6 DEF Publish, ClientSends
<1>7. CASE Wipe \/ UNCHANGED vars
  BY <1>7 DEF Wipe, vars
<1> QED
  BY <1>1, <1>2, <1>3, <1>4, <1>5, <1>6, <1>7 DEF Next, Join, Serve, RecvOverrun

\* A connection between two servers that run stays.
LEMMA ConnectedStays ==
  ASSUME TypeOK, [Next]_vars, NEW s \in Server, NEW t \in Server, s # t,
         phase'[s] # "down", phase'[t] # "down", Connected(<<s, t>>)
  PROVE  Connected(<<s, t>>)'
<1> DEFINE c == <<s, t>>
<1>1. c \in Conn /\ c[1] = s /\ c[2] = t
  BY DEF Conn
<1>2. Peer(s, c) = t /\ Peer(t, c) = s
  BY DEF Peer
<1>3. c \in links[s] /\ c \in links[t] \cup backlog[t]
  BY DEF Connected
<1>4. PeerOpen(s, c) /\ PeerOpen(t, c)
  BY <1>2, <1>3 DEF PeerOpen
<1> HIDE DEF c
<1>5. c \in links'[s]
  BY <1>1, <1>3, <1>4, ClosedOnlyByPeer
<1>6. c \in links'[t] \cup backlog'[t]
  BY <1>1, <1>3, <1>4, ClosedOnlyByPeer, BacklogAccepted
<1> QED BY <1>5, <1>6 DEF c, Connected

\* A connection that could not be made is never tried again.
LEMMA FailedStays ==
  ASSUME [Next]_vars
  PROVE  failed \subseteq failed'
<1> USE DEF ids
<1>1. ASSUME NEW s \in Server, NEW t \in Server, Connect(s, t)
      PROVE  failed \subseteq failed'
  BY <1>1 DEF Connect
<1>2. ASSUME NEW s \in Server,
             \/ Register(s) \/ Lookup(s) \/ Joined(s) \/ LookupFails(s)
             \/ UpdateReg(s) \/ Stop(s)
      PROVE  failed \subseteq failed'
  BY <1>2 DEF Register, Lookup, Joined, LookupFails, UpdateReg, Stop
<1>3. ASSUME NEW s \in Server, Serve(s) PROVE failed \subseteq failed'
  BY <1>2, <1>3 DEF Serve, Select, Accept, Publish, Share, Treat, RecvHeader,
     RecvSget, RecvMessage, RecvDiscard, RecvOverrun, RecvAgain, RecvEof
<1>4. ASSUME NEW s \in Server, NEW m \in Message, ClientSends(s, m)
      PROVE  failed \subseteq failed'
  BY <1>4 DEF ClientSends
<1>5. CASE Wipe \/ UNCHANGED vars
  BY <1>5 DEF Wipe, vars
<1> QED BY <1>1, <1>2, <1>3, <1>4, <1>5 DEF Next, Join

\* How a step changes who has looked up, who is known and who is listed.
IdsKept == UNCHANGED <<phase, known>> /\ registered \subseteq registered'

LEMMA IdSteps ==
  ASSUME Reliable, [Next]_vars
  PROVE  \/ IdsKept
         \/ \E s \in Server : Register(s) \/ Lookup(s) \/ Joined(s) \/ Stop(s)
         \/ \E s, t \in Server : Connect(s, t)
<1>1. ASSUME NEW s \in Server, Serve(s), ~Stop(s) PROVE IdsKept
  BY <1>1 DEF Serve, Select, Accept, Publish, Share, Treat, RecvHeader, RecvSget,
     RecvMessage, RecvDiscard, RecvOverrun, RecvAgain, RecvEof, ids, IdsKept
<1>2. ASSUME NEW s \in Server, UpdateReg(s) PROVE IdsKept
  BY <1>2 DEF UpdateReg, Listed, IdsKept
<1>3. ASSUME NEW s \in Server, NEW m \in Message, ClientSends(s, m) PROVE IdsKept
  BY <1>3 DEF ClientSends, ids, IdsKept
<1>4. CASE UNCHANGED vars
  BY <1>4 DEF vars, ids, IdsKept
<1>5. ~Wipe /\ \A s \in Server : ~LookupFails(s)
  BY DEF Wipe, LookupFails
<1> QED BY <1>1, <1>2, <1>3, <1>4, <1>5 DEF Next, Join

\* A pair that was linked stays linked while both run, but for the two steps
\* that shorten a list of known servers.
LEMMA LinkedStays ==
  ASSUME TypeOK, [Next]_vars, NEW s \in Server, NEW t \in Server, s # t,
         phase'[s] # "down", phase'[t] # "down", Linked(s, t),
         t \in known[s] => t \in known'[s],
         s \in known[t] => s \in known'[t]
  PROVE  Linked(s, t)'
  BY ConnectedStays, FailedStays DEF Linked, Reached

LEMMA JStep == Reliable /\ TypeOK /\ JInv /\ [Next]_vars => JInv'
<1> SUFFICES ASSUME Reliable, TypeOK, JInv, [Next]_vars PROVE JInv'
  OBVIOUS
<1> USE DEF JInv, LookedUp
<1>0. /\ phase \in [Server -> {"prompt", "lookup", "connect", "loop", "down"}]
      /\ known \in [Server -> SUBSET Server]
      /\ registered \in SUBSET Server
  BY DEF TypeOK
<1>1. CASE IdsKept
  <2>1. RegisteredFirst' /\ KnownWhileConnecting'
    BY <1>1 DEF IdsKept, RegisteredFirst, KnownWhileConnecting
  <2>2. PairsLinked'
    <3> SUFFICES ASSUME NEW s \in Server, NEW t \in Server, s # t,
                        LookedUp(s)', LookedUp(t)'
                 PROVE  Linked(s, t)'
      BY DEF PairsLinked
    <3>1. Linked(s, t)
      BY <1>1 DEF IdsKept, PairsLinked
    <3> QED BY <1>1, <3>1, LinkedStays DEF IdsKept
  <2> QED BY <2>1, <2>2
<1>2. ASSUME NEW p \in Server, Register(p) \/ Joined(p) \/ Stop(p) PROVE JInv'
  <2>1. /\ \A s \in Server : s # p => phase'[s] = phase[s] /\ known'[s] = known[s]
        /\ phase'[p] \in {"lookup", "loop", "down"}
        /\ phase'[p] = "loop" => phase[p] = "connect"
        /\ phase'[p] = "lookup" => p \in registered'
        /\ known'[p] = {}
        /\ registered \subseteq registered'
        /\ known'[p] # known[p] => phase'[p] = "down"
    <3>1. CASE Register(p)
      BY <1>0, <3>1 DEF Register, Listed, KnownWhileConnecting
    <3>2. CASE Joined(p)
      BY <1>0, <3>2 DEF Joined
    <3>3. CASE Stop(p)
      BY <1>0, <3>3 DEF Stop
    <3> QED BY <1>2, <3>1, <3>2, <3>3
  <2>2. RegisteredFirst' /\ KnownWhileConnecting'
    BY <2>1 DEF RegisteredFirst, KnownWhileConnecting
  <2>3. PairsLinked'
    <3> SUFFICES ASSUME NEW s \in Server, NEW t \in Server, s # t,
                        LookedUp(s)', LookedUp(t)'
                 PROVE  Linked(s, t)'
      BY DEF PairsLinked
    <3>1. LookedUp(s) /\ LookedUp(t)
      BY <2>1
    <3>2. Linked(s, t)
      BY <3>1 DEF PairsLinked
    <3>3. known'[s] = known[s] /\ known'[t] = known[t]
      BY <2>1
    <3> QED BY <3>2, <3>3, LinkedStays
  <2> QED BY <2>2, <2>3
<1>3. ASSUME NEW p \in Server, Lookup(p) PROVE JInv'
  <2>1. /\ phase[p] = "lookup"
        /\ phase' = [phase EXCEPT ![p] = "connect"]
        /\ known' = [known EXCEPT ![p] = registered \ {p}]
        /\ registered' = registered
    BY <1>3 DEF Lookup
  <2>2. RegisteredFirst' /\ KnownWhileConnecting'
    BY <1>0, <2>1 DEF RegisteredFirst, KnownWhileConnecting
  <2>3. PairsLinked'
    <3> SUFFICES ASSUME NEW s \in Server, NEW t \in Server, s # t,
                        LookedUp(s)', LookedUp(t)'
                 PROVE  Linked(s, t)'
      BY DEF PairsLinked
    <3>1. CASE s = p
      BY <1>0, <2>1, <3>1 DEF RegisteredFirst, Linked
    <3>2. CASE t = p
      BY <1>0, <2>1, <3>2 DEF RegisteredFirst, Linked
    <3>3. CASE s # p /\ t # p
      <4>1. /\ LookedUp(s) /\ LookedUp(t)
            /\ known'[s] = known[s] /\ known'[t] = known[t]
        BY <1>0, <2>1, <3>3
      <4>2. Linked(s, t)
        BY <4>1 DEF PairsLinked
      <4> QED BY <4>1, <4>2, LinkedStays
    <3> QED BY <3>1, <3>2, <3>3
  <2> QED BY <2>2, <2>3
<1>4. ASSUME NEW p \in Server, NEW q \in Server, Connect(p, q) PROVE JInv'
  <2>1. /\ phase[p] = "connect" /\ UNCHANGED <<phase, registered>>
        /\ known' = [known EXCEPT ![p] = known[p] \ {q}]
    BY <1>4 DEF Connect
  <2>2. RegisteredFirst' /\ KnownWhileConnecting'
    BY <1>0, <2>1 DEF RegisteredFirst, KnownWhileConnecting
  <2>3. p # q => Connected(<<p, q>>)' \/ ~Reached(p, q)'
    <3>1. CASE Unmade(p, q)
      <4>1. <<p, q>> \in failed'
        BY <3>1 DEF Unmade
      <4> QED BY <4>1 DEF Reached, Between
    <3>2. CASE Made(p, q) /\ p # q
      <4>1. /\ links' = [links EXCEPT ![p] = links[p] \cup {<<p, q>>}]
            /\ backlog' = [backlog EXCEPT ![q] = backlog[q] \cup {<<p, q>>}]
        BY <3>2 DEF Made
      <4> QED BY <3>2, <4>1 DEF Connected, TypeOK
    <3> QED BY <1>4, <3>1, <3>2, ConnectCases
  <2>4. PairsLinked'
    <3> SUFFICES ASSUME NEW s \in Server, NEW t \in Server, s # t,
                        LookedUp(s)', LookedUp(t)'
                 PROVE  Linked(s, t)'
      BY DEF PairsLinked
    <3>1. LookedUp(s) /\ LookedUp(t) /\ Linked(s, t)
      BY <2>1 DEF PairsLinked
    <3>2. CASE s = p /\ t = q
      BY <2>3, <3>1, <3>2 DEF Linked
    <3>3. CASE s = q /\ t = p
      BY <2>3, <3>1, <3>3 DEF Linked, Reached, Between
    <3>4. CASE ~(s = p /\ t = q) /\ ~(s = q /\ t = p)
      <4>1. /\ t \in known[s] => t \in known'[s]
            /\ s \in known[t] => s \in known'[t]
        BY <1>0, <2>1, <3>4
      <4>2. phase'[s] # "down" /\ phase'[t] # "down"
        OBVIOUS
      <4> QED BY <3>1, <4>1, <4>2, LinkedStays
    <3> QED BY <3>2, <3>3, <3>4
  <2> QED BY <2>2, <2>4
<1> QED BY <1>1, <1>2, <1>3, <1>4, IdSteps

\* Servers in their loops are pairwise connected, however many join, in
\* whatever order their joins interleave, and whoever else stops, unless a
\* connection between the two could not be made (handle_join).
THEOREM ReliableMeshComplete ==
  ASSUME Reliable
  PROVE  Spec => []MeshComplete
<1>1. Init => JInv
  BY JInit
<1>2. TypeOK /\ JInv /\ [Next]_vars => JInv'
  BY JStep
<1>3. JInv => MeshComplete
  BY DEF JInv, KnownWhileConnecting, PairsLinked, LookedUp, Linked, MeshComplete,
         Reached, Between
<1> QED BY <1>1, <1>2, <1>3, TypeCorrect, PTL DEF Spec

-----------------------------------------------------------------------------
(* Frames. *)

\* The server that opens c has not done so yet.
Fresh(c) == phase[c[1]] \in {"prompt", "lookup"} \/ c[2] \in known[c[1]]

\* p knows nothing of c.
Unused(p, c) ==
  /\ c \notin links[p] /\ c \notin backlog[p]
  /\ c \notin sharing[p] /\ c \notin ready[p].conns
  /\ drain[p] # c
  /\ inbox[p][c] = <<>>

\* A pair of servers has at most one connection opened by the first, ever.
FreshUnused == \A c \in Conn : Fresh(c) => \A p \in Server : Unused(p, c)

\* Behind the first line of q there is no request, and no message directly
\* behind a request.
InFrames(q) ==
  \A i \in DOMAIN q : i > 1 => /\ q[i].kind # "SGET"
                               /\ q[i].kind = "MSG" => q[i - 1].kind # "SGET"

\* The first line of q is one the reader expects, after a header or not.
HeadFits(q, reading) ==
  q # <<>> => /\ q[1].kind = "MSG" => reading
              /\ q[1].kind = "SGET" => ~reading

\* p is inside a frame of c.
Reading(p, c) == drain[p] = c /\ sms[p]

FramesWhole ==
  \A p \in Server, c \in Conn :
    InFrames(inbox[p][c]) /\ HeadFits(inbox[p][c], Reading(p, c))

\* The inductive invariant.
FInv == FreshUnused /\ FramesWhole

LEMMA FInit == Init => FInv
<1> SUFFICES ASSUME Init PROVE FInv
  OBVIOUS
<1>1. FreshUnused
  BY MeshAssumption DEF Init, FreshUnused, Unused, Nothing
<1>2. FramesWhole
  BY DEF Init, FramesWhole, InFrames, HeadFits
<1> QED BY <1>1, <1>2 DEF FInv

-----------------------------------------------------------------------------
(* Sequences of lines. *)

\* A frame may be written behind anything.
LEMMA FrameAppended ==
  ASSUME NEW q \in Seq(Line), InFrames(q), NEW r, HeadFits(q, r),
         NEW items \in Seq(Item)
  PROVE  InFrames(q \o Frame(items)) /\ HeadFits(q \o Frame(items), r)
<1> DEFINE f == Frame(items)
           n == Len(q)
           k == Len(f)
           u == q \o f
<1>1. /\ f \in Seq(Line) /\ k \in Nat /\ k >= 1
      /\ f[1].kind = "SMSG" /\ \A i \in 2..k : f[i].kind = "MSG"
  BY FrameLines
<1>2. n \in Nat /\ DOMAIN q = 1..n
  BY LenProperties
<1> HIDE DEF f
<1>3. /\ DOMAIN u = 1..(n + k)
      /\ \A i \in 1..n : u[i] = q[i]
      /\ \A i \in (n + 1)..(n + k) : i - n \in 1..k /\ u[i] = f[i - n]
  BY <1>1, <1>2
<1> HIDE DEF u, n, k
<1>4. u[n + 1].kind = "SMSG"
  <2> DEFINE j == n + 1
  <2>1. j \in (n + 1)..(n + k) /\ j - n = 1
    BY <1>1, <1>2
  <2> HIDE DEF j
  <2>2. u[j] = f[1]
    BY <1>3, <2>1
  <2> QED BY <1>1, <2>2 DEF j
<1>5. \A i \in (n + 2)..(n + k) : u[i].kind = "MSG"
  <2> TAKE i \in (n + 2)..(n + k)
  <2>1. i \in (n + 1)..(n + k) /\ i - n \in 2..k
    BY <1>1, <1>2
  <2> QED BY <1>1, <1>3, <2>1
<1>6. InFrames(u)
  <2> SUFFICES ASSUME NEW i \in 1..(n + k), i > 1
               PROVE  /\ u[i].kind # "SGET"
                      /\ u[i].kind = "MSG" => u[i - 1].kind # "SGET"
    BY <1>3 DEF InFrames
  <2>1. CASE i <= n
    <3>1. i \in 1..n /\ i - 1 \in 1..n
      BY <1>2, <2>1
    <3> QED BY <1>2, <1>3, <3>1 DEF InFrames
  <2>2. CASE i = n + 1
    BY <1>4, <2>2
  <2>3. CASE i > n + 1
    <3>1. i \in (n + 2)..(n + k) /\ (i - 1 = n + 1 \/ i - 1 \in (n + 2)..(n + k))
      BY <1>1, <1>2, <2>3
    <3> QED BY <1>4, <1>5, <3>1
  <2> QED BY <1>1, <1>2, <2>1, <2>2, <2>3
<1>7. HeadFits(u, r)
  <2>1. CASE q = <<>>
    <3>1. u[1].kind = "SMSG"
      BY <1>4, <2>1 DEF n
    <3> QED BY <3>1 DEF HeadFits
  <2>2. CASE q # <<>>
    <3>1. 1 \in 1..n
      BY <1>2, <2>2 DEF n
    <3> QED BY <1>3, <2>2, <3>1 DEF HeadFits
  <2> QED BY <2>1, <2>2
<1> QED BY <1>6, <1>7 DEF u, f

\* What is left when the first line of q has been read.
LEMMA HeadRead ==
  ASSUME NEW q \in Seq(Line), q # <<>>, InFrames(q), NEW r,
         Head(q).kind = "SGET" \/ r
  PROVE  InFrames(Tail(q)) /\ HeadFits(Tail(q), r)
<1> DEFINE n == Len(q)
           u == Tail(q)
<1>1. /\ n \in Nat /\ n >= 1 /\ DOMAIN q = 1..n /\ Head(q) = q[1]
      /\ DOMAIN u = 1..(n - 1)
      /\ \A i \in 1..(n - 1) : i + 1 \in 1..n /\ u[i] = q[i + 1]
  OBVIOUS
<1>2. u # <<>> => n >= 2
  BY <1>1
<1> HIDE DEF u, n
<1>3. InFrames(u)
  <2> SUFFICES ASSUME NEW i \in 1..(n - 1), i > 1
               PROVE  /\ u[i].kind # "SGET"
                      /\ u[i].kind = "MSG" => u[i - 1].kind # "SGET"
    BY <1>1 DEF InFrames
  <2>1. /\ i - 1 \in 1..(n - 1) /\ i - 1 + 1 = i /\ i + 1 - 1 = i
        /\ i + 1 > 1 /\ i + 1 \in 1..n
    BY <1>1
  <2>2. u[i] = q[i + 1] /\ u[i - 1] = q[i]
    BY <1>1, <2>1
  <2> QED BY <1>1, <2>1, <2>2 DEF InFrames
<1>4. HeadFits(u, r)
  <2> SUFFICES ASSUME u # <<>>
               PROVE  /\ u[1].kind = "MSG" => r
                      /\ u[1].kind = "SGET" => ~r
    BY DEF HeadFits
  <2>1. 1 \in 1..(n - 1) /\ 2 \in 1..n /\ 2 > 1 /\ 2 - 1 = 1 /\ 1 + 1 = 2
    BY <1>1, <1>2
  <2>2. u[1] = q[2]
    BY <1>1, <2>1
  <2>3. q[2].kind # "SGET" /\ (q[2].kind = "MSG" => q[1].kind # "SGET")
    BY <1>1, <2>1 DEF InFrames
  <2> QED BY <1>1, <2>2, <2>3
<1> QED BY <1>3, <1>4 DEF u

-----------------------------------------------------------------------------
(* A pair of servers has one connection at most. *)

\* Who has connected, or stopped, does not look up again.
LEMMA FreshEarlier ==
  ASSUME TypeOK, [Next]_vars, NEW c \in Conn, Fresh(c)'
  PROVE  Fresh(c)
<1> DEFINE a == c[1]
           b == c[2]
<1>0. /\ a \in Server /\ b \in Server
      /\ phase \in [Server -> {"prompt", "lookup", "connect", "loop", "down"}]
      /\ known \in [Server -> SUBSET Server]
  BY DEF Conn, TypeOK
<1> HIDE DEF a, b
<1>1. ASSUME NEW s \in Server,
             \/ Register(s) \/ Lookup(s) \/ Joined(s) \/ LookupFails(s) \/ Stop(s)
      PROVE  /\ phase'[a] \in {"prompt", "lookup"} => phase[a] \in {"prompt", "lookup"}
             /\ b \in known'[a] => b \in known[a] \/ phase[a] \in {"prompt", "lookup"}
  BY <1>0, <1>1 DEF Register, Lookup, Joined, LookupFails, Stop
<1>2. ASSUME NEW s \in Server, NEW t \in Server, Connect(s, t)
      PROVE  phase'[a] = phase[a] /\ (b \in known'[a] => b \in known[a])
  BY <1>0, <1>2 DEF Connect
<1>3. ASSUME UNCHANGED <<phase, known>>
      PROVE  phase'[a] = phase[a] /\ known'[a] = known[a]
  BY <1>3
<1>4. ASSUME NEW s \in Server, Serve(s), ~Stop(s) PROVE UNCHANGED <<phase, known>>
  BY <1>4 DEF Serve, Select, Accept, Publish, Share, Treat, RecvHeader, RecvSget,
     RecvMessage, RecvDiscard, RecvOverrun, RecvAgain, RecvEof, ids
<1>5. ASSUME NEW s \in Server, UpdateReg(s) PROVE UNCHANGED <<phase, known>>
  BY <1>5 DEF UpdateReg
<1>6. ASSUME NEW s \in Server, NEW m \in Message, ClientSends(s, m)
      PROVE  UNCHANGED <<phase, known>>
  BY <1>6 DEF ClientSends, ids
<1>7. Wipe \/ UNCHANGED vars => UNCHANGED <<phase, known>>
  BY DEF Wipe, vars, ids
<1>8. /\ phase'[a] \in {"prompt", "lookup"} => phase[a] \in {"prompt", "lookup"}
      /\ b \in known'[a] => b \in known[a] \/ phase[a] \in {"prompt", "lookup"}
  BY <1>1, <1>2, <1>3, <1>4, <1>5, <1>6, <1>7 DEF Next, Join
<1> QED BY <1>8 DEF Fresh, a, b

\* Only the server that opens c brings it into use.
LEMMA UnusedStays ==
  ASSUME TypeOK, [Next]_vars, NEW c \in Conn, ~Connect(c[1], c[2]),
         \A p \in Server : Unused(p, c)
  PROVE  \A p \in Server : Unused(p, c)'
<1> USE DEF ids, net, loop, Unused
<1>0. /\ links \in [Server -> SUBSET Conn]
      /\ backlog \in [Server -> SUBSET Conn]
      /\ inbox \in [Server -> [Conn -> Seq(Line)]]
      /\ ready \in [Server -> Descriptors]
      /\ sharing \in [Server -> SUBSET Conn]
      /\ drain \in [Server -> Conn \cup {NoConn}]
      /\ NoConn \notin Conn
  BY MeshAssumption DEF TypeOK
<1> DEFINE Goal == \A p \in Server : Unused(p, c)'
<1>1. ASSUME NEW s \in Server, NEW t \in Server, Connect(s, t) PROVE Goal
  <2>1. <<s, t>> # c
    BY <1>1
  <2>2. UNCHANGED <<ready, sharing, drain>>
    BY <1>1 DEF Connect
  <2>3. CASE Unmade(s, t)
    BY <2>2, <2>3 DEF Unmade
  <2>4. CASE Made(s, t)
    <3>1. /\ links' = [links EXCEPT ![s] = links[s] \cup {<<s, t>>}]
          /\ backlog' = [backlog EXCEPT ![t] = backlog[t] \cup {<<s, t>>}]
          /\ inbox' = Ask(s, t)
      BY <2>4 DEF Made
    <3>2. \A p \in Server : inbox'[p][c] = inbox[p][c]
      <4>1. CASE asked[s]
        BY <3>1, <4>1 DEF Ask
      <4>2. CASE ~asked[s]
        BY <1>0, <2>1, <3>1, <4>2 DEF Ask
      <4> QED BY <4>1, <4>2
    <3>3. \A p \in Server : c \notin links'[p] /\ c \notin backlog'[p]
      BY <1>0, <2>1, <3>1
    <3> QED BY <2>2, <3>2, <3>3
  <2> QED BY <1>1, <2>3, <2>4, ConnectCases
<1>2. ASSUME NEW s \in Server, Select(s) PROVE Goal
  <2>1. /\ ready' = [ready EXCEPT ![s] = Ready(s)]
        /\ UNCHANGED <<links, backlog, inbox, sharing, drain>>
    BY <1>2 DEF Select
  <2>2. c \notin Ready(s).conns
    BY DEF Ready
  <2> QED BY <1>0, <2>1, <2>2
<1>3. ASSUME NEW s \in Server, Accept(s) PROVE Goal
  <2>1. PICK d \in backlog[s] :
          /\ backlog' = [backlog EXCEPT ![s] = backlog[s] \ {d}]
          /\ links' = [links EXCEPT ![s] = links[s] \cup {d}]
    BY <1>3 DEF Accept, Waiting
  <2>2. \A p \in Server : c \notin links'[p] /\ c \notin backlog'[p]
    BY <1>0, <2>1
  <2>3. /\ ready' = [ready EXCEPT ![s] = [ready[s] EXCEPT !.listen = FALSE]]
        /\ UNCHANGED <<inbox, sharing, drain>>
    BY <1>3 DEF Accept
  <2>4. \A p \in Server : ready'[p].conns = ready[p].conns
    BY <1>0, <2>3 DEF Descriptors
  <2> QED BY <2>2, <2>3, <2>4
<1>4. ASSUME NEW s \in Server, NEW m \in Message, Publish(s, m) PROVE Goal
  <2>1. /\ ready' = [ready EXCEPT ![s] = [ready[s] EXCEPT !.udp = FALSE]]
        /\ sharing' = [sharing EXCEPT ![s] = links[s]]
        /\ UNCHANGED <<links, backlog, inbox, drain>>
    BY <1>4 DEF Publish
  <2>2. \A p \in Server : ready'[p].conns = ready[p].conns
    BY <1>0, <2>1 DEF Descriptors
  <2>3. \A p \in Server : c \notin sharing'[p]
    BY <1>0, <2>1
  <2> QED BY <2>1, <2>2, <2>3
<1>5. ASSUME NEW s \in Server, NEW d \in Conn, Share(s, d) PROVE Goal
  <2> DEFINE xs == Frame(<<board[s][Len(board[s])]>>)
  <2>1. d # c
    BY <1>5 DEF Share
  <2>2. /\ sharing' = [sharing EXCEPT ![s] = sharing[s] \ {d}]
        /\ UNCHANGED <<backlog, ready, drain>>
        /\ Write(s, d, xs)
    BY <1>5 DEF Share
  <2> HIDE DEF xs
  <2>3. \A p \in Server : c \notin sharing'[p]
    BY <1>0, <2>2
  <2>4. \A p \in Server : inbox'[p][c] = inbox[p][c]
    <3>1. inbox' = inbox \/ inbox' = Added(inbox, Peer(s, d), d, xs)
      BY <2>2 DEF Write, Added
    <3> DEFINE t == Peer(s, d)
    <3> HIDE DEF t
    <3>2. ASSUME NEW p \in Server
          PROVE  Added(inbox, t, d, xs)[p][c] = inbox[p][c]
      <4>1. CASE p # t
        BY <1>0, <4>1 DEF Added
      <4>2. CASE p = t
        <5>1. Added(inbox, t, d, xs)[p] = [inbox[p] EXCEPT ![d] = inbox[p][d] \o xs]
          BY <1>0, <4>2 DEF Added
        <5> QED BY <1>0, <2>1, <5>1
      <4> QED BY <4>1, <4>2
    <3> QED BY <3>1, <3>2 DEF t
  <2>5. \A p \in Server : c \notin links'[p]
    <3>1. UNCHANGED links \/ links' = [links EXCEPT ![s] = links[s] \ {d}]
      BY <2>2 DEF Write
    <3> QED BY <1>0, <3>1
  <2> QED BY <2>2, <2>3, <2>4, <2>5
<1>6. ASSUME NEW s \in Server, NEW d \in Conn, Treat(s, d) PROVE Goal
  <2>1. /\ d # c
        /\ ready' = [ready EXCEPT ![s] = [ready[s] EXCEPT !.conns = ready[s].conns \ {d}]]
        /\ UNCHANGED drain \/ drain' = [drain EXCEPT ![s] = d]
        /\ UNCHANGED <<links, backlog, inbox, sharing>>
    BY <1>6 DEF Treat
  <2>2. \A p \in Server : c \notin ready'[p].conns
    BY <1>0, <2>1 DEF Descriptors
  <2>3. \A p \in Server : drain'[p] # c
    BY <1>0, <2>1
  <2> QED BY <2>1, <2>2, <2>3
<1>7. ASSUME NEW s \in Server, RecvHeader(s) \/ RecvMessage(s) \/ RecvDiscard(s)
      PROVE  Goal
  <2>1. /\ inbox' = [inbox EXCEPT ![s][drain[s]] = Tail(inbox[s][drain[s]])]
        /\ UNCHANGED <<links, backlog, ready, sharing, drain>>
    BY <1>7 DEF RecvHeader, RecvMessage, RecvDiscard, DropHead
  <2>2. \A p \in Server : inbox'[p][c] = inbox[p][c]
    BY <1>0, <2>1
  <2> QED BY <2>1, <2>2
<1>8. ASSUME NEW s \in Server, RecvSget(s) PROVE Goal
  <2> DEFINE d == drain[s]
             box == DropHead(s)
             t == Peer(s, d)
  <2>1. d # c /\ UNCHANGED <<backlog, ready, sharing>>
    BY <1>8 DEF RecvSget
  <2>2. box \in [Server -> [Conn -> Seq(Line)]] /\ \A p \in Server : box[p][c] = inbox[p][c]
    <3>1. d \in Conn /\ inbox[s][d] # <<>>
      BY <1>0, <1>8 DEF RecvSget, Receives
    <3>2. box = [inbox EXCEPT ![s][d] = Tail(inbox[s][d])]
      BY DEF DropHead
    <3>3. Tail(inbox[s][d]) \in Seq(Line)
      BY <1>0, <3>1
    <3> HIDE DEF d, box
    <3> QED BY <1>0, <2>1, <3>1, <3>2, <3>3
  <2>3. \A p \in Server : inbox'[p][c] = inbox[p][c]
    <3>1. inbox' = box \/ inbox' = Added(box, t, d, Answer(s))
      BY <1>8 DEF RecvSget, Added
    <3> HIDE DEF d, box, t
    <3>2. ASSUME NEW p \in Server
          PROVE  Added(box, t, d, Answer(s))[p][c] = box[p][c]
      <4>1. CASE p # t
        BY <2>2, <4>1 DEF Added
      <4>2. CASE p = t
        <5>1. Added(box, t, d, Answer(s))[p]
                = [box[p] EXCEPT ![d] = box[p][d] \o Answer(s)]
          BY <2>2, <4>2 DEF Added
        <5> QED BY <2>1, <2>2, <5>1
      <4> QED BY <4>1, <4>2
    <3> QED BY <2>2, <3>1, <3>2
  <2>4. \A p \in Server : c \notin links'[p]
    <3>1. UNCHANGED links \/ links' = [links EXCEPT ![s] = links[s] \ {d}]
      BY <1>8 DEF RecvSget
    <3> HIDE DEF d, box, t
    <3>2. CASE UNCHANGED links
      BY <1>0, <3>2
    <3>3. CASE links' = [links EXCEPT ![s] = links[s] \ {d}]
      BY <1>0, <3>3
    <3> QED BY <3>1, <3>2, <3>3
  <2>5. \A p \in Server : drain'[p] # c
    <3>1. UNCHANGED drain \/ drain' = [drain EXCEPT ![s] = NoConn]
      BY <1>8 DEF RecvSget, EndDrain
    <3> QED BY <1>0, <3>1
  <2> QED BY <2>1, <2>3, <2>4, <2>5
<1>9. ASSUME NEW s \in Server, RecvAgain(s) \/ RecvEof(s) PROVE Goal
  <2>1. /\ UNCHANGED links \/ links' = [links EXCEPT ![s] = links[s] \ {drain[s]}]
        /\ drain' = [drain EXCEPT ![s] = NoConn]
        /\ UNCHANGED <<backlog, inbox, ready, sharing>>
    BY <1>9 DEF RecvAgain, RecvEof, EndDrain
  <2>2. \A p \in Server : c \notin links'[p]
    BY <1>0, <2>1
  <2>3. \A p \in Server : drain'[p] # c
    BY <1>0, <2>1
  <2> QED BY <2>1, <2>2, <2>3
<1>10. ASSUME NEW s \in Server, Stop(s) PROVE Goal
  <2>1. /\ links' = [links EXCEPT ![s] = {}]
        /\ backlog' = [backlog EXCEPT ![s] = {}]
        /\ sharing' = [sharing EXCEPT ![s] = {}]
        /\ ready' = [ready EXCEPT ![s] = Nothing]
        /\ drain' = [drain EXCEPT ![s] = NoConn]
    BY <1>10 DEF Stop
  <2>2. \A p \in Server : /\ c \notin links'[p] /\ c \notin backlog'[p]
                          /\ c \notin sharing'[p] /\ drain'[p] # c
    BY <1>0, <2>1
  <2>3. \A p \in Server : c \notin ready'[p].conns
    BY <1>0, <2>1 DEF Nothing
  <2>4. PICK kept \in BOOLEAN :
          inbox' = [t \in Server |-> [d \in Conn |->
                      IF t = s \/ (~kept /\ s \in {d[1], d[2]}) THEN <<>>
                      ELSE inbox[t][d]]]
    BY <1>10 DEF Stop
  <2>5. \A p \in Server : inbox'[p][c] = <<>>
    BY <2>4
  <2> QED BY <2>2, <2>3, <2>5
<1>11. ASSUME NEW s \in Server,
              \/ Register(s) \/ Lookup(s) \/ Joined(s) \/ LookupFails(s) \/ UpdateReg(s)
       PROVE  Goal
  BY <1>11 DEF Register, Lookup, Joined, LookupFails, UpdateReg
<1>12. ASSUME NEW s \in Server, NEW m \in Message, ClientSends(s, m) PROVE Goal
  BY <1>12 DEF ClientSends
<1>13. CASE Wipe \/ UNCHANGED vars
  BY <1>13 DEF Wipe, vars
<1> QED
  BY <1>1, <1>2, <1>3, <1>4, <1>5, <1>6, <1>7, <1>8, <1>9, <1>10, <1>11, <1>12, <1>13
     DEF Next, Join, Serve, RecvOverrun

LEMMA FreshStep == TypeOK /\ FreshUnused /\ [Next]_vars => FreshUnused'
<1> SUFFICES ASSUME TypeOK, FreshUnused, [Next]_vars, NEW c \in Conn, Fresh(c)'
             PROVE  \A p \in Server : Unused(p, c)'
  BY DEF FreshUnused, Fresh, Unused
<1>1. ~Connect(c[1], c[2])
  <2> SUFFICES ASSUME Connect(c[1], c[2]) PROVE FALSE
    OBVIOUS
  <2> DEFINE s == c[1]
             t == c[2]
  <2>1. s \in Server /\ t \in Server /\ known \in [Server -> SUBSET Server]
    BY DEF TypeOK, Conn
  <2>2. /\ phase[s] = "connect" /\ phase' = phase
        /\ known' = [known EXCEPT ![s] = known[s] \ {t}]
    BY DEF Connect
  <2> HIDE DEF s, t
  <2>3. phase'[s] = "connect" /\ t \notin known'[s]
    BY <2>1, <2>2
  <2> QED BY <2>3 DEF Fresh, s, t
<1>2. \A p \in Server : Unused(p, c)
  BY FreshEarlier DEF FreshUnused
<1> QED BY <1>1, <1>2, UnusedStays

-----------------------------------------------------------------------------
(* Frames stay whole. *)

LEMMA AddedAt ==
  ASSUME NEW box \in Inboxes, NEW t \in Server, NEW d \in Conn, NEW xs \in Seq(Line),
         NEW p \in Server, NEW c \in Conn
  PROVE  Added(box, t, d, xs)[p][c]
           = IF p = t /\ c = d THEN box[t][d] \o xs ELSE box[p][c]
  BY DEF Added, Inboxes

LEMMA DroppedAt ==
  ASSUME NEW box \in Inboxes, NEW t \in Server, NEW d \in Conn,
         NEW p \in Server, NEW c \in Conn
  PROVE  Dropped(box, t, d)[p][c]
           = IF p = t /\ c = d THEN Tail(box[t][d]) ELSE box[p][c]
  BY DEF Dropped, Inboxes

\* Steps that leave the lines where they are, and the reader inside or
\* outside a frame wherever there are lines.
LEMMA WholeKept ==
  ASSUME FramesWhole, UNCHANGED inbox,
         \A p \in Server, c \in Conn :
           inbox[p][c] = <<>> \/ (Reading(p, c)' <=> Reading(p, c))
  PROVE  FramesWhole'
<1> SUFFICES ASSUME NEW p \in Server, NEW c \in Conn
             PROVE  InFrames(inbox[p][c]) /\ HeadFits(inbox[p][c], Reading(p, c)')
  BY DEF FramesWhole
<1>1. InFrames(inbox[p][c]) /\ HeadFits(inbox[p][c], Reading(p, c))
  BY DEF FramesWhole
<1>2. CASE inbox[p][c] = <<>>
  BY <1>1, <1>2 DEF HeadFits
<1>3. CASE Reading(p, c)' <=> Reading(p, c)
  BY <1>1, <1>3 DEF HeadFits
<1> QED BY <1>2, <1>3

\* What the first line a server receives tells of its place in a frame.
LEMMA FirstLine ==
  ASSUME IInv, FInv, NEW s \in Server, Receives(s)
  PROVE  /\ drain[s] \in Conn
         /\ inbox[s][drain[s]] \in Seq(Line) /\ inbox[s][drain[s]] # <<>>
         /\ InFrames(inbox[s][drain[s]])
         /\ Received(s).kind \in {"SGET", "SMSG", "MSG"}
         /\ Received(s).kind = "MSG" => sms[s]
         /\ Received(s).kind = "SGET" => ~sms[s]
<1> DEFINE c == drain[s]
           q == inbox[s][c]
<1>1. c \in Conn /\ Received(s) \in Line
  BY ReceivedLine
<1>2. q \in Seq(Line) /\ q # <<>>
  BY <1>1 DEF IInv, TypeOK, Receives
<1>3. InFrames(q) /\ HeadFits(q, Reading(s, c))
  BY <1>1 DEF FInv, FramesWhole
<1>4. Reading(s, c) <=> sms[s]
  BY DEF Reading
<1>5. Received(s) = q[1]
  <2>1. Received(s) = Head(q)
    BY DEF Received
  <2> HIDE DEF q
  <2> QED BY <1>2, <2>1
<1>6. /\ Received(s).kind = "MSG" => sms[s]
      /\ Received(s).kind = "SGET" => ~sms[s]
  BY <1>2, <1>3, <1>4, <1>5 DEF HeadFits
<1> QED BY <1>1, <1>2, <1>3, <1>6 DEF Line

\* A server takes in a line of the connection it drains: the boxes of the
\* other connections stay, and what is left of this one fits, if the server
\* is inside a frame from now on, or has read the request.
LEMMA ReceiveWhole ==
  ASSUME IInv, FInv, NEW s \in Server, Receives(s), NEW r,
         Received(s).kind = "SGET" \/ r
  PROVE  /\ DropHead(s) \in Inboxes
         /\ InFrames(DropHead(s)[s][drain[s]])
         /\ HeadFits(DropHead(s)[s][drain[s]], r)
         /\ \A p \in Server, c \in Conn :
              p # s \/ c # drain[s] => DropHead(s)[p][c] = inbox[p][c]
<1> DEFINE d == drain[s]
           q == inbox[s][d]
<1>1. /\ d \in Conn /\ q \in Seq(Line) /\ q # <<>> /\ InFrames(q)
      /\ inbox \in Inboxes
  BY FirstLine DEF IInv, TypeOK, Inboxes
<1>2. DropHead(s) = Dropped(inbox, s, d) /\ Received(s) = Head(q)
  BY DEF DropHead, Dropped, Received
<1>3. DropHead(s) \in Inboxes
  BY ReceivedLine
<1>4. DropHead(s)[s][d] = Tail(q)
  BY <1>1, <1>2, DroppedAt
<1>5. \A p \in Server, c \in Conn : p # s \/ c # d => DropHead(s)[p][c] = inbox[p][c]
  BY <1>1, <1>2, DroppedAt
<1> HIDE DEF q, d
<1>6. InFrames(Tail(q)) /\ HeadFits(Tail(q), r)
  BY <1>1, <1>2, HeadRead
<1> QED BY <1>3, <1>4, <1>5, <1>6 DEF d

\* Reading in a frame, or its header.
LEMMA FrameRead ==
  ASSUME IInv, FInv, NEW s \in Server, Receives(s), inbox' = DropHead(s),
         drain' = drain, sms'[s], \A p \in Server \ {s} : sms'[p] = sms[p]
  PROVE  FramesWhole'
<1> DEFINE d == drain[s]
<1>1. /\ InFrames(inbox'[s][d]) /\ HeadFits(inbox'[s][d], TRUE)
      /\ \A p \in Server, c \in Conn : p # s \/ c # d => inbox'[p][c] = inbox[p][c]
  BY ReceiveWhole
<1> SUFFICES ASSUME NEW p \in Server, NEW c \in Conn
             PROVE  InFrames(inbox'[p][c]) /\ HeadFits(inbox'[p][c], Reading(p, c)')
  BY DEF FramesWhole
<1>2. InFrames(inbox[p][c]) /\ HeadFits(inbox[p][c], Reading(p, c))
  BY DEF FInv, FramesWhole
<1>3. CASE p = s /\ c = d
  <2>1. Reading(p, c)' <=> TRUE
    BY <1>3 DEF Reading
  <2> QED BY <1>1, <1>3, <2>1 DEF HeadFits
<1>4. CASE p = s /\ c # d
  <2>1. ~Reading(p, c)' /\ ~Reading(p, c)
    BY <1>4 DEF Reading
  <2> QED BY <1>1, <1>2, <1>4, <2>1 DEF HeadFits
<1>5. CASE p # s
  <2>1. Reading(p, c)' <=> Reading(p, c)
    BY <1>5 DEF Reading
  <2> QED BY <1>1, <1>2, <1>5, <2>1 DEF HeadFits
<1> QED BY <1>3, <1>4, <1>5

\* The request read, and its answer written behind whatever is under way.
LEMMA SgetAnswered ==
  ASSUME IInv, FInv, NEW s \in Server, RecvSget(s)
  PROVE  FramesWhole'
<1> DEFINE d == drain[s]
           box == DropHead(s)
           t == Peer(s, d)
           xs == Answer(s)
<1>1. d \in Conn /\ t \in Server /\ ~sms[s] /\ Receives(s) /\ sms' = sms
  BY FirstLine, ConnEnds DEF RecvSget, IInv
<1>2. /\ box \in Inboxes
      /\ \A r : InFrames(box[s][d]) /\ HeadFits(box[s][d], r)
      /\ \A p \in Server, c \in Conn : p # s \/ c # d => box[p][c] = inbox[p][c]
  BY <1>1, ReceiveWhole DEF RecvSget
<1>3. /\ inbox' = box \/ inbox' = Added(box, t, d, xs)
      /\ drain' = drain \/ drain' = [drain EXCEPT ![s] = NoConn]
  BY DEF RecvSget, EndDrain, Added
<1>4. \A p \in Server, c \in Conn : Reading(p, c)' <=> Reading(p, c)
  <2>1. drain \in [Server -> Conn \cup {NoConn}] /\ NoConn \notin Conn
    BY MeshAssumption DEF IInv, TypeOK
  <2> QED BY <1>1, <1>3, <2>1 DEF Reading
<1>5. \A p \in Server, c \in Conn :
        InFrames(box[p][c]) /\ HeadFits(box[p][c], Reading(p, c))
  BY <1>2 DEF FInv, FramesWhole
<1>6. board[s] \in Seq(Item) /\ xs \in Seq(Line) /\ xs = Frame(board[s])
  BY FrameLines DEF IInv, TypeOK, Answer
<1> SUFFICES ASSUME NEW p \in Server, NEW c \in Conn
             PROVE  InFrames(inbox'[p][c]) /\ HeadFits(inbox'[p][c], Reading(p, c)')
  BY DEF FramesWhole
<1> DEFINE q == box[p][c]
<1> HIDE DEF d, box, t, xs
<1>7. inbox'[p][c] = q \/ inbox'[p][c] = q \o Frame(board[s])
  <2>1. Added(box, t, d, xs)[p][c]
          = IF p = t /\ c = d THEN box[t][d] \o xs ELSE box[p][c]
    BY <1>1, <1>2, <1>6, AddedAt
  <2>2. inbox'[p][c] = box[p][c] \/ inbox'[p][c] = box[p][c] \o xs
    BY <1>3, <2>1
  <2> QED BY <1>6, <2>2
<1>8. q \in Seq(Line) /\ InFrames(q) /\ HeadFits(q, Reading(p, c))
  BY <1>2, <1>5 DEF Inboxes
<1> HIDE DEF q
<1>9. /\ InFrames(q \o Frame(board[s]))
      /\ HeadFits(q \o Frame(board[s]), Reading(p, c))
  BY <1>6, <1>8, FrameAppended
<1>10. InFrames(inbox'[p][c]) /\ HeadFits(inbox'[p][c], Reading(p, c))
  BY <1>7, <1>8, <1>9
<1> QED BY <1>4, <1>10 DEF HeadFits

\* A frame of one message written on one connection.
LEMMA FrameShared ==
  ASSUME IInv, FInv, NEW s \in Server, NEW d \in Conn, Share(s, d)
  PROVE  FramesWhole'
<1> DEFINE items == <<board[s][Len(board[s])]>>
           t == Peer(s, d)
<1>1. board[s] \in Seq(Item) /\ board[s] # <<>>
  BY DEF IInv, TypeOK, BoardsFit, Share
<1>2. items \in Seq(Item)
  BY <1>1
<1>3. /\ inbox' = inbox \/ inbox' = Added(inbox, t, d, Frame(items))
      /\ drain' = drain /\ sms' = sms
  BY DEF Share, Write, Added
<1>4. inbox \in Inboxes /\ t \in Server
  BY ConnEnds DEF IInv, TypeOK, Inboxes
<1> HIDE DEF items, t
<1> SUFFICES ASSUME NEW p \in Server, NEW c \in Conn
             PROVE  InFrames(inbox'[p][c]) /\ HeadFits(inbox'[p][c], Reading(p, c))
  BY <1>3 DEF FramesWhole, Reading
<1> DEFINE q == inbox[p][c]
<1>5. Frame(items) \in Seq(Line)
  BY <1>2, FrameLines
<1>6. inbox'[p][c] = q \/ inbox'[p][c] = q \o Frame(items)
  <2> DEFINE xs == Frame(items)
             box == inbox
  <2>1. xs \in Seq(Line) /\ box \in Inboxes
    BY <1>4, <1>5
  <2>2. box' = box \/ box' = Added(box, t, d, xs)
    BY <1>3
  <2> HIDE DEF xs
  <2>3. Added(box, t, d, xs)[p][c]
          = IF p = t /\ c = d THEN box[t][d] \o xs ELSE box[p][c]
    BY <1>4, <2>1, AddedAt
  <2>4. box'[p][c] = box[p][c] \/ box'[p][c] = box[p][c] \o xs
    BY <2>2, <2>3
  <2> QED BY <2>4 DEF xs
<1>7. q \in Seq(Line) /\ InFrames(q) /\ HeadFits(q, Reading(p, c))
  BY <1>4 DEF Inboxes, FInv, FramesWhole
<1> HIDE DEF q
<1>8. InFrames(q \o Frame(items)) /\ HeadFits(q \o Frame(items), Reading(p, c))
  BY <1>2, <1>7, FrameAppended
<1> QED BY <1>6, <1>7, <1>8

\* The request for messages is the first line of its connection.
LEMMA RequestFirst ==
  ASSUME IInv, FInv, NEW s \in Server, NEW t \in Server, Connect(s, t)
  PROVE  FramesWhole'
<1> DEFINE d == <<s, t>>
<1>1. d \in Conn /\ d[1] = s /\ d[2] = t
  BY DEF Conn
<1>2. Fresh(d)
  BY <1>1 DEF Connect, Fresh
<1>3. inbox[t][d] = <<>> /\ ~Reading(t, d)
  BY <1>1, <1>2 DEF FInv, FreshUnused, Unused, Reading
<1>4. drain' = drain /\ sms' = sms
  BY DEF Connect, loop
<1>5. \A p \in Server, c \in Conn : Reading(p, c)' <=> Reading(p, c)
  BY <1>4 DEF Reading
<1>6. CASE inbox' = inbox
  BY <1>5, <1>6, WholeKept DEF FInv
<1>7. CASE inbox' # inbox
  <2>1. inbox' = [inbox EXCEPT ![t][d] = Append(inbox[t][d], Sget)]
    BY <1>7 DEF Connect, Ask, net
  <2>2. inbox'[t][d] = <<Sget>>
    <3>1. inbox'[t][d] = Append(inbox[t][d], Sget)
      BY <1>1, <2>1 DEF IInv, TypeOK
    <3>2. Append(<<>>, Sget) = <<Sget>>
      OBVIOUS
    <3> QED BY <1>3, <3>1, <3>2
  <2>3. \A p \in Server, c \in Conn : p # t \/ c # d => inbox'[p][c] = inbox[p][c]
    BY <1>1, <2>1 DEF IInv, TypeOK
  <2>4. InFrames(<<Sget>>)
    BY DEF InFrames
  <2>5. HeadFits(<<Sget>>, Reading(t, d))
    BY <1>3 DEF HeadFits, Sget
  <2> SUFFICES ASSUME NEW p \in Server, NEW c \in Conn
               PROVE  InFrames(inbox'[p][c]) /\ HeadFits(inbox'[p][c], Reading(p, c))
    BY <1>4 DEF FramesWhole, Reading
  <2> HIDE DEF d
  <2>6. CASE p = t /\ c = d
    BY <2>2, <2>4, <2>5, <2>6
  <2>7. CASE p # t \/ c # d
    BY <2>3, <2>7 DEF FInv, FramesWhole
  <2> QED BY <2>6, <2>7
<1> QED BY <1>6, <1>7

LEMMA WholeStep == ~Segmented /\ IInv /\ FInv /\ [Next]_vars => FramesWhole'
<1> SUFFICES ASSUME ~Segmented, IInv, FInv, [Next]_vars PROVE FramesWhole'
  OBVIOUS
<1>0. /\ drain \in [Server -> Conn \cup {NoConn}] /\ NoConn \notin Conn
      /\ sms \in [Server -> BOOLEAN]
      /\ FramesWhole
  BY MeshAssumption DEF IInv, TypeOK, FInv
<1>u. ASSUME UNCHANGED <<inbox, drain, sms>> PROVE FramesWhole'
  BY <1>0, <1>u, WholeKept DEF Reading
<1>1. ASSUME NEW s \in Server, RecvHeader(s) PROVE FramesWhole'
  <2>1. sms'[s] /\ \A p \in Server \ {s} : sms'[p] = sms[p]
    BY <1>0, <1>1 DEF RecvHeader
  <2> QED BY <1>1, <2>1, FrameRead DEF RecvHeader
<1>2. ASSUME NEW s \in Server, RecvMessage(s) PROVE FramesWhole'
  <2>1. sms[s] /\ sms' = sms /\ drain' = drain
    BY <1>2 DEF RecvMessage, loop
  <2> QED BY <1>2, <2>1, FrameRead DEF RecvMessage
<1>3. ASSUME NEW s \in Server, RecvDiscard(s) PROVE FramesWhole'
  <2>1. sms' = sms /\ drain' = drain /\ sms[s] # (Received(s).kind = "MSG")
    BY <1>3 DEF RecvDiscard, loop
  <2>2. sms[s]
    <3>1. Received(s).kind = "MSG" => sms[s]
      BY <1>3, FirstLine DEF RecvDiscard
    <3>2. sms[s] \in BOOLEAN
      BY <1>0
    <3> QED BY <2>1, <3>1, <3>2
  <2> QED BY <1>3, <2>1, <2>2, FrameRead DEF RecvDiscard
<1>4. ASSUME NEW s \in Server, NEW c \in Conn, Treat(s, c) PROVE FramesWhole'
  <2>1. /\ inbox' = inbox /\ drain[s] = NoConn
        /\ \/ UNCHANGED <<drain, sms>>
           \/ drain' = [drain EXCEPT ![s] = c] /\ sms' = [sms EXCEPT ![s] = FALSE]
    BY <1>4 DEF Treat, net
  <2>2. \A p \in Server, d \in Conn : Reading(p, d)' <=> Reading(p, d)
    <3>1. CASE UNCHANGED <<drain, sms>>
      BY <3>1 DEF Reading
    <3>2. CASE drain' = [drain EXCEPT ![s] = c] /\ sms' = [sms EXCEPT ![s] = FALSE]
      <4> TAKE p \in Server, d \in Conn
      <4>1. CASE p = s
        BY <1>0, <2>1, <3>2, <4>1 DEF Reading
      <4>2. CASE p # s
        BY <1>0, <3>2, <4>2 DEF Reading
      <4> QED BY <4>1, <4>2
    <3> QED BY <2>1, <3>1, <3>2
  <2> QED BY <1>0, <2>1, <2>2, WholeKept
<1>5. ASSUME NEW s \in Server, RecvAgain(s) \/ RecvEof(s) PROVE FramesWhole'
  <2>1. /\ inbox' = inbox /\ sms' = sms
        /\ drain' = [drain EXCEPT ![s] = NoConn]
        /\ inbox[s][drain[s]] = <<>>
    BY <1>5 DEF RecvAgain, RecvEof, EndDrain, net
  <2>2. \A p \in Server, c \in Conn :
          inbox[p][c] = <<>> \/ (Reading(p, c)' <=> Reading(p, c))
    BY <1>0, <2>1 DEF Reading
  <2> QED BY <1>0, <2>1, <2>2, WholeKept
<1>6. ASSUME NEW s \in Server, Stop(s) PROVE FramesWhole'
  <2>1. PICK kept \in BOOLEAN :
          inbox' = [t \in Server |-> [c \in Conn |->
                      IF t = s \/ (~kept /\ s \in {c[1], c[2]}) THEN <<>>
                      ELSE inbox[t][c]]]
    BY <1>6 DEF Stop
  <2>2. /\ drain' = [drain EXCEPT ![s] = NoConn]
        /\ sms' = [sms EXCEPT ![s] = FALSE]
    BY <1>6 DEF Stop
  <2> SUFFICES ASSUME NEW p \in Server, NEW c \in Conn
               PROVE  InFrames(inbox'[p][c]) /\ HeadFits(inbox'[p][c], Reading(p, c)')
    BY DEF FramesWhole
  <2>3. CASE inbox'[p][c] = <<>>
    BY <2>3 DEF InFrames, HeadFits
  <2>4. CASE inbox'[p][c] # <<>>
    <3>1. inbox'[p][c] = inbox[p][c] /\ p # s
      BY <2>1, <2>4
    <3>2. Reading(p, c)' <=> Reading(p, c)
      BY <1>0, <2>2, <3>1 DEF Reading
    <3> QED BY <1>0, <3>1, <3>2 DEF FramesWhole, HeadFits
  <2> QED BY <2>3, <2>4
<1>7. ASSUME NEW s \in Server,
             \/ Register(s) \/ Lookup(s) \/ Joined(s) \/ LookupFails(s)
             \/ UpdateReg(s) \/ Select(s) \/ Accept(s)
      PROVE  FramesWhole'
  BY <1>7, <1>u DEF Register, Lookup, Joined, LookupFails, UpdateReg, Select,
     Accept, net, loop
<1>8. ASSUME NEW s \in Server, NEW m \in Message, Publish(s, m) \/ ClientSends(s, m)
      PROVE  FramesWhole'
  BY <1>8, <1>u DEF Publish, ClientSends, net, loop
<1>9. CASE Wipe \/ UNCHANGED vars
  BY <1>9, <1>u DEF Wipe, vars, net, loop
<1> QED
  BY <1>1, <1>2, <1>3, <1>4, <1>5, <1>6, <1>7, <1>8, <1>9,
     SgetAnswered, FrameShared, RequestFirst
     DEF Next, Join, Serve, RecvOverrun

-----------------------------------------------------------------------------
(* The theorem. *)

\* When TCP delivers frames whole, the loop never meets a message outside a
\* frame nor a request inside one, however many servers there are and
\* whoever stops: nothing that was written is dropped for want of a header.
THEOREM WholeFramesNotDropped ==
  ASSUME ~Segmented
  PROVE  Spec => []NoLineDropped
<1>1. Init => FInv
  BY FInit
<1>2. IInv /\ FInv /\ [Next]_vars => FInv'
  BY FreshStep, WholeStep DEF FInv, IInv
<1>3. IInv /\ FInv => NoLineDropped
  BY FirstLine DEF NoLineDropped
<1> QED BY <1>1, <1>2, <1>3, Invariant, PTL DEF Spec

-----------------------------------------------------------------------------
(* Two servers. *)

TwoServers == \E a, b : Server = {a, b}
RoomForAll == IsFiniteSet(Message) /\ Cardinality(Message) <= Capacity

\* No server is on its own list.
NotItself == \A s \in Server : s \notin known[s]

\* Between two servers that run a connection is open or was never there.
Settled ==
  \A c \in Conn :
    phase[c[1]] # "down" /\ phase[c[2]] # "down" =>
      \/ c[1] # c[2] /\ Connected(c)
      \/ \A p \in Server : Unused(p, c)

\* The first connection of a join, which asks, is the only one.
AskedLast ==
  \A s \in Server :
    asked[s] => phase[s] \notin {"prompt", "lookup"} /\ known[s] = {}

\* A server that is not in its loop has nothing under way there, and has taken
\* nothing in.
LoopOnly ==
  \A s \in Server : phase[s] # "loop" =>
    /\ ready[s] = Nothing /\ sharing[s] = {} /\ drain[s] = NoConn
    /\ phase[s] # "down" => seen[s] = {}

\* A server shares and reads at different times, and what it reads is open.
InOrder ==
  \A s \in Server :
    /\ sharing[s] # {} => ~ready[s].udp /\ drain[s] = NoConn
    /\ ready[s].udp => drain[s] = NoConn
    /\ drain[s] # NoConn => drain[s] \in links[s]

\* What a board keeps was taken in.
KeptSeen ==
  \A s \in Server : \A i \in DOMAIN board[s] : board[s][i].msg \in seen[s]

\* The facts about each server alone.
EachInv == NotItself /\ Settled /\ AskedLast /\ LoopOnly /\ InOrder /\ KeptSeen

LEMMA EachInit == Init => EachInv
  BY MeshAssumption
  DEF Init, EachInv, NotItself, Settled, AskedLast, LoopOnly, InOrder, KeptSeen,
      Unused, Nothing, Conn

\* A server that runs ran before.
LEMMA UpEarlier ==
  ASSUME TypeOK, [Next]_vars, NEW s \in Server, phase'[s] # "down"
  PROVE  phase[s] # "down"
<1>1. ASSUME NEW u \in Server, Register(u) \/ Lookup(u) \/ Joined(u) \/ LookupFails(u)
      PROVE  phase[s] # "down"
  BY <1>1 DEF TypeOK, Register, Lookup, Joined, LookupFails
<1>2. ASSUME NEW u \in Server, NEW v \in Server, Connect(u, v) PROVE phase'[s] = phase[s]
  BY <1>2 DEF Connect
<1>3. ASSUME NEW u \in Server, Serve(u), ~Stop(u) PROVE phase'[s] = phase[s]
  BY <1>3 DEF Serve, Select, Accept, Publish, Share, Treat, RecvHeader, RecvSget,
     RecvMessage, RecvDiscard, RecvOverrun, RecvAgain, RecvEof, ids
<1>4. ASSUME NEW u \in Server, UpdateReg(u) PROVE phase'[s] = phase[s]
  BY <1>4 DEF UpdateReg
<1>5. ASSUME NEW u \in Server, NEW m \in Message, ClientSends(u, m)
      PROVE  phase'[s] = phase[s]
  BY <1>5 DEF ClientSends, ids
<1>6. ASSUME NEW u \in Server, Stop(u) PROVE phase[s] # "down"
  BY <1>6 DEF TypeOK, Stop
<1>7. CASE Wipe
  BY <1>7 DEF Wipe
<1>8. CASE UNCHANGED vars
  BY <1>8 DEF vars, ids
<1> QED BY <1>1, <1>2, <1>3, <1>4, <1>5, <1>6, <1>7, <1>8 DEF Next, Join

LEMMA NotItselfStep ==
  ASSUME Reliable, TypeOK, NotItself, [Next]_vars
  PROVE  NotItself'
<1>1. CASE IdsKept
  BY <1>1 DEF IdsKept, NotItself
<1>2. ASSUME NEW s \in Server, Register(s) \/ Lookup(s) \/ Joined(s) \/ Stop(s)
      PROVE  NotItself'
  <2>1. known'[s] \in {known[s], registered \ {s}, {}}
    BY <1>2 DEF TypeOK, Register, Lookup, Joined, Stop
  <2>2. \A u \in Server \ {s} : known'[u] = known[u]
    BY <1>2 DEF TypeOK, Register, Lookup, Joined, Stop
  <2> QED BY <2>1, <2>2 DEF NotItself
<1>3. ASSUME NEW s \in Server, NEW t \in Server, Connect(s, t) PROVE NotItself'
  BY <1>3 DEF TypeOK, Connect, NotItself
<1> QED BY <1>1, <1>2, <1>3, IdSteps

LEMMA SettledStep ==
  ASSUME TypeOK, NotItself, Settled, [Next]_vars
  PROVE  Settled'
<1> SUFFICES ASSUME NEW c \in Conn, phase'[c[1]] # "down", phase'[c[2]] # "down"
             PROVE  \/ c[1] # c[2] /\ Connected(c)'
                    \/ \A p \in Server : Unused(p, c)'
  BY DEF Settled
<1>1. PICK s \in Server, t \in Server : c = <<s, t>>
  BY DEF Conn
<1>2. c[1] = s /\ c[2] = t
  BY <1>1
<1>3. phase[s] # "down" /\ phase[t] # "down"
  BY <1>2, UpEarlier
<1>4. CASE s # t /\ Connected(c)
  BY <1>1, <1>2, <1>4, ConnectedStays
<1>5. CASE \A p \in Server : Unused(p, c)
  <2>1. CASE Connect(s, t) /\ Made(s, t)
    <3>1. s # t
      BY <2>1 DEF Connect, NotItself
    <3>2. links'[s] = links[s] \cup {c} /\ backlog'[t] = backlog[t] \cup {c}
      BY <1>1, <2>1 DEF Made, TypeOK
    <3> QED BY <1>2, <3>1, <3>2 DEF Connected
  <2>2. CASE ~Connect(s, t)
    BY <1>2, <1>5, <2>2, UnusedStays
  <2>3. CASE Connect(s, t) /\ Unmade(s, t)
    BY <1>5, <2>3 DEF Connect, Unmade, Unused, net, loop
  <2> QED BY <2>1, <2>2, <2>3, ConnectCases
<1> QED BY <1>2, <1>3, <1>4, <1>5 DEF Settled

LEMMA AskedLastStep ==
  ASSUME Reliable, TwoServers, TypeOK, NotItself, AskedLast, [Next]_vars
  PROVE  AskedLast'
<1>1. ASSUME UNCHANGED <<phase, known, asked>> PROVE AskedLast'
  BY <1>1 DEF AskedLast
<1>2. ASSUME NEW s \in Server, Serve(s), ~Stop(s) PROVE AskedLast'
  BY <1>1, <1>2 DEF Serve, Select, Accept, Publish, Share, Treat, RecvHeader, RecvSget,
     RecvMessage, RecvDiscard, RecvOverrun, RecvAgain, RecvEof, ids
<1>3. ASSUME NEW s \in Server, UpdateReg(s) \/ \E m \in Message : ClientSends(s, m)
      PROVE  AskedLast'
  BY <1>1, <1>3 DEF UpdateReg, ClientSends, ids
<1>4. CASE UNCHANGED vars
  BY <1>1, <1>4 DEF vars, ids
<1>5. ASSUME NEW s \in Server, Register(s) \/ Joined(s) PROVE AskedLast'
  BY <1>5 DEF TypeOK, Register, Joined, AskedLast
<1>6. ASSUME NEW s \in Server, Lookup(s) PROVE AskedLast'
  BY <1>6 DEF TypeOK, Lookup, AskedLast
<1>7. ASSUME NEW s \in Server, Stop(s) PROVE AskedLast'
  BY <1>7 DEF TypeOK, Stop, AskedLast
<1>8. ASSUME NEW s \in Server, NEW t \in Server, Connect(s, t) PROVE AskedLast'
  <2>1. /\ phase' = phase /\ phase[s] = "connect" /\ t \in known[s]
        /\ known' = [known EXCEPT ![s] = known[s] \ {t}]
    BY <1>8 DEF Connect
  <2>2. known[s] \subseteq {t}
    BY <2>1 DEF TypeOK, NotItself, TwoServers
  <2>3. known'[s] = {} /\ \A u \in Server \ {s} : known'[u] = known[u]
    BY <2>1, <2>2 DEF TypeOK
  <2>4. \A u \in Server \ {s} : asked'[u] = asked[u]
    BY <1>8 DEF Connect, TypeOK
  <2> QED BY <2>1, <2>3, <2>4 DEF AskedLast
<1>9. ~Wipe /\ \A s \in Server : ~LookupFails(s)
  BY DEF Wipe, LookupFails
<1> QED BY <1>2, <1>3, <1>4, <1>5, <1>6, <1>7, <1>8, <1>9 DEF Next, Join

\* Only a server in its loop serves.
LEMMA ServesInLoop ==
  ASSUME TypeOK, LoopOnly, NEW s \in Server, Serve(s), ~Stop(s)
  PROVE  phase[s] = "loop" /\ UNCHANGED ids
<1>1. CASE Select(s)
  BY <1>1 DEF Select, AtSelect
<1>2. CASE Accept(s) \/ \E m \in Message : Publish(s, m)
  BY <1>2 DEF Accept, Publish, LoopOnly, Nothing
<1>3. CASE \E c \in Conn : Share(s, c) \/ Treat(s, c)
  BY <1>3 DEF Share, Treat, LoopOnly, Nothing
<1>4. CASE RecvHeader(s) \/ RecvSget(s) \/ RecvMessage(s) \/ RecvDiscard(s)
  BY <1>4 DEF RecvHeader, RecvSget, RecvMessage, RecvDiscard, Receives, LoopOnly
<1>5. CASE RecvAgain(s) \/ RecvEof(s)
  BY <1>5 DEF RecvAgain, RecvEof, LoopOnly
<1> QED BY <1>1, <1>2, <1>3, <1>4, <1>5 DEF Serve, RecvOverrun

\* A server's loop is its own.
LEMMA OwnLoop ==
  ASSUME TypeOK, NEW s \in Server, Serve(s), ~Stop(s), NEW u \in Server, u # s
  PROVE  /\ ready'[u] = ready[u] /\ sharing'[u] = sharing[u] /\ drain'[u] = drain[u]
         /\ seen'[u] = seen[u] /\ board'[u] = board[u] /\ links'[u] = links[u]
<1> USE DEF TypeOK, log
<1>1. CASE Select(s)
  BY <1>1 DEF Select, net
<1>9. CASE Accept(s)
  <2>1. PICK c \in backlog[s] : links' = [links EXCEPT ![s] = links[s] \cup {c}]
    BY <1>9 DEF Accept
  <2>2. ready' = [ready EXCEPT ![s] = [ready[s] EXCEPT !.listen = FALSE]]
    BY <1>9 DEF Accept
  <2>3. ready'[u] = ready[u] /\ links'[u] = links[u]
    BY <2>1, <2>2
  <2> QED BY <1>9, <2>3 DEF Accept
<1>2. ASSUME NEW m \in Message, Publish(s, m)
      PROVE  /\ ready'[u] = ready[u] /\ sharing'[u] = sharing[u] /\ drain'[u] = drain[u]
             /\ seen'[u] = seen[u] /\ board'[u] = board[u] /\ links'[u] = links[u]
  BY <1>2 DEF Publish, NewMessage, net
<1>3. ASSUME NEW c \in Conn, Share(s, c)
      PROVE  /\ ready'[u] = ready[u] /\ sharing'[u] = sharing[u] /\ drain'[u] = drain[u]
             /\ seen'[u] = seen[u] /\ board'[u] = board[u] /\ links'[u] = links[u]
  BY <1>3 DEF Share, Write
<1>4. ASSUME NEW c \in Conn, Treat(s, c)
      PROVE  /\ ready'[u] = ready[u] /\ sharing'[u] = sharing[u] /\ drain'[u] = drain[u]
             /\ seen'[u] = seen[u] /\ board'[u] = board[u] /\ links'[u] = links[u]
  BY <1>4 DEF Treat, net
<1>5. CASE RecvHeader(s) \/ RecvDiscard(s)
  BY <1>5 DEF RecvHeader, RecvDiscard, loop
<1>6. CASE RecvSget(s)
  BY <1>6 DEF RecvSget, EndDrain
<1>7. CASE RecvMessage(s)
  BY <1>7 DEF RecvMessage, NewMessage, loop
<1>8. CASE RecvAgain(s) \/ RecvEof(s)
  BY <1>8 DEF RecvAgain, RecvEof, EndDrain, net
<1> QED BY <1>1, <1>2, <1>3, <1>4, <1>5, <1>6, <1>7, <1>8, <1>9 DEF Serve, RecvOverrun

LEMMA LoopOnlyStep ==
  ASSUME TypeOK, LoopOnly, [Next]_vars
  PROVE  LoopOnly'
<1> USE DEF TypeOK, LoopOnly
<1>1. ASSUME UNCHANGED <<loop, log>>,
             \A u \in Server :
              phase'[u] # "loop" =>
                phase[u] \notin {"loop", "down"} \/ phase'[u] = phase[u]
      PROVE  LoopOnly'
  BY <1>1 DEF loop, log
<1>2. ASSUME NEW s \in Server, Register(s) \/ Lookup(s) \/ Joined(s) \/ LookupFails(s)
      PROVE  LoopOnly'
  BY <1>1, <1>2 DEF Register, Lookup, Joined, LookupFails
<1>3. ASSUME NEW s \in Server, NEW t \in Server, Connect(s, t) PROVE LoopOnly'
  BY <1>1, <1>3 DEF Connect
<1>4. ASSUME NEW s \in Server, Serve(s), ~Stop(s) PROVE LoopOnly'
  <2>1. phase[s] = "loop" /\ phase' = phase
    BY <1>4, ServesInLoop DEF ids
  <2>2. ASSUME NEW u \in Server, u # s
        PROVE  /\ ready'[u] = ready[u] /\ sharing'[u] = sharing[u]
               /\ drain'[u] = drain[u] /\ seen'[u] = seen[u]
    BY <1>4, <2>2, OwnLoop
  <2> QED BY <2>1, <2>2
<1>5. ASSUME NEW s \in Server, UpdateReg(s) PROVE LoopOnly'
  BY <1>1, <1>5 DEF UpdateReg
<1>6. ASSUME NEW s \in Server, NEW m \in Message, ClientSends(s, m) PROVE LoopOnly'
  BY <1>1, <1>6 DEF ClientSends, ids
<1>7. ASSUME NEW s \in Server, Stop(s) PROVE LoopOnly'
  BY <1>7 DEF Stop, log
<1>8. CASE Wipe
  BY <1>1, <1>8 DEF Wipe
<1>9. CASE UNCHANGED vars
  BY <1>1, <1>9 DEF vars, ids
<1> QED BY <1>2, <1>3, <1>4, <1>5, <1>6, <1>7, <1>8, <1>9 DEF Next, Join

LEMMA InOrderStep ==
  ASSUME TypeOK, InOrder, [Next]_vars
  PROVE  InOrder'
<1> USE DEF TypeOK, InOrder
<1>1. ASSUME UNCHANGED loop, \A u \in Server : links[u] \subseteq links'[u]
      PROVE  InOrder'
  BY <1>1 DEF loop
<1>2. ASSUME NEW s \in Server, Register(s) \/ Lookup(s) \/ Joined(s) \/ LookupFails(s)
      PROVE  InOrder'
  BY <1>1, <1>2 DEF Register, Lookup, Joined, LookupFails, net
<1>3. ASSUME NEW s \in Server, NEW t \in Server, Connect(s, t) PROVE InOrder'
  <2>1. UNCHANGED loop
    BY <1>3 DEF Connect
  <2>2. links' = links \/ links' = [links EXCEPT ![s] = links[s] \cup {<<s, t>>}]
    BY <1>3 DEF Connect, net
  <2>3. ASSUME NEW u \in Server PROVE links[u] \subseteq links'[u]
    <3>1. links \in [Server -> SUBSET Conn]
      OBVIOUS
    <3>2. links'[u] = links[u] \/ links'[u] = links[u] \cup {<<s, t>>}
      BY <2>2, <3>1
    <3> QED BY <3>2
  <2> QED BY <1>1, <2>1, <2>3
<1>4. ASSUME NEW s \in Server, Serve(s), ~Stop(s) PROVE InOrder'
  <2>1. ASSUME NEW u \in Server, u # s
        PROVE  /\ ready'[u] = ready[u] /\ sharing'[u] = sharing[u]
               /\ drain'[u] = drain[u] /\ links'[u] = links[u]
    BY <1>4, <2>1, OwnLoop
  <2>2. ASSUME /\ sharing'[s] # {} => ~ready'[s].udp /\ drain'[s] = NoConn
               /\ ready'[s].udp => drain'[s] = NoConn
               /\ drain'[s] # NoConn => drain'[s] \in links'[s]
        PROVE  InOrder'
    BY <2>1, <2>2
  <2>3. CASE Select(s)
    BY <2>2, <2>3 DEF Select, AtSelect, net
  <2>10. CASE Accept(s)
    <3>1. PICK c \in backlog[s] : links' = [links EXCEPT ![s] = links[s] \cup {c}]
      BY <2>10 DEF Accept
    <3>2. links[s] \subseteq links'[s]
      BY <3>1
    <3>3. ready' = [ready EXCEPT ![s] = [ready[s] EXCEPT !.listen = FALSE]]
      BY <2>10 DEF Accept
    <3>4. ready'[s].udp = ready[s].udp
      BY <3>3 DEF Descriptors
    <3>5. UNCHANGED <<sharing, drain>>
      BY <2>10 DEF Accept
    <3> QED BY <2>2, <3>2, <3>4, <3>5
  <2>4. ASSUME NEW m \in Message, Publish(s, m) PROVE InOrder'
    BY <2>2, <2>4 DEF Publish, net, Descriptors
  <2>5. ASSUME NEW c \in Conn, Share(s, c) PROVE InOrder'
    BY <2>2, <2>5 DEF Share
  <2>6. ASSUME NEW c \in Conn, Treat(s, c) PROVE InOrder'
    BY <2>2, <2>6 DEF Treat, net, Descriptors
  <2>7. CASE RecvHeader(s) \/ RecvDiscard(s) \/ RecvMessage(s)
    BY <2>2, <2>7 DEF RecvHeader, RecvDiscard, RecvMessage, loop
  <2>8. CASE RecvSget(s)
    BY <2>2, <2>8 DEF RecvSget, EndDrain
  <2>9. CASE RecvAgain(s) \/ RecvEof(s)
    BY <2>2, <2>9 DEF RecvAgain, RecvEof, EndDrain, net
  <2> QED BY <1>4, <2>3, <2>4, <2>5, <2>6, <2>7, <2>8, <2>9, <2>10
         DEF Serve, RecvOverrun
<1>5. ASSUME NEW s \in Server, UpdateReg(s) PROVE InOrder'
  BY <1>1, <1>5 DEF UpdateReg, net
<1>6. ASSUME NEW s \in Server, NEW m \in Message, ClientSends(s, m) PROVE InOrder'
  BY <1>1, <1>6 DEF ClientSends, net
<1>7. ASSUME NEW s \in Server, Stop(s) PROVE InOrder'
  BY <1>7 DEF Stop, Nothing
<1>8. CASE Wipe
  BY <1>1, <1>8 DEF Wipe, net
<1>9. CASE UNCHANGED vars
  BY <1>1, <1>9 DEF vars, net
<1> QED BY <1>2, <1>3, <1>4, <1>5, <1>6, <1>7, <1>8, <1>9 DEF Next, Join

LEMMA KeptSeenStep ==
  ASSUME IInv, KeptSeen, [Next]_vars
  PROVE  KeptSeen'
<1>1. ASSUME NEW s \in Server, NEW lc \in Nat, NEW m \in Message, NewMessage(s, lc, m)
      PROVE  KeptSeen'
  <2>1. /\ \A i \in DOMAIN board'[s] :
             \/ board'[s][i] = [lc |-> lc, msg |-> m]
             \/ \E j \in DOMAIN board[s] : board'[s][i] = board[s][j]
        /\ seen'[s] = seen[s] \cup {m}
        /\ \A t \in Server \ {s} : board'[t] = board[t] /\ seen'[t] = seen[t]
    BY <1>1, NewMessageStep DEF IInv
  <2> QED BY <2>1 DEF KeptSeen
<1>2. ASSUME NEW s \in Server, NEW m \in Message, Publish(s, m) PROVE KeptSeen'
  <2>1. clock[s] \in Nat /\ NewMessage(s, clock[s], m)
    BY <1>2 DEF Publish, IInv, TypeOK
  <2> QED BY <1>1, <2>1
<1>3. ASSUME NEW s \in Server, RecvMessage(s) PROVE KeptSeen'
  <2>1. /\ NewMessage(s, Raised(s, Received(s).lc), Received(s).msg)
        /\ Received(s) \in Line /\ Received(s).msg \in Message
    BY <1>3, ReceivedLine DEF RecvMessage, Copy
  <2>2. Raised(s, Received(s).lc) \in Nat
    BY <2>1 DEF Raised, Greater, Line, IInv, TypeOK
  <2> QED BY <1>1, <2>1, <2>2
<1>4. CASE UNCHANGED log
  BY <1>4 DEF log, KeptSeen
<1> QED BY <1>2, <1>3, <1>4, LogSteps DEF IInv

LEMMA EachStep ==
  ASSUME Reliable, TwoServers, IInv, EachInv, [Next]_vars
  PROVE  EachInv'
  BY NotItselfStep, SettledStep, AskedLastStep, LoopOnlyStep, InOrderStep, KeptSeenStep
  DEF EachInv, IInv


-----------------------------------------------------------------------------
(* What goes between the two. *)

\* q holds a line with m.
Says(q, m) == \E i \in DOMAIN q : q[i].kind = "MSG" /\ q[i].msg = m

\* q starts with a request.
Asking(q) == q # <<>> /\ q[1].kind = "SGET"

\* s has yet to give t its whole board: t has not asked, or s has not read it.
Promised(s, t) == Fresh(<<t, s>>) \/ Asking(inbox[s][<<t, s>>])

\* m is on its way from s to t, or s has yet to write it.
Coming(s, t, m) ==
  \E c \in Conn :
    \/ Says(inbox[t][c], m)
    \/ c \in sharing[s] /\ board[s] # <<>> /\ board[s][Len(board[s])].msg = m

\* The board holds all that s has taken in, once.
AllKept(s) ==
  /\ \A m \in seen[s] : \E i \in DOMAIN board[s] : board[s][i].msg = m
  /\ \A i, j \in DOMAIN board[s] : board[s][i].msg = board[s][j].msg => i = j

\* What t has yet to read s has taken in.
Origin(s, t) ==
  \A c \in Conn, m \in Message : Says(inbox[t][c], m) => m \in seen[s]

\* After its look-up s either has a connection to share on or owes t its board.
Found(s, t) ==
  \/ Fresh(<<s, t>>) \/ Connected(<<s, t>>)
  \/ Promised(s, t) \/ <<t, s>> \in links[s]

\* A server that owes its board and has no connection of its own has read
\* nothing, so that the board still holds everything.
Alone(s, t) ==
  Promised(s, t) /\ ~Connected(<<s, t>>) =>
    /\ AllKept(s)
    /\ inbox[s][<<t, s>>] = <<>> \/ Asking(inbox[s][<<t, s>>])

\* Nothing is forgotten.
Delivered(s, t) ==
  \A m \in seen[s] :
    \/ m \in seen[t]
    \/ Coming(s, t, m)
    \/ Promised(s, t) /\ ~Connected(<<s, t>>)

PairInv(s, t) == Origin(s, t) /\ Found(s, t) /\ Alone(s, t) /\ Delivered(s, t)

PairsInv ==
  \A s, t \in Server :
    s # t /\ phase[s] # "down" /\ phase[t] # "down" /\ Reached(s, t) => PairInv(s, t)

LEMMA TailSays ==
  ASSUME NEW q \in Seq(Line), q # <<>>, InFrames(q)
  PROVE  /\ ~Asking(Tail(q))
         /\ \A m : Says(Tail(q), m) => Says(q, m)
         /\ \A m : Says(q, m) => \/ Says(Tail(q), m)
                                 \/ q[1].kind = "MSG" /\ q[1].msg = m
<1> DEFINE r == Tail(q)
           n == Len(q)
<1>1. n \in Nat /\ n >= 1 /\ DOMAIN q = 1..n
  BY LenProperties, EmptySeq
<1>2. Len(r) = n - 1 /\ DOMAIN r = 1..(n - 1) /\ \A i \in 1..(n - 1) : r[i] = q[i + 1]
  BY HeadTailProperties, LenProperties
<1> HIDE DEF r, n
<1>3. ~Asking(r)
  <2> SUFFICES ASSUME r # <<>>, r[1].kind = "SGET" PROVE FALSE
    BY DEF Asking
  <2>1. n - 1 >= 1
    <3>1. r \in Seq(Line)
      BY HeadTailProperties DEF r
    <3>2. Len(r) \in Nat /\ Len(r) # 0
      BY <3>1, LenProperties, EmptySeq
    <3> QED BY <1>1, <1>2, <3>2
  <2>2. q[2].kind = "SGET" /\ 2 \in DOMAIN q
    <3>1. 1 \in 1..(n - 1) /\ 2 \in 1..n /\ 1 + 1 = 2
      BY <1>1, <2>1
    <3>2. r[1] = q[2]
      BY <1>2, <3>1
    <3> QED BY <1>1, <3>1, <3>2
  <2>3. \A i \in DOMAIN q : i > 1 => q[i].kind # "SGET"
    BY DEF InFrames
  <2>4. \E i \in DOMAIN q : i = 2 /\ q[i].kind = "SGET"
    BY <2>2
  <2>5. PICK i \in DOMAIN q : i = 2 /\ q[i].kind = "SGET"
    BY <2>4
  <2>6. i > 1
    BY <2>5
  <2> QED BY <2>3, <2>5, <2>6
<1>4. ASSUME NEW m, Says(r, m) PROVE Says(q, m)
  BY <1>1, <1>2, <1>4 DEF Says
<1>5. ASSUME NEW m, Says(q, m) PROVE Says(r, m) \/ (q[1].kind = "MSG" /\ q[1].msg = m)
  <2>1. PICK i \in 1..n : q[i].kind = "MSG" /\ q[i].msg = m
    BY <1>1, <1>5 DEF Says
  <2>2. CASE i = 1
    BY <2>1, <2>2
  <2>3. CASE i # 1
    <3>1. i - 1 \in 1..(n - 1) /\ (i - 1) + 1 = i
      BY <1>1, <2>3
    <3>2. r[i - 1] = q[i]
      BY <1>2, <3>1
    <3>3. i - 1 \in DOMAIN r /\ r[i - 1].kind = "MSG" /\ r[i - 1].msg = m
      BY <1>2, <2>1, <3>1, <3>2
    <3> QED BY <3>3 DEF Says
  <2> QED BY <2>2, <2>3
<1> QED BY <1>3, <1>4, <1>5 DEF r

LEMMA FrameSays ==
  ASSUME NEW q \in Seq(Line), NEW items \in Seq(Item)
  PROVE  /\ q \o Frame(items) # <<>>
         /\ Asking(q \o Frame(items)) <=> Asking(q)
         /\ \A m \in Message :
              Says(q \o Frame(items), m) <=>
                Says(q, m) \/ \E j \in DOMAIN items : items[j].msg = m
<1> DEFINE f == Frame(items)
           r == q \o f
           n == Len(q)
           k == Len(f)
<1>1. /\ f \in Seq(Line) /\ k \in Nat /\ k >= 1
      /\ f[1].kind = "SMSG"
      /\ \A i \in DOMAIN f : f[i].kind = "MSG" =>
           \E j \in DOMAIN items : f[i].msg = items[j].msg
  BY FrameLines
<1>2. \A j \in DOMAIN items :
        \E i \in DOMAIN f : f[i].kind = "MSG" /\ f[i].msg = items[j].msg
  <2> SUFFICES ASSUME NEW j \in DOMAIN items
               PROVE  \E i \in DOMAIN f : f[i].kind = "MSG" /\ f[i].msg = items[j].msg
    OBVIOUS
  <2> DEFINE g == [i \in 1..Len(items) |-> Said(items[i])]
  <2>1. Len(items) \in Nat /\ DOMAIN items = 1..Len(items)
    BY LenProperties
  <2>2. Header \in Line /\ \A i \in 1..Len(items) : Said(items[i]) \in Line
    <3>1. \A i \in 1..Len(items) : items[i] \in Item
      BY <2>1, ElementOfSeq
    <3>2. Header \in Line
      BY DEF Header, Line
    <3>3. ASSUME NEW i \in 1..Len(items) PROVE Said(items[i]) \in Line
      <4>1. items[i] \in Item
        BY <3>1
      <4> QED BY <4>1 DEF Said, Line, Item
    <3> QED BY <3>2, <3>3
  <2>3. g \in Seq(Line) /\ Len(g) = Len(items) /\ <<Header>> \in Seq(Line)
    BY <2>1, <2>2, FunctionIsSeq
  <2>4. f = <<Header>> \o g
    BY DEF Frame
  <2> HIDE DEF g
  <2>5. Len(<<Header>>) = 1
    OBVIOUS
  <2>6. Len(f) = 1 + Len(items) /\ f[1 + j] = g[j]
    <3> DEFINE h == <<Header>>
    <3>1. h \in Seq(Line) /\ Len(h) = 1 /\ f = h \o g
      BY <2>3, <2>4, <2>5
    <3> HIDE DEF h
    <3>2. /\ Len(h \o g) = Len(h) + Len(g)
          /\ \A i \in 1..(Len(h) + Len(g)) :
               (h \o g)[i] = IF i <= Len(h) THEN h[i] ELSE g[i - Len(h)]
      <4>1. h \in Seq(Line) /\ g \in Seq(Line)
        BY <2>3, <3>1
      <4> HIDE DEF f
      <4> QED BY ONLY <4>1, ConcatProperties
    <3>3. 1 + j \in 1..(Len(h) + Len(g)) /\ ~(1 + j <= Len(h)) /\ (1 + j) - Len(h) = j
      BY <2>1, <2>3, <3>1
    <3>4. (h \o g)[1 + j] = g[j]
      BY <3>2, <3>3
    <3> QED BY <2>3, <3>1, <3>2, <3>4
  <2>7. g[j] = Said(items[j])
    BY <2>1 DEF g
  <2>8. 1 + j \in DOMAIN f
    <3>1. DOMAIN f = 1..Len(f)
      BY <1>1, LenProperties
    <3> QED BY <2>1, <2>6, <3>1
  <2>9. Said(items[j]).kind = "MSG" /\ Said(items[j]).msg = items[j].msg
    BY DEF Said
  <2> QED BY <2>6, <2>7, <2>8, <2>9
<1> HIDE DEF f
<1>3. /\ r \in Seq(Line) /\ Len(r) = n + k /\ n \in Nat
      /\ \A i \in 1..(n + k) : r[i] = IF i <= n THEN q[i] ELSE f[i - n]
      /\ DOMAIN r = 1..(n + k) /\ DOMAIN q = 1..n /\ DOMAIN f = 1..k
  BY <1>1, ConcatProperties, LenProperties
<1>4. q = <<>> <=> n = 0
  BY EmptySeq
<1>5. r # <<>>
  BY <1>1, <1>3, EmptySeq
<1>6. r[1] = IF n = 0 THEN f[1] ELSE q[1]
  <2>1. CASE n = 0
    <3>1. 1 \in 1..(n + k) /\ ~(1 <= n) /\ 1 - n = 1
      BY <1>1, <1>3, <2>1
    <3> QED BY <1>3, <2>1, <3>1
  <2>2. CASE n # 0
    <3>1. 1 \in 1..(n + k) /\ 1 <= n
      BY <1>1, <1>3, <2>2
    <3> QED BY <1>3, <2>2, <3>1
  <2> QED BY <2>1, <2>2
<1> HIDE DEF r, n, k
<1>7. Asking(r) <=> Asking(q)
  BY <1>1, <1>4, <1>5, <1>6 DEF Asking
<1>8. ASSUME NEW m \in Message, Says(r, m)
      PROVE  Says(q, m) \/ \E j \in DOMAIN items : items[j].msg = m
  <2>1. PICK i \in 1..(n + k) : r[i].kind = "MSG" /\ r[i].msg = m
    BY <1>3, <1>8 DEF Says
  <2>2. CASE i <= n
    BY <1>1, <1>3, <2>1, <2>2 DEF Says
  <2>3. CASE ~(i <= n)
    <3>1. i - n \in DOMAIN f /\ r[i] = f[i - n]
      BY <1>1, <1>3, <2>1, <2>3
    <3> QED BY <1>1, <2>1, <3>1
  <2> QED BY <2>2, <2>3
<1>9. ASSUME NEW m \in Message, Says(q, m) PROVE Says(r, m)
  <2>1. PICK i \in 1..n : q[i].kind = "MSG" /\ q[i].msg = m
    BY <1>3, <1>9 DEF Says
  <2>2. i \in 1..(n + k) /\ i <= n
    BY <1>1, <1>3
  <2> QED BY <1>3, <2>1, <2>2 DEF Says
<1>10. ASSUME NEW m \in Message, NEW j \in DOMAIN items, items[j].msg = m PROVE Says(r, m)
  <2>1. PICK i \in 1..k : f[i].kind = "MSG" /\ f[i].msg = m
    BY <1>2, <1>3, <1>10
  <2>2. n + i \in 1..(n + k) /\ ~(n + i <= n) /\ (n + i) - n = i
    BY <1>1, <1>3
  <2>3. r[n + i] = f[i]
    BY <1>3, <2>2
  <2> QED BY <1>3, <2>1, <2>2, <2>3 DEF Says
<1> QED BY <1>5, <1>7, <1>8, <1>9, <1>10 DEF r, f


\* What one of two running servers uses is open, and goes to the other.
LEMMA UsedIsOpen ==
  ASSUME TwoServers, EachInv, NEW u \in Server, NEW v \in Server, u # v,
         phase[u] # "down", phase[v] # "down",
         NEW p \in Server, NEW c \in Conn, ~Unused(p, c)
  PROVE  /\ Connected(c) /\ PeerOpen(p, c)
         /\ c \in {<<u, v>>, <<v, u>>}
         /\ Peer(u, c) = v /\ Peer(v, c) = u
<1>1. Server = {u, v}
  BY DEF TwoServers
<1>2. PICK a \in Server, b \in Server : c = <<a, b>>
  BY DEF Conn
<1>3. c[1] = a /\ c[2] = b
  BY <1>2
<1>4. a # b /\ Connected(c)
  BY <1>1, <1>3 DEF EachInv, Settled
<1>5. c \in {<<u, v>>, <<v, u>>}
  BY <1>1, <1>2, <1>4
<1>6. Peer(u, c) = v /\ Peer(v, c) = u
  BY <1>1, <1>3, <1>4 DEF Peer
<1>7. PeerOpen(p, c)
  BY <1>1, <1>3, <1>4, <1>6 DEF Peer, PeerOpen, Connected
<1> QED BY <1>4, <1>5, <1>6, <1>7

\* Connections come only from Connect and stay.
LEMMA LinksKept ==
  ASSUME TwoServers, TypeOK, EachInv, [Next]_vars,
         NEW u \in Server, NEW v \in Server, u # v,
         phase'[u] # "down", phase'[v] # "down"
  PROVE  /\ ~Connect(u, v) => (Connected(<<u, v>>)' <=> Connected(<<u, v>>))
         /\ <<v, u>> \in links[u] => <<v, u>> \in links'[u]
<1>1. phase[u] # "down" /\ phase[v] # "down"
  BY UpEarlier
<1>2. Connected(<<u, v>>) => Connected(<<u, v>>)'
  BY ConnectedStays
<1>3. ASSUME ~Connect(u, v), ~Connected(<<u, v>>) PROVE ~Connected(<<u, v>>)'
  <2>1. <<u, v>> \in Conn /\ <<u, v>>[1] = u /\ <<u, v>>[2] = v
    BY DEF Conn
  <2>2. \A p \in Server : Unused(p, <<u, v>>)
    BY <1>1, <1>3, <2>1 DEF EachInv, Settled
  <2>3. \A p \in Server : Unused(p, <<u, v>>)'
    BY <1>3, <2>1, <2>2, UnusedStays
  <2> QED BY <2>1, <2>3 DEF Unused, Connected
<1>4. ASSUME <<v, u>> \in links[u] PROVE <<v, u>> \in links'[u]
  <2>1. <<v, u>> \in Conn /\ ~Unused(u, <<v, u>>)
    BY <1>4 DEF Conn, Unused
  <2>2. PeerOpen(u, <<v, u>>)
    BY <1>1, <2>1, UsedIsOpen
  <2> QED BY <1>4, <2>1, <2>2, ClosedOnlyByPeer
<1> QED BY <1>2, <1>3, <1>4

\* What a step must keep for the pair.
LEMMA PairKept ==
  ASSUME TwoServers, TypeOK, EachInv, [Next]_vars,
         NEW s \in Server, NEW t \in Server, s # t,
         phase'[s] # "down", phase'[t] # "down", PairInv(s, t),
         ~Connect(s, t),
         Fresh(<<s, t>>) => Fresh(<<s, t>>)',
         Promised(s, t)' <=> Promised(s, t),
         board'[s] = board[s], seen'[s] = seen[s], seen[t] \subseteq seen'[t],
         \A c \in Conn, m \in Message :
           Says(inbox'[t][c], m) => Says(inbox[t][c], m) \/ m \in seen[s],
         \A m \in Message : Coming(s, t, m) => Coming(s, t, m)' \/ m \in seen'[t],
         Promised(s, t) /\ ~Connected(<<s, t>>) =>
           inbox'[s][<<t, s>>] = <<>> \/ Asking(inbox'[s][<<t, s>>])
  PROVE  PairInv(s, t)'
<1>1. /\ Connected(<<s, t>>)' <=> Connected(<<s, t>>)
      /\ <<t, s>> \in links[s] => <<t, s>> \in links'[s]
  BY LinksKept
<1>2. Origin(s, t)'
  BY DEF PairInv, Origin
<1>3. Found(s, t)'
  BY <1>1 DEF PairInv, Found
<1>4. Alone(s, t)'
  <2>1. AllKept(s) => AllKept(s)'
    BY DEF AllKept
  <2> QED BY <1>1, <2>1 DEF PairInv, Alone
<1>5. Delivered(s, t)'
  <2>1. seen[s] \subseteq Message
    BY DEF TypeOK
  <2> QED BY <1>1, <2>1 DEF PairInv, Delivered
<1> QED BY <1>2, <1>3, <1>4, <1>5 DEF PairInv

\* A step that is not a Connect, and changes neither lists nor lines nor boards.
LEMMA QuietPair ==
  ASSUME TwoServers, TypeOK, EachInv, [Next]_vars,
         NEW s \in Server, NEW t \in Server, s # t,
         phase'[s] # "down", phase'[t] # "down", PairInv(s, t),
         ~Connect(s, t),
         Fresh(<<s, t>>)' <=> Fresh(<<s, t>>),
         Fresh(<<t, s>>)' <=> Fresh(<<t, s>>),
         UNCHANGED <<inbox, sharing, board, seen>>
  PROVE  PairInv(s, t)'
<1>1. Promised(s, t)' <=> Promised(s, t)
  BY DEF Promised
<1>2. \A m \in Message : Coming(s, t, m) => Coming(s, t, m)'
  BY DEF Coming
<1>3. Promised(s, t) /\ ~Connected(<<s, t>>) =>
        inbox'[s][<<t, s>>] = <<>> \/ Asking(inbox'[s][<<t, s>>])
  BY DEF PairInv, Alone
<1> QED BY <1>1, <1>2, <1>3, PairKept

\* Who connects shortens its list.
LEMMA ConnectLists ==
  ASSUME TypeOK, NEW s \in Server, NEW t \in Server, Connect(s, t)
  PROVE  /\ t \in known[s] /\ known'[s] = known[s] \ {t} /\ phase[s] = "connect"
         /\ \A u \in Server \ {s} : known'[u] = known[u]
         /\ phase' = phase
  BY DEF TypeOK, Connect


-----------------------------------------------------------------------------
(* The steps of a pair. *)

Ground == IInv /\ JInv /\ FInv /\ EachInv

\* s and t are two servers that still run after the step, with every connection
\* between them made that was tried, and the rest holds.
Running(s, t) ==
  /\ Ground
  /\ [Next]_vars
  /\ s # t /\ phase'[s] # "down" /\ phase'[t] # "down" /\ Reached(s, t)'
  /\ PairInv(s, t) /\ PairInv(t, s)

LEMMA RunningFacts ==
  ASSUME TwoServers, NEW s \in Server, NEW t \in Server, Running(s, t)
  PROVE  /\ TypeOK /\ EachInv /\ [Next]_vars /\ IInv /\ FInv /\ JInv
         /\ phase[s] # "down" /\ phase[t] # "down" /\ s # t
         /\ phase'[s] # "down" /\ phase'[t] # "down"
         /\ Server = {s, t}
         /\ PairInv(s, t) /\ PairInv(t, s)
<1>1. TypeOK /\ [Next]_vars
  BY DEF Running, Ground, IInv
<1> QED BY <1>1, UpEarlier DEF Running, Ground, TwoServers

\* Steps outside joins, messages and lines.
LEMMA OtherPair ==
  ASSUME TwoServers, NEW s \in Server, NEW t \in Server, Running(s, t),
         UNCHANGED <<phase, known, inbox, sharing, board, seen>>
  PROVE  PairInv(s, t)'
<1>1. ~Connect(s, t)
  BY RunningFacts, ConnectLists
<1> QED BY <1>1, RunningFacts, QuietPair DEF Fresh

LEMMA RegisterPair ==
  ASSUME TwoServers, NEW u \in Server, NEW v \in Server, Running(u, v),
         Register(u) \/ Joined(u)
  PROVE  PairInv(u, v)' /\ PairInv(v, u)'
<1>1. TypeOK /\ JInv
  BY RunningFacts
<1>2. UNCHANGED <<known, inbox, sharing, board, seen>>
  BY DEF Register, Joined, net, loop, log
<1>3. ~Connect(u, v) /\ ~Connect(v, u)
  BY <1>1, <1>2, ConnectLists
<1>4. Fresh(<<u, v>>)' <=> Fresh(<<u, v>>)
  BY <1>1 DEF TypeOK, Register, Joined, Fresh
<1>5. Fresh(<<v, u>>)' <=> Fresh(<<v, u>>)
  BY <1>1, RunningFacts DEF TypeOK, Register, Joined, Fresh
<1> QED BY <1>2, <1>3, <1>4, <1>5, RunningFacts, QuietPair

\* s has looked up, and t had not registered: t is at its prompt, and nobody
\* has taken in anything.
LEMMA LookupPair ==
  ASSUME TwoServers, NEW u \in Server, NEW v \in Server, Running(u, v), Lookup(u)
  PROVE  PairInv(u, v)' /\ PairInv(v, u)'
<1>1. TypeOK /\ JInv /\ EachInv /\ phase[v] # "down" /\ u # v
  BY RunningFacts
<1>2. UNCHANGED <<inbox, sharing, board, seen>> /\ known'[u] = registered \ {u}
  BY <1>1 DEF Lookup, net, loop, log, TypeOK
<1>3. phase[u] = "lookup" /\ phase'[u] = "connect"
      /\ phase'[v] = phase[v] /\ known'[v] = known[v]
  BY <1>1 DEF Lookup, TypeOK
<1>4. ~Connect(u, v) /\ ~Connect(v, u)
  BY <1>1, <1>3, ConnectLists
<1>5. Fresh(<<v, u>>)' <=> Fresh(<<v, u>>)
  BY <1>3 DEF Fresh
<1>6. Fresh(<<u, v>>)
  BY <1>3 DEF Fresh
<1>7. CASE v \in registered
  <2>1. Fresh(<<u, v>>)'
    BY <1>1, <1>2, <1>7 DEF Fresh
  <2> QED BY <1>2, <1>4, <1>5, <1>6, <2>1, RunningFacts, QuietPair
<1>8. CASE v \notin registered
  <2>1. phase[v] = "prompt"
    BY <1>1, <1>8 DEF TypeOK, JInv, RegisteredFirst, LookedUp
  <2>2. seen[u] = {} /\ seen[v] = {}
    BY <1>1, <1>3, <2>1 DEF EachInv, LoopOnly
  <2>3. Fresh(<<v, u>>)'
    BY <1>3, <2>1 DEF Fresh
  <2>4. (Connected(<<u, v>>)' <=> Connected(<<u, v>>))
        /\ (Connected(<<v, u>>)' <=> Connected(<<v, u>>))
    BY <1>4, RunningFacts, LinksKept
  <2>5. PairInv(u, v) /\ PairInv(v, u)
    BY RunningFacts
  <2>6. PairInv(u, v)'
    <3>1. Promised(u, v) /\ Promised(u, v)'
      BY <1>5, <2>3 DEF Promised
    <3>2. AllKept(u) => AllKept(u)'
      BY <1>2 DEF AllKept
    <3>3. Origin(u, v)'
      BY <1>2, <2>5 DEF PairInv, Origin
    <3>4. Found(u, v)'
      BY <3>1 DEF Found
    <3>5. Alone(u, v)'
      BY <1>2, <2>4, <2>5, <3>1, <3>2 DEF PairInv, Alone
    <3>6. Delivered(u, v)'
      BY <1>2, <2>2 DEF Delivered
    <3> QED BY <3>3, <3>4, <3>5, <3>6 DEF PairInv
  <2>7. PairInv(v, u)'
    <3>1. Promised(v, u)
      BY <1>6 DEF Promised
    <3>2. AllKept(v) => AllKept(v)'
      BY <1>2 DEF AllKept
    <3>3. Origin(v, u)'
      BY <1>2, <2>5 DEF PairInv, Origin
    <3>4. Found(v, u)'
      BY <2>3 DEF Found
    <3>5. Alone(v, u)'
      BY <1>2, <2>4, <2>5, <3>1, <3>2 DEF PairInv, Alone
    <3>6. Delivered(v, u)'
      BY <1>2, <2>2 DEF Delivered
    <3> QED BY <3>3, <3>4, <3>5, <3>6 DEF PairInv
  <2> QED BY <2>6, <2>7
<1> QED BY <1>7, <1>8

\* u connects and asks: v owes it the board from now on because of the request.
LEMMA ConnectPair ==
  ASSUME TwoServers, NEW u \in Server, NEW v \in Server, Running(u, v), Connect(u, v)
  PROVE  PairInv(u, v)' /\ PairInv(v, u)'
<1> DEFINE c == <<u, v>>
<1>1. TypeOK /\ FInv /\ EachInv /\ phase[u] # "down" /\ phase[v] # "down" /\ u # v
  BY RunningFacts
<1>2. c \in Conn /\ <<v, u>> \in Conn /\ c # <<v, u>> /\ c[1] = u /\ c[2] = v
  BY <1>1 DEF Conn
<1>3. /\ v \in known[u] /\ known'[u] = known[u] \ {v} /\ phase[u] = "connect"
      /\ known'[v] = known[v] /\ phase' = phase
  BY <1>1, ConnectLists
<1>4. ~asked[u]
  BY <1>1, <1>3 DEF EachInv, AskedLast
<1>5. Fresh(c) /\ ~Fresh(c)' /\ (Fresh(<<v, u>>)' <=> Fresh(<<v, u>>))
  BY <1>3 DEF Fresh
<1>6. inbox[v][c] = <<>> /\ ~Connected(c)
  BY <1>1, <1>2, <1>5 DEF FInv, FreshUnused, Unused, Connected
<1>7. /\ links' = [links EXCEPT ![u] = links[u] \cup {c}]
      /\ backlog' = [backlog EXCEPT ![v] = backlog[v] \cup {c}]
      /\ inbox' = [inbox EXCEPT ![v][c] = Append(inbox[v][c], Sget)]
      /\ UNCHANGED <<sharing, board, seen>>
  <2>1. ~Unmade(u, v)
    BY DEF Running, Unmade, Reached, Between
  <2>2. Made(u, v)
    BY <2>1, ConnectCases
  <2> QED BY <1>4, <2>2 DEF Connect, Made, Ask, loop, log
<1>8. Connected(c)'
  BY <1>1, <1>2, <1>7 DEF Connected, TypeOK
<1>9. /\ inbox'[v][c] = <<Sget>>
      /\ inbox'[u] = inbox[u]
      /\ \A d \in Conn : d # c => inbox'[v][d] = inbox[v][d]
  <2>1. inbox \in Inboxes
    BY <1>1 DEF TypeOK, Inboxes
  <2>2. inbox'[v][c] = Append(inbox[v][c], Sget) /\ inbox'[u] = inbox[u]
        /\ \A d \in Conn : d # c => inbox'[v][d] = inbox[v][d]
    BY <1>1, <1>2, <1>7, <2>1 DEF Inboxes
  <2>3. Append(<<>>, Sget) = <<Sget>>
    OBVIOUS
  <2> QED BY <1>6, <2>2, <2>3
<1>10. Asking(<<Sget>>) /\ \A m : ~Says(<<Sget>>, m)
  <2>1. Len(<<Sget>>) = 1 /\ <<Sget>>[1] = Sget /\ DOMAIN <<Sget>> = {1} /\ <<Sget>> # <<>>
    OBVIOUS
  <2>2. Sget.kind = "SGET" /\ Sget.kind # "MSG"
    BY DEF Sget
  <2> QED BY <2>1, <2>2 DEF Asking, Says
<1>11. PairInv(u, v) /\ PairInv(v, u)
  BY RunningFacts
<1> HIDE DEF c
<1>12. \A d \in Conn, m \in Message : Says(inbox'[v][d], m) => Says(inbox[v][d], m)
  BY <1>9, <1>10
<1>13. PairInv(u, v)'
  <2>1. Origin(u, v)'
    BY <1>7, <1>11, <1>12 DEF PairInv, Origin
  <2>2. Found(u, v)'
    BY <1>8 DEF Found, c
  <2>3. Alone(u, v)'
    BY <1>8 DEF Alone, c
  <2>4. seen[u] = {}
    BY <1>1, <1>3 DEF EachInv, LoopOnly
  <2>5. Delivered(u, v)'
    BY <1>7, <2>4 DEF Delivered
  <2> QED BY <2>1, <2>2, <2>3, <2>5 DEF PairInv
<1>14. PairInv(v, u)'
  <2>1. Asking(inbox'[v][<<u, v>>])
    BY <1>9, <1>10 DEF c
  <2>2. Promised(v, u) /\ Promised(v, u)'
    BY <1>5, <2>1 DEF Promised, c
  <2>3. ~Connect(v, u)
    BY <1>1, <1>3, ConnectLists
  <2>4. \A m \in Message : Coming(v, u, m) => Coming(v, u, m)'
    BY <1>7, <1>9 DEF Coming
  <2>5. Fresh(<<v, u>>) => Fresh(<<v, u>>)'
    BY <1>5
  <2>6. /\ board'[v] = board[v] /\ seen'[v] = seen[v] /\ seen[u] \subseteq seen'[u]
        /\ \A d \in Conn, m \in Message : Says(inbox'[u][d], m) => Says(inbox[u][d], m)
    BY <1>7, <1>9
  <2>7. inbox'[v][<<u, v>>] = <<>> \/ Asking(inbox'[v][<<u, v>>])
    BY <2>1
  <2> QED BY <1>11, <2>2, <2>3, <2>4, <2>5, <2>6, <2>7, RunningFacts, PairKept
<1> QED BY <1>13, <1>14


\* One of the two writes its last message to the other.
LEMMA SharePair ==
  ASSUME TwoServers, NEW u \in Server, NEW v \in Server, Running(u, v),
         NEW c \in Conn, Share(u, c)
  PROVE  PairInv(u, v)' /\ PairInv(v, u)'
<1> DEFINE n == Len(board[u])
           xs == <<board[u][n]>>
<1>1. /\ TypeOK /\ FInv /\ EachInv /\ BoardsFit
      /\ phase[u] # "down" /\ phase[v] # "down" /\ u # v
  BY RunningFacts DEF IInv
<1>2. c \in sharing[u] /\ ~Unused(u, c)
  BY DEF Share, Unused
<1>3. PeerOpen(u, c) /\ Peer(u, c) = v /\ Connected(c) /\ c \in {<<u, v>>, <<v, u>>}
  BY <1>1, <1>2, UsedIsOpen
<1>4. /\ inbox' = [inbox EXCEPT ![v][c] = inbox[v][c] \o Frame(xs)]
      /\ sharing' = [sharing EXCEPT ![u] = sharing[u] \ {c}]
      /\ UNCHANGED <<phase, known, board, seen>>
  BY <1>3 DEF Share, Write, ids, log
<1>5. board[u] \in Seq(Item) /\ board[u] # <<>> /\ inbox[v][c] \in Seq(Line)
  BY <1>1, <1>2 DEF TypeOK, BoardsFit
<1>6. n \in DOMAIN board[u] /\ board[u][n] \in Item
  <2>1. Len(board[u]) \in Nat /\ Len(board[u]) # 0 /\ DOMAIN board[u] = 1..Len(board[u])
    BY <1>5, LenProperties, EmptySeq
  <2> QED BY <1>5, <2>1, ElementOfSeq
<1>7. xs \in Seq(Item) /\ DOMAIN xs = {1} /\ xs[1] = board[u][n]
  BY <1>6
<1>8. board[u][n].msg \in seen[u] /\ board[u][n].msg \in Message
  BY <1>1, <1>6 DEF EachInv, KeptSeen, Item
<1> DEFINE q == inbox[v][c] \o Frame(xs)
<1>9. /\ inbox'[v][c] = q /\ inbox'[u] = inbox[u]
      /\ \A d \in Conn : d # c => inbox'[v][d] = inbox[v][d]
  <2>1. inbox \in Inboxes
    BY <1>1 DEF TypeOK, Inboxes
  <2> QED BY <1>1, <1>4, <2>1 DEF Inboxes
<1>10. /\ q # <<>>
       /\ Asking(q) <=> Asking(inbox[v][c])
       /\ \A m \in Message : Says(q, m) <=> Says(inbox[v][c], m) \/ m = board[u][n].msg
  <2>1. /\ q # <<>>
        /\ Asking(q) <=> Asking(inbox[v][c])
        /\ \A m \in Message :
             Says(q, m) <=> Says(inbox[v][c], m) \/ \E j \in DOMAIN xs : xs[j].msg = m
    BY <1>5, <1>7, FrameSays
  <2> HIDE DEF q, n
  <2> QED BY <1>7, <2>1
<1> HIDE DEF q, n, xs
<1>11. PairInv(u, v) /\ PairInv(v, u) /\ ~Connect(u, v) /\ ~Connect(v, u)
  BY <1>1, <1>4, RunningFacts, ConnectLists
<1>12. (Fresh(<<u, v>>)' <=> Fresh(<<u, v>>)) /\ (Fresh(<<v, u>>)' <=> Fresh(<<v, u>>))
  BY <1>4 DEF Fresh
<1>13. PairInv(u, v)'
  <2>1. Promised(u, v)' <=> Promised(u, v)
    BY <1>9, <1>12 DEF Promised
  <2>2. \A d \in Conn, m \in Message :
          Says(inbox'[v][d], m) => Says(inbox[v][d], m) \/ m \in seen[u]
    BY <1>8, <1>9, <1>10
  <2>3. ASSUME NEW m \in Message, Coming(u, v, m) PROVE Coming(u, v, m)'
    <3>1. PICK d \in Conn : \/ Says(inbox[v][d], m)
                            \/ d \in sharing[u] /\ board[u] # <<>> /\ board[u][n].msg = m
      BY <2>3 DEF Coming, n
    <3>2. CASE Says(inbox[v][d], m)
      <4>1. Says(inbox'[v][d], m)
        BY <1>9, <1>10, <3>2
      <4> QED BY <4>1 DEF Coming
    <3>3. CASE d \in sharing[u] /\ board[u][n].msg = m
      <4>1. Says(inbox'[v][c], m)
        BY <1>9, <1>10, <3>3
      <4> QED BY <4>1 DEF Coming
    <3> QED BY <3>1, <3>2, <3>3
  <2>4. Promised(u, v) /\ ~Connected(<<u, v>>) =>
          inbox'[u][<<v, u>>] = <<>> \/ Asking(inbox'[u][<<v, u>>])
    BY <1>9, <1>11 DEF PairInv, Alone
  <2> QED BY <1>4, <1>11, <1>12, <2>1, <2>2, <2>3, <2>4, RunningFacts, PairKept
<1>14. PairInv(v, u)'
  <2>1. <<u, v>> \in Conn
    BY DEF Conn
  <2>2. Asking(inbox'[v][<<u, v>>]) <=> Asking(inbox[v][<<u, v>>])
    BY <1>9, <1>10, <2>1
  <2>3. Promised(v, u)' <=> Promised(v, u)
    BY <1>12, <2>2 DEF Promised
  <2>4. \A m \in Message : Coming(v, u, m) => Coming(v, u, m)'
    <3>1. sharing'[v] = sharing[v]
      BY <1>1, <1>4 DEF TypeOK
    <3> QED BY <1>4, <1>9, <3>1 DEF Coming
  <2>5. Promised(v, u) /\ ~Connected(<<v, u>>) =>
          inbox'[v][<<u, v>>] = <<>> \/ Asking(inbox'[v][<<u, v>>])
    <3> SUFFICES ASSUME Promised(v, u), ~Connected(<<v, u>>), ~Asking(inbox[v][<<u, v>>])
                 PROVE  inbox'[v][<<u, v>>] = <<>>
      BY <2>2
    <3>1. inbox[v][<<u, v>>] = <<>> /\ Fresh(<<u, v>>)
      BY <1>11 DEF PairInv, Alone, Promised
    <3>2. Unused(u, <<u, v>>)
      BY <1>1, <2>1, <3>1 DEF FInv, FreshUnused
    <3>3. c # <<u, v>>
      BY <1>2, <3>2
    <3> QED BY <1>9, <2>1, <3>1, <3>3
  <2> QED BY <1>4, <1>9, <1>11, <1>12, <2>3, <2>4, <2>5, RunningFacts, PairKept
<1> QED BY <1>13, <1>14

\* One of the two has a line of the other to read.
LEMMA ReadsPeer ==
  ASSUME TwoServers, NEW u \in Server, NEW v \in Server, Running(u, v), Receives(u)
  PROVE  LET d == drain[u]
             q == inbox[u][d]
         IN
         /\ d \in Conn /\ d \in {<<u, v>>, <<v, u>>}
         /\ Connected(d) /\ PeerOpen(u, d) /\ Peer(u, d) = v
         /\ q \in Seq(Line) /\ q # <<>> /\ Received(u) = q[1]
         /\ InFrames(q)
         /\ q[1].kind \in {"SGET", "SMSG", "MSG"}
         /\ q[1].kind = "MSG" => sms[u]
         /\ q[1].kind = "SGET" => ~sms[u]
         /\ DropHead(u)[u][d] = Tail(q)
         /\ DropHead(u)[v] = inbox[v]
         /\ \A c \in Conn : c # d => DropHead(u)[u][c] = inbox[u][c]
         /\ sharing[u] = {} /\ d \in links[u]
<1> DEFINE d == drain[u]
           q == inbox[u][d]
<1>1. /\ IInv /\ FInv /\ TypeOK /\ EachInv
      /\ phase[u] # "down" /\ phase[v] # "down" /\ u # v
  BY RunningFacts
<1>2. /\ d \in Conn /\ q \in Seq(Line) /\ q # <<>> /\ InFrames(q)
      /\ Received(u).kind \in {"SGET", "SMSG", "MSG"}
      /\ Received(u).kind = "MSG" => sms[u]
      /\ Received(u).kind = "SGET" => ~sms[u]
  BY <1>1, FirstLine
<1>3. Received(u) = Head(q) /\ Head(q) = q[1]
  BY <1>2 DEF Received
<1>4. ~Unused(u, d) /\ sharing[u] = {} /\ d \in links[u]
  BY <1>1 DEF Unused, Receives, EachInv, InOrder
<1>5. Connected(d) /\ PeerOpen(u, d) /\ Peer(u, d) = v /\ d \in {<<u, v>>, <<v, u>>}
  BY <1>1, <1>2, <1>4, UsedIsOpen
<1>6. /\ DropHead(u)[u][d] = Tail(q)
      /\ DropHead(u)[v] = inbox[v]
      /\ \A c \in Conn : c # d => DropHead(u)[u][c] = inbox[u][c]
  <2>1. inbox \in Inboxes
    BY <1>1 DEF TypeOK, Inboxes
  <2> QED BY <1>1, <1>2, <2>1 DEF DropHead, Inboxes
<1> QED BY <1>2, <1>3, <1>4, <1>5, <1>6


\* One of the two reads the header of a frame.
LEMMA HeaderPair ==
  ASSUME TwoServers, NEW u \in Server, NEW v \in Server, Running(u, v),
         RecvHeader(u) \/ RecvDiscard(u)
  PROVE  PairInv(u, v)' /\ PairInv(v, u)'
<1> DEFINE d == drain[u]
           q == inbox[u][d]
<1>1. Receives(u)
  BY DEF RecvHeader, RecvDiscard
<1>2. /\ d \in Conn /\ d \in {<<u, v>>, <<v, u>>} /\ Connected(d)
      /\ q \in Seq(Line) /\ q # <<>> /\ Received(u) = q[1] /\ InFrames(q)
      /\ q[1].kind \in {"SGET", "SMSG", "MSG"}
      /\ q[1].kind = "MSG" => sms[u]
      /\ q[1].kind = "SGET" => ~sms[u]
      /\ DropHead(u)[u][d] = Tail(q)
      /\ DropHead(u)[v] = inbox[v]
      /\ \A c \in Conn : c # d => DropHead(u)[u][c] = inbox[u][c]
  BY <1>1, ReadsPeer
<1>3. inbox' = DropHead(u) /\ UNCHANGED <<phase, known, sharing, board, seen>>
  BY DEF RecvHeader, RecvDiscard, ids, log, loop
<1>4. q[1].kind = "SMSG"
  <2>1. CASE RecvHeader(u)
    BY <1>2, <2>1 DEF RecvHeader
  <2>2. CASE RecvDiscard(u)
    <3>1. sms[u] # (q[1].kind = "MSG") /\ sms[u] \in BOOLEAN
      BY <1>2, <2>2, RunningFacts DEF RecvDiscard, TypeOK
    <3>2. q[1].kind # "MSG" /\ q[1].kind # "SGET"
      BY <1>2, <3>1, Zenon
    <3> QED BY <1>2, <3>2
  <2> QED BY <2>1, <2>2
<1>5. q[1].kind # "MSG" /\ ~Asking(q)
  BY <1>4 DEF Asking
<1>6. ~Asking(Tail(q)) /\ \A m : Says(Tail(q), m) <=> Says(q, m)
  BY <1>2, <1>5, TailSays
<1>7. PairInv(u, v) /\ PairInv(v, u) /\ ~Connect(u, v) /\ ~Connect(v, u)
  BY <1>3, RunningFacts, ConnectLists
<1>8. (Fresh(<<u, v>>)' <=> Fresh(<<u, v>>)) /\ (Fresh(<<v, u>>)' <=> Fresh(<<v, u>>))
  BY <1>3 DEF Fresh
<1>9. <<u, v>> \in Conn /\ <<v, u>> \in Conn
  BY DEF Conn
<1> HIDE DEF q
<1>10. PairInv(u, v)'
  <2>1. Asking(inbox'[u][<<v, u>>]) <=> Asking(inbox[u][<<v, u>>])
    BY <1>2, <1>3, <1>5, <1>6, <1>9 DEF q
  <2>2. Promised(u, v)' <=> Promised(u, v)
    BY <1>8, <2>1 DEF Promised
  <2>3. Promised(u, v) /\ ~Connected(<<u, v>>) =>
          inbox'[u][<<v, u>>] = <<>> \/ Asking(inbox'[u][<<v, u>>])
    <3> SUFFICES ASSUME Promised(u, v), ~Connected(<<u, v>>) PROVE
          inbox'[u][<<v, u>>] = <<>> \/ Asking(inbox'[u][<<v, u>>])
      OBVIOUS
    <3>1. inbox[u][<<v, u>>] = <<>> \/ Asking(inbox[u][<<v, u>>])
      BY <1>7 DEF PairInv, Alone
    <3>2. d = <<v, u>>
      BY <1>2
    <3> QED BY <1>2, <1>5, <3>1, <3>2 DEF q
  <2>4. \A m \in Message : Coming(u, v, m) => Coming(u, v, m)'
    BY <1>2, <1>3 DEF Coming
  <2>5. \A c \in Conn, m \in Message : Says(inbox'[v][c], m) => Says(inbox[v][c], m)
    BY <1>2, <1>3
  <2> QED BY <1>3, <1>7, <1>8, <2>2, <2>3, <2>4, <2>5, RunningFacts, PairKept
<1>11. PairInv(v, u)'
  <2>1. inbox'[v] = inbox[v]
    BY <1>2, <1>3
  <2>2. Promised(v, u)' <=> Promised(v, u)
    BY <1>8, <2>1 DEF Promised
  <2>3. Promised(v, u) /\ ~Connected(<<v, u>>) =>
          inbox'[v][<<u, v>>] = <<>> \/ Asking(inbox'[v][<<u, v>>])
    BY <1>7, <2>1 DEF PairInv, Alone
  <2>4. \A c \in Conn, m \in Message : Says(inbox'[u][c], m) <=> Says(inbox[u][c], m)
    BY <1>2, <1>3, <1>6 DEF q
  <2>5. \A m \in Message : Coming(v, u, m) => Coming(v, u, m)'
    BY <1>3, <2>4 DEF Coming
  <2> QED BY <1>3, <1>7, <1>8, <2>2, <2>3, <2>4, <2>5, RunningFacts, PairKept
<1> QED BY <1>10, <1>11

\* One of the two takes in a message of the other.
LEMMA MessagePair ==
  ASSUME TwoServers, NEW u \in Server, NEW v \in Server, Running(u, v), RecvMessage(u)
  PROVE  PairInv(u, v)' /\ PairInv(v, u)'
<1> DEFINE d == drain[u]
           q == inbox[u][d]
           x == q[1].msg
<1>1. Receives(u) /\ Received(u).kind = "MSG"
  BY DEF RecvMessage
<1>2. /\ d \in Conn /\ d \in {<<u, v>>, <<v, u>>} /\ Connected(d)
      /\ q \in Seq(Line) /\ q # <<>> /\ Received(u) = q[1] /\ InFrames(q)
      /\ DropHead(u)[u][d] = Tail(q)
      /\ DropHead(u)[v] = inbox[v]
      /\ \A c \in Conn : c # d => DropHead(u)[u][c] = inbox[u][c]
      /\ sharing[u] = {}
  BY <1>1, ReadsPeer
<1>3. inbox' = DropHead(u) /\ UNCHANGED <<phase, known, sharing>>
  BY DEF RecvMessage, ids, loop
<1>4. TypeOK /\ u # v /\ x \in Message
  BY <1>1, <1>2, RunningFacts, ReceivedLine DEF Copy
<1>5. /\ seen'[u] = seen[u] \cup {x} /\ seen'[v] = seen[v]
      /\ board'[v] = board[v]
  BY <1>2, <1>4 DEF RecvMessage, NewMessage, TypeOK
<1>6. ~Asking(q)
  BY <1>1, <1>2 DEF Asking
<1>7. /\ ~Asking(Tail(q))
      /\ \A m : Says(Tail(q), m) => Says(q, m)
      /\ \A m : Says(q, m) => Says(Tail(q), m) \/ m = x
  BY <1>2, TailSays
<1>8. Says(q, x)
  <2>1. 1 \in DOMAIN q
    BY <1>2, LenProperties, EmptySeq
  <2> QED BY <1>1, <1>2, <2>1 DEF Says
<1>9. PairInv(u, v) /\ PairInv(v, u) /\ ~Connect(u, v) /\ ~Connect(v, u)
  BY <1>3, RunningFacts, ConnectLists
<1>10. (Fresh(<<u, v>>)' <=> Fresh(<<u, v>>)) /\ (Fresh(<<v, u>>)' <=> Fresh(<<v, u>>))
  BY <1>3 DEF Fresh
<1>11. <<u, v>> \in Conn /\ <<v, u>> \in Conn
  BY DEF Conn
<1>12. x \in seen[v]
  BY <1>2, <1>4, <1>8, <1>9 DEF PairInv, Origin
<1> HIDE DEF q, x
<1>13. PairInv(u, v)'
  <2>1. inbox'[v] = inbox[v]
    BY <1>2, <1>3
  <2>2. /\ Connected(<<u, v>>)' <=> Connected(<<u, v>>)
        /\ <<v, u>> \in links[u] => <<v, u>> \in links'[u]
    BY <1>9, RunningFacts, LinksKept
  <2>3. Asking(inbox'[u][<<v, u>>]) <=> Asking(inbox[u][<<v, u>>])
    BY <1>2, <1>3, <1>6, <1>7, <1>11 DEF q
  <2>4. Promised(u, v)' <=> Promised(u, v)
    BY <1>10, <2>3 DEF Promised
  <2>5. ~(Promised(u, v) /\ ~Connected(<<u, v>>))
    <3> SUFFICES ASSUME Promised(u, v), ~Connected(<<u, v>>) PROVE FALSE
      OBVIOUS
    <3>1. inbox[u][<<v, u>>] = <<>> \/ Asking(inbox[u][<<v, u>>])
      BY <1>9 DEF PairInv, Alone
    <3>2. d = <<v, u>>
      BY <1>2
    <3> QED BY <1>2, <1>6, <3>1, <3>2 DEF q
  <2>6. Origin(u, v)'
    BY <1>5, <1>9, <2>1 DEF PairInv, Origin
  <2>7. Found(u, v)'
    BY <1>9, <1>10, <2>2, <2>4 DEF PairInv, Found
  <2>8. Alone(u, v)'
    BY <2>2, <2>4, <2>5 DEF Alone
  <2>9. Delivered(u, v)'
    <3> SUFFICES ASSUME NEW m \in seen'[u] PROVE m \in seen'[v] \/ Coming(u, v, m)'
      BY DEF Delivered
    <3>1. CASE m = x
      BY <1>5, <1>12, <3>1
    <3>2. CASE m \in seen[u]
      <4>1. m \in seen[v] \/ Coming(u, v, m)
        BY <1>9, <2>5, <3>2 DEF PairInv, Delivered
      <4>2. Coming(u, v, m) => Coming(u, v, m)'
        BY <1>2, <2>1 DEF Coming
      <4> QED BY <1>5, <4>1, <4>2
    <3> QED BY <1>5, <3>1, <3>2
  <2> QED BY <2>6, <2>7, <2>8, <2>9 DEF PairInv
<1>14. PairInv(v, u)'
  <2>1. inbox'[v] = inbox[v]
    BY <1>2, <1>3
  <2>2. Promised(v, u)' <=> Promised(v, u)
    BY <1>10, <2>1 DEF Promised
  <2>3. Promised(v, u) /\ ~Connected(<<v, u>>) =>
          inbox'[v][<<u, v>>] = <<>> \/ Asking(inbox'[v][<<u, v>>])
    BY <1>9, <2>1 DEF PairInv, Alone
  <2>4. \A c \in Conn, m \in Message :
          /\ Says(inbox'[u][c], m) => Says(inbox[u][c], m)
          /\ Says(inbox[u][c], m) => Says(inbox'[u][c], m) \/ m = x
    BY <1>2, <1>3, <1>7 DEF q
  <2>5. \A m \in Message : Coming(v, u, m) => Coming(v, u, m)' \/ m = x
    BY <1>3, <1>5, <2>4 DEF Coming
  <2>6. \A m \in Message : Coming(v, u, m) => Coming(v, u, m)' \/ m \in seen'[u]
    BY <1>5, <2>5
  <2>7. seen[u] \subseteq seen'[u]
    BY <1>5
  <2> QED BY <1>5, <1>9, <1>10, <2>2, <2>3, <2>4, <2>6, <2>7, RunningFacts, PairKept
<1> QED BY <1>13, <1>14


\* One of the two answers a request of the other with its whole board.
LEMMA SgetPair ==
  ASSUME TwoServers, NEW u \in Server, NEW v \in Server, Running(u, v), RecvSget(u)
  PROVE  PairInv(u, v)' /\ PairInv(v, u)'
<1> DEFINE d == drain[u]
           q == inbox[u][d]
           r == inbox[v][d] \o Frame(board[u])
<1>1. Receives(u) /\ Received(u).kind = "SGET"
  BY DEF RecvSget
<1>2. /\ d \in Conn /\ d \in {<<u, v>>, <<v, u>>} /\ Connected(d)
      /\ PeerOpen(u, d) /\ Peer(u, d) = v
      /\ q \in Seq(Line) /\ q # <<>> /\ Received(u) = q[1] /\ InFrames(q)
      /\ DropHead(u)[u][d] = Tail(q)
      /\ DropHead(u)[v] = inbox[v]
      /\ \A c \in Conn : c # d => DropHead(u)[u][c] = inbox[u][c]
      /\ sharing[u] = {} /\ d \in links[u]
  BY <1>1, ReadsPeer
<1>3. TypeOK /\ FInv /\ EachInv /\ u # v /\ IInv
  BY RunningFacts
<1>4. /\ inbox' = [DropHead(u) EXCEPT ![v][d] = DropHead(u)[v][d] \o Answer(u)]
      /\ UNCHANGED <<phase, known, links, sharing, board, seen>>
  BY <1>2 DEF RecvSget, ids, log
<1>5. /\ inbox'[v][d] = r /\ inbox'[u][d] = Tail(q)
      /\ \A c \in Conn : c # d => /\ inbox'[v][c] = inbox[v][c]
                                  /\ inbox'[u][c] = inbox[u][c]
  <2>1. DropHead(u) \in Inboxes
    BY <1>1, <1>3, ReceivedLine
  <2> HIDE DEF q
  <2> QED BY <1>2, <1>3, <1>4, <2>1 DEF Inboxes, Answer
<1>6. /\ r # <<>>
      /\ Asking(r) <=> Asking(inbox[v][d])
      /\ \A m \in Message :
           Says(r, m) <=> Says(inbox[v][d], m) \/ \E j \in DOMAIN board[u] : board[u][j].msg = m
  <2>1. inbox[v][d] \in Seq(Line) /\ board[u] \in Seq(Item)
    BY <1>2, <1>3 DEF TypeOK
  <2> QED BY <2>1, FrameSays
<1>7. q[1].kind # "MSG" /\ Asking(q)
  BY <1>1, <1>2 DEF Asking
<1>8. ~Asking(Tail(q)) /\ \A m : Says(Tail(q), m) <=> Says(q, m)
  BY <1>2, <1>7, TailSays
<1>9. PairInv(u, v) /\ PairInv(v, u) /\ ~Connect(u, v) /\ ~Connect(v, u)
  BY <1>4, RunningFacts, ConnectLists
<1>10. (Fresh(<<u, v>>)' <=> Fresh(<<u, v>>)) /\ (Fresh(<<v, u>>)' <=> Fresh(<<v, u>>))
  BY <1>4 DEF Fresh
<1>11. <<u, v>> \in Conn /\ <<v, u>> \in Conn /\ <<u, v>> # <<v, u>>
  BY <1>3 DEF Conn
<1>12. ~Fresh(d)
  BY <1>2, <1>3 DEF FInv, FreshUnused, Unused
<1> HIDE DEF q, r
<1>13. \A c \in Conn, m \in Message :
         Says(inbox'[v][c], m) => Says(inbox[v][c], m) \/ m \in seen[u]
  <2>1. \A j \in DOMAIN board[u] : board[u][j].msg \in seen[u]
    BY <1>3 DEF EachInv, KeptSeen
  <2> QED BY <1>5, <1>6, <2>1
<1>14. \A m \in Message : Coming(u, v, m) => Coming(u, v, m)'
  <2>1. \A c \in Conn, m \in Message : Says(inbox[v][c], m) => Says(inbox'[v][c], m)
    BY <1>5, <1>6
  <2> QED BY <1>2, <2>1 DEF Coming
<1>15. PairInv(u, v)'
  <2>1. CASE d = <<u, v>>
    <3>1. inbox'[u][<<v, u>>] = inbox[u][<<v, u>>]
      BY <1>5, <1>11, <2>1
    <3>2. Promised(u, v)' <=> Promised(u, v)
      BY <1>10, <3>1 DEF Promised
    <3>3. Promised(u, v) /\ ~Connected(<<u, v>>) =>
            inbox'[u][<<v, u>>] = <<>> \/ Asking(inbox'[u][<<v, u>>])
      BY <1>9, <3>1 DEF PairInv, Alone
    <3> QED BY <1>4, <1>9, <1>10, <1>13, <1>14, <3>2, <3>3, RunningFacts, PairKept
  <2>2. CASE d = <<v, u>>
    <3>1. ~Promised(u, v)'
      BY <1>5, <1>8, <1>10, <1>12, <2>2 DEF Promised
    <3>2. Origin(u, v)'
      BY <1>4, <1>9, <1>13 DEF PairInv, Origin
    <3>3. Found(u, v)'
      BY <1>2, <1>4, <2>2 DEF Found
    <3>4. Alone(u, v)'
      BY <3>1 DEF Alone
    <3>5. Delivered(u, v)'
      <4> SUFFICES ASSUME NEW m \in seen[u] PROVE m \in seen[v] \/ Coming(u, v, m)'
        BY <1>4 DEF Delivered
      <4>1. m \in Message
        BY <1>3 DEF TypeOK
      <4>2. CASE AllKept(u)
        <5>1. Says(inbox'[v][d], m)
          BY <1>5, <1>6, <4>1, <4>2 DEF AllKept
        <5> QED BY <1>2, <5>1 DEF Coming
      <4>3. CASE ~AllKept(u)
        <5>1. m \in seen[v] \/ Coming(u, v, m)
          BY <1>9, <4>3 DEF PairInv, Delivered, Alone
        <5> QED BY <1>14, <4>1, <5>1
      <4> QED BY <4>2, <4>3
    <3> QED BY <3>2, <3>3, <3>4, <3>5 DEF PairInv
  <2> QED BY <1>2, <2>1, <2>2
<1>16. PairInv(v, u)'
  <2>1. Asking(inbox'[v][<<u, v>>]) <=> Asking(inbox[v][<<u, v>>])
    BY <1>5, <1>6, <1>11
  <2>2. Promised(v, u)' <=> Promised(v, u)
    BY <1>10, <2>1 DEF Promised
  <2>3. \A c \in Conn, m \in Message : Says(inbox'[u][c], m) <=> Says(inbox[u][c], m)
    BY <1>5, <1>8 DEF q
  <2>4. \A m \in Message : Coming(v, u, m) => Coming(v, u, m)'
    BY <1>4, <2>3 DEF Coming
  <2>5. Promised(v, u) /\ ~Connected(<<v, u>>) =>
          inbox'[v][<<u, v>>] = <<>> \/ Asking(inbox'[v][<<u, v>>])
    <3> SUFFICES ASSUME Promised(v, u), ~Connected(<<v, u>>), ~Asking(inbox[v][<<u, v>>])
                 PROVE  inbox'[v][<<u, v>>] = <<>>
      BY <2>1
    <3>1. inbox[v][<<u, v>>] = <<>> /\ Fresh(<<u, v>>)
      BY <1>9 DEF PairInv, Alone, Promised
    <3>2. d # <<u, v>>
      BY <1>12, <3>1
    <3> QED BY <1>5, <1>11, <3>1, <3>2
  <2> QED BY <1>4, <1>9, <1>10, <2>2, <2>3, <2>4, <2>5, RunningFacts, PairKept
<1> QED BY <1>15, <1>16

\* A board on which every message stands once has room for one more.
LEMMA RoomForOne ==
  ASSUME RoomForAll, NEW b \in Seq(Item), NEW m \in Message,
         \A i, j \in DOMAIN b : b[i].msg = b[j].msg => i = j,
         \A i \in DOMAIN b : b[i].msg # m
  PROVE  Len(b) + 1 <= Capacity
<1> DEFINE n == Len(b)
           f == [i \in 1..(n + 1) |-> IF i = n + 1 THEN m ELSE b[i].msg]
<1>1. n \in Nat /\ DOMAIN b = 1..n
  BY LenProperties
<1>2. \A i \in 1..n : b[i] \in Item
  BY <1>1, ElementOfSeq
<1>3. \A i \in 1..(n + 1) : i = n + 1 \/ i \in 1..n
  BY <1>1
<1>4. f \in [1..(n + 1) -> Message]
  <2>1. \A i \in 1..n : b[i].msg \in Message
    BY <1>2 DEF Item
  <2> QED BY <1>3, <2>1
<1>5. ASSUME NEW i \in 1..(n + 1), NEW j \in 1..(n + 1), f[i] = f[j] PROVE i = j
  <2>1. CASE i = n + 1 /\ j = n + 1
    BY <2>1
  <2>2. CASE i = n + 1 /\ j # n + 1
    BY <1>1, <1>3, <1>5, <2>2
  <2>3. CASE i # n + 1 /\ j = n + 1
    BY <1>1, <1>3, <1>5, <2>3
  <2>4. CASE i # n + 1 /\ j # n + 1
    BY <1>1, <1>3, <1>5, <2>4
  <2> QED BY <2>1, <2>2, <2>3, <2>4
<1>6. f \in Injection(1..(n + 1), Message)
  BY <1>4, <1>5 DEF Injection, IsInjective
<1>7. Cardinality(1..(n + 1)) <= Cardinality(Message)
  BY <1>6, FS_Injection DEF RoomForAll
<1>8. Cardinality(1..(n + 1)) = n + 1
  <2>1. Cardinality(1..(n + 1)) = IF 1 > n + 1 THEN 0 ELSE (n + 1) - 1 + 1
    BY <1>1, FS_Interval
  <2> QED BY <1>1, <2>1
<1>9. Cardinality(Message) \in Nat /\ Capacity \in Nat
  BY FS_CardinalityType, CapacityAssumption DEF RoomForAll
<1> QED BY <1>1, <1>7, <1>8, <1>9 DEF RoomForAll

\* A board on which everything stands takes a new message and loses none.
LEMMA StillAllKept ==
  ASSUME RoomForAll, IInv, EachInv, NEW u \in Server, NEW m \in Message, m \notin seen[u],
         AllKept(u), NEW lc \in Nat, NewMessage(u, lc, m)
  PROVE  AllKept(u)'
<1> DEFINE b == board[u]
           x == [lc |-> lc, msg |-> m]
           n == Len(b)
           w == Push(b, x, Capacity)
<1>1. b \in Seq(Item) /\ x \in Item /\ Len(b) <= Capacity /\ Capacity \in Nat \ {0}
  BY CapacityAssumption DEF IInv, TypeOK, BoardsFit, Item
<1>2. n \in Nat /\ DOMAIN b = 1..n
  BY <1>1, LenProperties
<1>3. \A i \in DOMAIN b : b[i].msg # m
  BY DEF EachInv, KeptSeen
<1>4. n + 1 <= Capacity
  BY <1>1, <1>3, RoomForOne DEF AllKept
<1>5. n + 1 = Lesser(Len(b) + 1, Capacity) /\ n + 1 \in Nat
  BY <1>1, <1>2, <1>4 DEF Lesser
<1>6. /\ w \in Seq(Item) /\ Len(w) = n + 1
      /\ w[n + 1] = x
      /\ \A i \in 1..n : w[i] = b[i]
  <2> DEFINE k == n + 1
  <2>1. k \in Nat /\ k = Lesser(Len(b) + 1, Capacity)
    BY <1>5
  <2> HIDE DEF k
  <2>2. /\ w \in Seq(Item) /\ Len(w) = k /\ w[k] = x
        /\ \A i \in 1..(k - 1) : w[i] = b[Len(b) + 1 - k + i]
    BY <1>1, <2>1, PushProperties
  <2>3. k - 1 = n /\ \A i \in 1..n : Len(b) + 1 - k + i = i
    BY <1>2 DEF k
  <2> QED BY <2>2, <2>3 DEF k
<1>7. DOMAIN w = 1..(n + 1)
  BY <1>6, LenProperties
<1>8. board'[u] = w /\ seen'[u] = seen[u] \cup {m}
  BY DEF NewMessage, IInv, TypeOK
<1>9. x.msg = m
  OBVIOUS
<1> HIDE DEF w, x, n, b
<1>10. \A i \in 1..(n + 1) : i = n + 1 \/ i \in 1..n
  BY <1>2
<1>11. ASSUME NEW y \in seen'[u] PROVE \E i \in DOMAIN w : w[i].msg = y
  <2>1. CASE y = m
    <3>1. n + 1 \in DOMAIN w
      BY <1>2, <1>7
    <3> QED BY <1>6, <1>9, <2>1, <3>1
  <2>2. CASE y \in seen[u]
    <3>1. PICK i \in 1..n : b[i].msg = y
      BY <1>2, <2>2 DEF AllKept, b
    <3>2. i \in DOMAIN w
      BY <1>2, <1>7
    <3> QED BY <1>6, <3>1, <3>2
  <2> QED BY <1>8, <1>11, <2>1, <2>2
<1>12. ASSUME NEW i \in DOMAIN w, NEW j \in DOMAIN w, w[i].msg = w[j].msg PROVE i = j
  <2>1. \A k \in 1..n : w[k] = b[k] /\ b[k].msg # m
    BY <1>2, <1>3, <1>6 DEF b
  <2>2. CASE i = n + 1 /\ j = n + 1
    BY <2>2
  <2>3. CASE i = n + 1 /\ j \in 1..n
    BY <1>6, <1>9, <1>12, <2>1, <2>3
  <2>4. CASE i \in 1..n /\ j = n + 1
    BY <1>6, <1>9, <1>12, <2>1, <2>4
  <2>5. CASE i \in 1..n /\ j \in 1..n
    <3>1. \A k, l \in 1..n : b[k].msg = b[l].msg => k = l
      BY <1>2 DEF AllKept, b
    <3> QED BY <1>12, <2>1, <2>5, <3>1
  <2> QED BY <1>7, <1>10, <2>2, <2>3, <2>4, <2>5
<1> QED BY <1>8, <1>11, <1>12 DEF AllKept


\* One of the two publishes: the message is shared on a connection to the other,
\* or comes with the board that the other is still to be given.
LEMMA PublishPair ==
  ASSUME TwoServers, RoomForAll, NEW u \in Server, NEW v \in Server, Running(u, v),
         NEW m \in Message, Publish(u, m)
  PROVE  PairInv(u, v)' /\ PairInv(v, u)'
<1>1. TypeOK /\ IInv /\ JInv /\ EachInv /\ u # v
  BY RunningFacts
<1>2. /\ UNCHANGED <<phase, known, links, inbox>>
      /\ NewMessage(u, clock[u], m)
      /\ sharing' = [sharing EXCEPT ![u] = links[u]]
      /\ ready[u].udp
  BY DEF Publish, ids, net
<1>3. sharing'[u] = links[u] /\ sharing'[v] = sharing[v] /\ sharing[u] = {}
  BY <1>1, <1>2 DEF TypeOK, EachInv, InOrder
<1>4. clock[u] \in Nat /\ m \notin seen[u]
  <2>1. stamp[m] = Unpublished
    BY <1>1, PublishStamps
  <2> QED BY <1>1, <2>1 DEF IInv, ClocksPastSeen, TypeOK
<1>5. /\ seen'[u] = seen[u] \cup {m} /\ seen'[v] = seen[v] /\ board'[v] = board[v]
      /\ board'[u] # <<>>
  BY <1>1, <1>2, <1>4, NewMessageStep DEF IInv
<1>6. board'[u][Len(board'[u])].msg = m
  <2> DEFINE x == [lc |-> clock[u], msg |-> m]
             k == Lesser(Len(board[u]) + 1, Capacity)
  <2>1. /\ board[u] \in Seq(Item) /\ x \in Item
        /\ Capacity \in Nat \ {0} /\ Len(board[u]) <= Capacity
    BY <1>1, <1>4, CapacityAssumption DEF IInv, TypeOK, BoardsFit, Item
  <2>2. k \in Nat
    BY <2>1, LenProperties DEF Lesser
  <2>3. board'[u] = Push(board[u], x, Capacity)
    BY <1>1, <1>2 DEF NewMessage, TypeOK
  <2>4. x.msg = m
    OBVIOUS
  <2> HIDE DEF x, k
  <2>5. k = Lesser(Len(board[u]) + 1, Capacity)
    BY DEF k
  <2>6. Len(board'[u]) = k /\ board'[u][k] = x
    BY <2>1, <2>2, <2>3, <2>5, PushProperties
  <2> QED BY <2>4, <2>6
<1>7. PairInv(u, v) /\ PairInv(v, u) /\ ~Connect(u, v) /\ ~Connect(v, u)
  BY <1>2, RunningFacts, ConnectLists
<1>8. (Fresh(<<u, v>>)' <=> Fresh(<<u, v>>)) /\ (Fresh(<<v, u>>)' <=> Fresh(<<v, u>>))
  BY <1>2 DEF Fresh
<1>9. <<u, v>> \in Conn /\ <<v, u>> \in Conn
  BY DEF Conn
<1>10. (Promised(u, v)' <=> Promised(u, v)) /\ (Promised(v, u)' <=> Promised(v, u))
  BY <1>2, <1>8 DEF Promised
<1>11. PairInv(u, v)'
  <2>1. (Connected(<<u, v>>)' <=> Connected(<<u, v>>))
    BY <1>7, RunningFacts, LinksKept
  <2>2. Origin(u, v)'
    BY <1>2, <1>5, <1>7 DEF PairInv, Origin
  <2>3. Found(u, v)'
    BY <1>2, <1>7, <1>8, <1>10, <2>1 DEF PairInv, Found
  <2>4. Alone(u, v)'
    <3>1. AllKept(u) => AllKept(u)'
      BY <1>1, <1>2, <1>4, StillAllKept
    <3> QED BY <1>2, <1>7, <1>10, <2>1, <3>1 DEF PairInv, Alone
  <2>5. ~Fresh(<<u, v>>)
    <3>1. phase[u] = "loop"
      BY <1>1, <1>2 DEF EachInv, LoopOnly, Nothing
    <3> QED BY <1>1, <3>1 DEF Fresh, JInv, KnownWhileConnecting
  <2>6. \A c \in Conn : c \in links[u] => Coming(u, v, m)'
    BY <1>3, <1>5, <1>6 DEF Coming
  <2>7. Coming(u, v, m)' \/ (Promised(u, v) /\ ~Connected(<<u, v>>))
    <3>1. Connected(<<u, v>>) => <<u, v>> \in links[u]
      BY DEF Connected
    <3> QED BY <1>7, <1>9, <2>5, <2>6, <3>1 DEF PairInv, Found
  <2>8. ASSUME NEW n \in seen[u]
        PROVE  n \in seen[v] \/ Coming(u, v, n)' \/ (Promised(u, v) /\ ~Connected(<<u, v>>))
    <3>1. Coming(u, v, n) => Coming(u, v, n)'
      BY <1>2, <1>3 DEF Coming
    <3> QED BY <1>7, <2>8, <3>1 DEF PairInv, Delivered
  <2>9. Delivered(u, v)'
    BY <1>5, <1>10, <2>1, <2>7, <2>8 DEF Delivered
  <2> QED BY <2>2, <2>3, <2>4, <2>9 DEF PairInv
<1>12. PairInv(v, u)'
  <2>1. \A n \in Message : Coming(v, u, n) => Coming(v, u, n)'
    BY <1>2, <1>3, <1>5 DEF Coming
  <2>2. Promised(v, u) /\ ~Connected(<<v, u>>) =>
          inbox'[v][<<u, v>>] = <<>> \/ Asking(inbox'[v][<<u, v>>])
    BY <1>2, <1>7 DEF PairInv, Alone
  <2>3. \A c \in Conn, n \in Message : Says(inbox'[u][c], n) => Says(inbox[u][c], n)
    BY <1>2
  <2>4. seen[u] \subseteq seen'[u]
    BY <1>5
  <2> QED BY <1>5, <1>7, <1>8, <1>10, <2>1, <2>2, <2>3, <2>4, RunningFacts, PairKept
<1> QED BY <1>11, <1>12

LEMMA PairsInit == ASSUME Init PROVE PairsInv
<1> SUFFICES ASSUME NEW s \in Server, NEW t \in Server PROVE PairInv(s, t)
  BY DEF PairsInv
<1>1. /\ phase[s] = "prompt" /\ seen[s] = {}
      /\ \A c \in Conn : inbox[s][c] = <<>> /\ inbox[t][c] = <<>>
      /\ board[s] = <<>> /\ <<t, s>> \in Conn
  BY DEF Init, Conn
<1>2. \A m : ~Says(<<>>, m)
  BY DEF Says
<1>3. Fresh(<<s, t>>)
  BY <1>1 DEF Fresh
<1>4. AllKept(s)
  BY <1>1 DEF AllKept
<1> QED BY <1>1, <1>2, <1>3, <1>4 DEF PairInv, Origin, Found, Alone, Delivered

LEMMA PairsStep ==
  ASSUME Reliable, TwoServers, RoomForAll, Ground, PairsInv, [Next]_vars
  PROVE  PairsInv'
<1> SUFFICES ASSUME NEW s \in Server, NEW t \in Server, s # t,
                    phase'[s] # "down", phase'[t] # "down", Reached(s, t)'
             PROVE  PairInv(s, t)'
  BY DEF PairsInv
<1>1. TypeOK /\ EachInv /\ Server = {s, t}
  BY DEF Ground, IInv, TwoServers
<1>2. phase[s] # "down" /\ phase[t] # "down"
  BY <1>1, UpEarlier
<1>3. Running(s, t) /\ Running(t, s)
  <2>1. Reached(t, s)' /\ Reached(s, t) /\ Reached(t, s)
    BY FailedStays DEF Reached, Between
  <2> QED BY <1>2, <2>1 DEF Running, PairsInv
<1>4. ASSUME UNCHANGED <<phase, known, inbox, sharing, board, seen>> PROVE PairInv(s, t)'
  BY <1>3, <1>4, OtherPair
<1>5. ASSUME NEW u \in Server, NEW v \in Server, Running(u, v), u = s \/ v = s, u = t \/ v = t
      PROVE  /\ Join(u) => PairInv(s, t)'
             /\ Serve(u) /\ ~Stop(u) => PairInv(s, t)'
  <2>1. ASSUME PairInv(u, v)' /\ PairInv(v, u)' PROVE PairInv(s, t)'
    BY <1>5, <2>1
  <2>2. ASSUME Join(u) PROVE PairInv(s, t)'
    <3>1. ASSUME NEW w \in Server, Connect(u, w) PROVE PairInv(s, t)'
      <4>1. w = v
        <5>1. w # u
          BY <1>1, <3>1, ConnectLists DEF EachInv, NotItself
        <5> QED BY <1>1, <1>5, <5>1
      <4> QED BY <1>5, <2>1, <3>1, <4>1, ConnectPair
    <3> QED BY <1>5, <2>1, <2>2, <3>1, RegisterPair, LookupPair DEF Join
  <2>3. ASSUME Serve(u), ~Stop(u) PROVE PairInv(s, t)'
    <3>1. CASE Select(u) \/ Accept(u) \/ RecvAgain(u) \/ RecvEof(u)
      BY <1>4, <3>1 DEF Select, Accept, RecvAgain, RecvEof, ids, net, log
    <3>2. ASSUME NEW m \in Message, Publish(u, m) PROVE PairInv(s, t)'
      BY <1>5, <2>1, <3>2, PublishPair
    <3>3. ASSUME NEW c \in Conn, Share(u, c) PROVE PairInv(s, t)'
      BY <1>5, <2>1, <3>3, SharePair
    <3>4. ASSUME NEW c \in Conn, Treat(u, c) PROVE PairInv(s, t)'
      BY <1>4, <3>4 DEF Treat, ids, net, log
    <3>5. CASE RecvHeader(u) \/ RecvDiscard(u)
      BY <1>5, <2>1, <3>5, HeaderPair
    <3>6. CASE RecvSget(u)
      BY <1>5, <2>1, <3>6, SgetPair
    <3>7. CASE RecvMessage(u)
      BY <1>5, <2>1, <3>7, MessagePair
    <3> QED BY <2>3, <3>1, <3>2, <3>3, <3>4, <3>5, <3>6, <3>7
           DEF Serve, RecvOverrun
  <2> QED BY <2>2, <2>3
<1>6. ASSUME NEW u \in Server, Join(u) \/ (Serve(u) /\ ~Stop(u)) PROVE PairInv(s, t)'
  <2>1. CASE u = s
    BY <1>3, <1>5, <1>6, <2>1
  <2>2. CASE u = t
    BY <1>3, <1>5, <1>6, <2>2
  <2> QED BY <1>1, <2>1, <2>2
<1>7. ASSUME NEW u \in Server, UpdateReg(u) PROVE PairInv(s, t)'
  BY <1>4, <1>7 DEF UpdateReg, net, loop, log
<1>8. ASSUME NEW u \in Server, NEW m \in Message, ClientSends(u, m) PROVE PairInv(s, t)'
  BY <1>4, <1>8 DEF ClientSends, ids, net, loop, log
<1>9. ASSUME NEW u \in Server, Stop(u) PROVE FALSE
  <2>1. phase'[u] = "down"
    BY <1>1, <1>9 DEF Stop, TypeOK
  <2> QED BY <1>1, <2>1
<1>10. CASE UNCHANGED vars
  BY <1>4, <1>10 DEF vars, ids, net, loop, log
<1>11. ~Wipe /\ \A u \in Server : ~LookupFails(u)
  BY DEF Wipe, LookupFails
<1> QED BY <1>6, <1>7, <1>8, <1>9, <1>10, <1>11 DEF Next

-----------------------------------------------------------------------------
(* The theorem. *)

\* A server that has nothing to do has read everything.
LEMMA NothingToRead ==
  ASSUME TwoServers, TypeOK, EachInv,
         NEW s \in Server, NEW t \in Server, s # t, phase[s] # "down", phase[t] # "down",
         Ready(s) = Nothing, NEW c \in Conn
  PROVE  inbox[s][c] = <<>>
<1> SUFFICES ASSUME inbox[s][c] # <<>> PROVE FALSE
  OBVIOUS
<1>1. Connected(c) /\ c \in {<<s, t>>, <<t, s>>}
  BY UsedIsOpen DEF Unused
<1>2. c \in links[s] \cup backlog[s]
  BY <1>1 DEF Connected
<1>3. backlog[s] = {} /\ {d \in links[s] : Readable(s, d)} = {}
  BY DEF Ready, Nothing
<1> QED BY <1>2, <1>3 DEF Readable

LEMMA ConvergedFollows ==
  ASSUME TwoServers, Ground, PairsInv
  PROVE  Converged
<1>1. TypeOK /\ JInv /\ EachInv
  BY DEF Ground, IInv
<1>2. ASSUME Quiet, NEW s \in Server, NEW t \in Server, s # t,
             phase[s] = "loop", phase[t] = "loop", Reached(s, t), NEW m \in seen[s]
      PROVE  m \in seen[t]
  <2>1. /\ sharing[s] = {} /\ Ready(s) = Nothing /\ Ready(t) = Nothing
    BY <1>2 DEF Quiet, AtSelect
  <2>2. \A c \in Conn : inbox[s][c] = <<>> /\ inbox[t][c] = <<>>
    BY <1>1, <1>2, <2>1, NothingToRead
  <2>3. ~Coming(s, t, m)
    BY <2>1, <2>2 DEF Coming, Says
  <2>4. ~Promised(s, t)
    <3>1. ~Fresh(<<t, s>>)
      BY <1>1, <1>2 DEF Fresh, JInv, KnownWhileConnecting
    <3>2. <<t, s>> \in Conn
      BY DEF Conn
    <3> QED BY <2>2, <3>1, <3>2 DEF Promised, Asking
  <2>5. Delivered(s, t)
    BY <1>2 DEF PairsInv, PairInv
  <2> QED BY <1>2, <2>3, <2>4, <2>5 DEF Delivered
<1> QED
  <2> SUFFICES ASSUME Quiet, \A s, t \in Joiners : Reached(s, t),
                      NEW s \in Joiners, NEW t \in Joiners
               PROVE  seen[s] = seen[t]
    BY DEF Converged
  <2>1. /\ s \in Server /\ phase[s] = "loop" /\ Reached(s, t)
        /\ t \in Server /\ phase[t] = "loop" /\ Reached(t, s)
    BY DEF Joiners
  <2>2. s # t => seen[s] \subseteq seen[t] /\ seen[t] \subseteq seen[s]
    BY <1>2, <2>1
  <2> QED BY <2>2

\* Two servers that are left alone hold the same messages, for any number of
\* messages that fit on a board, unless a connection between the two could not
\* be made: however their joins crossed, a message that was published meanwhile
\* came by a share or with the answer to the request (handle_join,
\* share_last_message, handle_sget_messages).
THEOREM TwoServersConverge ==
  ASSUME Reliable, ~Segmented, TwoServers, RoomForAll
  PROVE  Spec => []Converged
<1> DEFINE Inv == Ground /\ PairsInv
<1>1. Init => Inv
  BY InitInv, JInit, FInit, EachInit, PairsInit DEF Ground
<1>2. Inv /\ [Next]_vars => Inv'
  BY InvStep, JStep, FreshStep, WholeStep, EachStep, PairsStep DEF Ground, FInv, IInv
<1>3. Inv => Converged
  BY ConvergedFollows
<1> QED BY <1>1, <1>2, <1>3, PTL DEF Spec

=============================================================================
