-------------------------------- MODULE Mesh --------------------------------
(***************************************************************************)
(* The message servers (src/src/msgserv) together: each one joins through  *)
(* the identity server, connects to the servers it was told of, asks one   *)
(* of them for its messages, and then runs the select loop of main.c,      *)
(* which accepts connections, takes PUBLISH datagrams, shares them on      *)
(* every connection and takes in what its peers share.                     *)
(*                                                                         *)
(* One iteration of the loop works on the descriptors select reported:     *)
(* ready[s] is what is left of them, served in the order of the loop: the  *)
(* listening socket, the UDP socket, the connections.  The order inside a  *)
(* list of servers is left open: any connection may come next.             *)
(*                                                                         *)
(* A connection is named by the server that opened it and the server that  *)
(* accepted it.  A frame is a sequence of lines; a line on its way to s    *)
(* over c is in inbox[s][c].  A server that stops never comes back under   *)
(* the same name: its port and board are gone, a new process is a new      *)
(* server.                                                                 *)
(***************************************************************************)
EXTENDS Window, FiniteSets

CONSTANTS Server,      \* msgserv processes
          Capacity,    \* messages a server keeps: the -m option
          Message,     \* texts published by clients, each at most once
          NoServer,    \* no destination
          NoConn,      \* no connection
          NoMessage,   \* the text of a line that carries none
          Reliable,    \* FALSE: the identity server may miss a REG, not answer
                       \* a look-up, or forget
          Segmented,   \* TRUE: TCP may deliver a frame in several pieces
          MaxStops     \* bound on the servers that stop, whatever stops them

Conn == Server \X Server

\* As in Board: a server with `-m 0` does not serve.
ASSUME CapacityAssumption == Capacity \in Nat \ {0}

ASSUME MeshAssumption ==
  /\ NoServer \notin Server
  /\ NoConn \notin Conn
  /\ NoMessage \notin Message
  /\ Reliable \in BOOLEAN
  /\ Segmented \in BOOLEAN
  /\ MaxStops \in Nat

VARIABLES phase,       \* phase[s]: where server s is in its life
          registered,  \* the servers the identity server lists
          known,       \* known[s]: listed servers s has yet to connect to
          asked,       \* asked[s]: is_comm_sent of join_to_old_servers
          links,       \* links[s]: connections in s's list with an open fd
          backlog,     \* backlog[s]: connections s has yet to accept
          inbox,       \* inbox[s][c]: lines s can read from connection c
          ready,       \* ready[s]: rfds, what is left of it
          sharing,     \* sharing[s]: connections left for share_last_message
          drain,       \* drain[s]: the connection s is reading
          sms,         \* sms[s]: sms_state of server_treat_communications
          clock,       \* clock[s]: g_lc
          board,       \* board[s]: the messages s keeps, oldest first
          dest,        \* dest[m]: the server whose UDP socket holds m
          stops,       \* how many servers have stopped
          stamp,       \* history: the stamp m was published under
          deps,        \* history: what the publisher had taken in before m
          seen,        \* history: the messages s ever put on its board
          failed       \* history: the connections that could not be made

ids     == <<phase, registered, known, asked, failed>>
net     == <<links, backlog, inbox>>
loop    == <<ready, sharing, drain, sms>>
log     == <<clock, board, stamp, deps, seen>>
vars    == <<ids, net, loop, log, dest, stops>>

Unpublished == -1

Item == [lc : Nat, msg : Message]

Line == [kind : {"SGET", "SMSG", "MSG"}, lc : Nat, msg : Message \cup {NoMessage}]

Sget   == [kind |-> "SGET", lc |-> 0, msg |-> NoMessage]
Header == [kind |-> "SMSG", lc |-> 0, msg |-> NoMessage]
Said(x) == [kind |-> "MSG", lc |-> x.lc, msg |-> x.msg]

\* A frame: the header and a line for each of the messages.
Frame(items) == <<Header>> \o [i \in 1..Len(items) |-> Said(items[i])]

\* The descriptors select can report.
Descriptors == [listen : BOOLEAN, udp : BOOLEAN, conns : SUBSET Conn]
Nothing == [listen |-> FALSE, udp |-> FALSE, conns |-> {}]

Init ==
  /\ phase = [s \in Server |-> "prompt"]
  /\ registered = {}
  /\ known = [s \in Server |-> {}]
  /\ asked = [s \in Server |-> FALSE]
  /\ links = [s \in Server |-> {}]
  /\ backlog = [s \in Server |-> {}]
  /\ inbox = [s \in Server |-> [c \in Conn |-> <<>>]]
  /\ ready = [s \in Server |-> Nothing]
  /\ sharing = [s \in Server |-> {}]
  /\ drain = [s \in Server |-> NoConn]
  /\ sms = [s \in Server |-> FALSE]
  /\ clock = [s \in Server |-> 0]
  /\ board = [s \in Server |-> <<>>]
  /\ dest = [m \in Message |-> NoServer]
  /\ stops = 0
  /\ stamp = [m \in Message |-> Unpublished]
  /\ deps = [m \in Message |-> {}]
  /\ seen = [s \in Server |-> {}]
  /\ failed = {}

-----------------------------------------------------------------------------
(* Joining: handle_join, blocking, before the loop serves any socket. *)

\* The identity server takes up a REG: the one msgserv is set to by default,
\* which is not in the repository, with each server in its list once.
Listed(s) == registered \cup {s}

\* Mutant of Register: the first REG is left to the timer of the loop.
RegisterByTimer(s) ==
  /\ phase[s] = "prompt"
  /\ phase' = [phase EXCEPT ![s] = "lookup"]
  /\ UNCHANGED <<registered, known, asked, failed, net, loop, log, dest, stops>>

\* reg_server: the REG datagram, which may be lost, and no answer to it.
Register(s) ==
  /\ phase[s] = "prompt"
  /\ phase' = [phase EXCEPT ![s] = "lookup"]
  /\ \/ registered' = Listed(s)
     \/ ~Reliable /\ UNCHANGED registered
  /\ UNCHANGED <<known, asked, failed, net, loop, log, dest, stops>>

\* parse_servers: the identity server's answer becomes the list.
Lookup(s) ==
  /\ phase[s] = "lookup"
  /\ phase' = [phase EXCEPT ![s] = "connect"]
  /\ known' = [known EXCEPT ![s] = registered \ {s}]
  /\ UNCHANGED <<registered, asked, failed, net, loop, log, dest, stops>>

\* get_servers gives up on an answer: join fails and may be tried again.
LookupFails(s) ==
  /\ ~Reliable
  /\ phase[s] = "lookup"
  /\ phase' = [phase EXCEPT ![s] = "prompt"]
  /\ UNCHANGED <<registered, known, asked, failed, net, loop, log, dest, stops>>

\* Mutant of Ask: the joiner asks nobody.
AskNobody(s, t) == inbox

\* send_initial_comm, on the first connection made.
Ask(s, t) ==
  IF asked[s] THEN inbox ELSE [inbox EXCEPT ![t][<<s, t>>] = Append(@, Sget)]

\* connect_to_old_server.  A running server listens from its start, joined
\* or not, but connect may fail for one too: five connections wait in its
\* backlog while it is in a join of its own, five seconds pass, or there is
\* no descriptor.  The entry gets descriptor -1 and is never tried again.
\* The first success carries SGET_MESSAGES.
Connect(s, t) ==
  LET c == <<s, t>>
  IN  /\ phase[s] = "connect"
      /\ t \in known[s]
      /\ known' = [known EXCEPT ![s] = @ \ {t}]
      /\ \/ /\ failed' = failed \cup {c}
            /\ UNCHANGED <<asked, net>>
         \/ /\ phase[t] # "down"
            /\ links' = [links EXCEPT ![s] = @ \cup {c}]
            /\ backlog' = [backlog EXCEPT ![t] = @ \cup {c}]
            /\ inbox' = Ask(s, t)
            /\ asked' = [asked EXCEPT ![s] = TRUE]
            /\ UNCHANGED failed
      /\ UNCHANGED <<phase, registered, loop, log, dest, stops>>

\* is_join_complete.
Joined(s) ==
  /\ phase[s] = "connect"
  /\ known[s] = {}
  /\ phase' = [phase EXCEPT ![s] = "loop"]
  /\ UNCHANGED <<registered, known, asked, failed, net, loop, log, dest, stops>>

-----------------------------------------------------------------------------
(* The select loop. *)

Peer(s, c) == IF c[1] = s THEN c[2] ELSE c[1]

\* The other end of c is still open, or waits to be accepted.
PeerOpen(s, c) == c \in links[Peer(s, c)] \cup backlog[Peer(s, c)]

\* What select reports: a connection to accept, a datagram, and every
\* connection with something to read or closed by the peer.
Readable(s, c) == inbox[s][c] # <<>> \/ ~PeerOpen(s, c)

\* Mutant of Ready: the connections are not put into the set.
ReadyNoConns(s) ==
  [listen |-> backlog[s] # {},
   udp    |-> \E m \in Message : dest[m] = s,
   conns  |-> {}]

Ready(s) ==
  [listen |-> backlog[s] # {},
   udp    |-> \E m \in Message : dest[m] = s,
   conns  |-> {c \in links[s] : Readable(s, c)}]

\* Between two iterations.
AtSelect(s) ==
  /\ phase[s] = "loop"
  /\ ready[s] = Nothing
  /\ sharing[s] = {}
  /\ drain[s] = NoConn

Select(s) ==
  /\ AtSelect(s)
  /\ Ready(s) # Nothing
  /\ ready' = [ready EXCEPT ![s] = Ready(s)]
  /\ UNCHANGED <<ids, net, sharing, drain, sms, log, dest, stops>>

\* The timer: update_reg sends the same REG datagram again.
UpdateReg(s) ==
  /\ AtSelect(s)
  /\ registered' = Listed(s)
  /\ UNCHANGED <<phase, known, asked, failed, net, loop, log, dest, stops>>

\* What is left of the backlog after accept.
Waiting(s, c) == backlog[s] \ {c}

\* tcp_new_comm
Accept(s) ==
  /\ ready[s].listen
  /\ ready' = [ready EXCEPT ![s].listen = FALSE]
  /\ \E c \in backlog[s] :
       /\ backlog' = [backlog EXCEPT ![s] = Waiting(s, c)]
       /\ links' = [links EXCEPT ![s] = @ \cup {c}]
  /\ UNCHANGED <<ids, inbox, sharing, drain, sms, log, dest, stops>>

\* Mutants of NewMessage: the clock is not advanced, or goes back.
NewMessageStill(s, lc, m) ==
  /\ board' = [board EXCEPT ![s] = Push(@, [lc |-> lc, msg |-> m], Capacity)]
  /\ clock' = [clock EXCEPT ![s] = lc]
  /\ seen' = [seen EXCEPT ![s] = @ \cup {m}]

NewMessageBack(s, lc, m) ==
  /\ board' = [board EXCEPT ![s] = Push(@, [lc |-> lc, msg |-> m], Capacity)]
  /\ clock' = [clock EXCEPT ![s] = lc - 1]
  /\ seen' = [seen EXCEPT ![s] = @ \cup {m}]

\* add_element(new_message(m)): Board's ring is the window.
NewMessage(s, lc, m) ==
  /\ board' = [board EXCEPT ![s] = Push(@, [lc |-> lc, msg |-> m], Capacity)]
  /\ clock' = [clock EXCEPT ![s] = lc + 1]
  /\ seen' = [seen EXCEPT ![s] = @ \cup {m}]

\* Mutant of Taken: the datagram stays in the socket.
TakenNot(m) == dest

Taken(m) == [dest EXCEPT ![m] = NoServer]

\* handle_client_comms with a PUBLISH, up to share_last_message.
Publish(s, m) ==
  /\ ready[s].udp
  /\ ~ready[s].listen
  /\ dest[m] = s
  /\ ready' = [ready EXCEPT ![s].udp = FALSE]
  /\ dest' = Taken(m)
  /\ NewMessage(s, clock[s], m)
  /\ stamp' = [stamp EXCEPT ![m] = clock[s]]
  /\ deps' = [deps EXCEPT ![m] = seen[s]]
  /\ sharing' = [sharing EXCEPT ![s] = links[s]]
  /\ UNCHANGED <<ids, net, drain, sms, stops>>

\* The lines in xs are written to c.  A write to a connection the peer has
\* closed is taken by the kernel and lost, or fails once the reset is in.
Write(s, c, xs) ==
  LET p == Peer(s, c)
  IN  IF PeerOpen(s, c)
      THEN inbox' = [inbox EXCEPT ![p][c] = @ \o xs] /\ UNCHANGED links
      ELSE /\ links' \in {links, [links EXCEPT ![s] = @ \ {c}]}
           /\ UNCHANGED inbox

\* send_to_server, for one connection of the list.
Share(s, c) ==
  /\ c \in sharing[s]
  /\ sharing' = [sharing EXCEPT ![s] = @ \ {c}]
  /\ Write(s, c, Frame(<<board[s][Len(board[s])]>>))
  /\ UNCHANGED <<ids, backlog, ready, drain, sms, log, dest, stops>>

\* server_treat_communications takes up the next descriptor that is set.
Treat(s, c) ==
  /\ c \in ready[s].conns
  /\ ~ready[s].listen
  /\ ~ready[s].udp
  /\ sharing[s] = {}
  /\ drain[s] = NoConn
  /\ ready' = [ready EXCEPT ![s].conns = @ \ {c}]
  /\ IF c \in links[s]           \* closed by send_to_server: fd is -1
     THEN drain' = [drain EXCEPT ![s] = c] /\ sms' = [sms EXCEPT ![s] = FALSE]
     ELSE UNCHANGED <<drain, sms>>
  /\ UNCHANGED <<ids, net, sharing, log, dest, stops>>

EndDrain(s) == drain' = [drain EXCEPT ![s] = NoConn]

\* recv has a line of the connection being drained, and the line.
Receives(s) == drain[s] # NoConn /\ inbox[s][drain[s]] # <<>>
Received(s) == Head(inbox[s][drain[s]])
DropHead(s) == [inbox EXCEPT ![s][drain[s]] = Tail(@)]

\* The SMESSAGES line.
RecvHeader(s) ==
  /\ Receives(s)
  /\ ~sms[s] /\ Received(s).kind = "SMSG"
  /\ inbox' = DropHead(s)
  /\ sms' = [sms EXCEPT ![s] = TRUE]
  /\ UNCHANGED <<ids, links, backlog, ready, sharing, drain, log, dest, stops>>

\* Mutant of Answer: an answer without the messages.
AnswerEmpty(s) == Frame(<<>>)

Answer(s) == Frame(board[s])

\* SGET_MESSAGES: the whole board goes back on the same connection.  When
\* the write fails the loop goes on with a closed descriptor, and ends.
RecvSget(s) ==
  /\ Receives(s)
  /\ ~sms[s] /\ Received(s).kind = "SGET"
  /\ LET c == drain[s]
         p == Peer(s, c)
     IN  IF PeerOpen(s, c)
         THEN /\ inbox' = [DropHead(s) EXCEPT ![p][c] = @ \o Answer(s)]
              /\ UNCHANGED <<links, drain>>
         ELSE /\ inbox' = DropHead(s)
              /\ \/ UNCHANGED <<links, drain>>
                 \/ links' = [links EXCEPT ![s] = @ \ {c}] /\ EndDrain(s)
  /\ UNCHANGED <<ids, backlog, ready, sharing, sms, log, dest, stops>>

\* Mutant of Raised: the stamp on the line is ignored.
RaisedNot(s, lc) == clock[s]

\* The clock, raised to the stamp on the line.
Raised(s, lc) == Greater(clock[s], lc)

\* Mutant of RecvMessage: one header announces one line.
RecvMessageOnce(s) ==
  /\ Receives(s)
  /\ sms[s] /\ Received(s).kind = "MSG"
  /\ NewMessage(s, Raised(s, Received(s).lc), Received(s).msg)
  /\ inbox' = DropHead(s)
  /\ sms' = [sms EXCEPT ![s] = FALSE]
  /\ UNCHANGED <<ids, links, backlog, ready, sharing, drain, stamp, deps, dest, stops>>

\* parse_message on a line of the frame.
RecvMessage(s) ==
  /\ Receives(s)
  /\ sms[s] /\ Received(s).kind = "MSG"
  /\ NewMessage(s, Raised(s, Received(s).lc), Received(s).msg)
  /\ inbox' = DropHead(s)
  /\ UNCHANGED <<ids, links, backlog, loop, stamp, deps, dest, stops>>

\* A line that means nothing where it stands: parse_message fails on it, or
\* it is neither of the two headers.
RecvDiscard(s) ==
  /\ Receives(s)
  /\ sms[s] # (Received(s).kind = "MSG")
  /\ inbox' = DropHead(s)
  /\ UNCHANGED <<ids, links, backlog, loop, log, dest, stops>>

\* exit, a fatal error or a crash, anywhere.  Lines s had written but its
\* peers have not read survive (kept) or are lost with the machine.
Stop(s) ==
  /\ stops < MaxStops
  /\ phase[s] # "down"
  /\ stops' = stops + 1
  /\ phase' = [phase EXCEPT ![s] = "down"]
  /\ known' = [known EXCEPT ![s] = {}]
  /\ links' = [links EXCEPT ![s] = {}]
  /\ backlog' = [backlog EXCEPT ![s] = {}]
  /\ \E kept \in BOOLEAN :
       inbox' = [t \in Server |-> [c \in Conn |->
                   IF t = s \/ (~kept /\ s \in {c[1], c[2]}) THEN <<>>
                   ELSE inbox[t][c]]]
  /\ ready' = [ready EXCEPT ![s] = Nothing]
  /\ sharing' = [sharing EXCEPT ![s] = {}]
  /\ drain' = [drain EXCEPT ![s] = NoConn]
  /\ sms' = [sms EXCEPT ![s] = FALSE]
  /\ dest' = [m \in Message |-> IF dest[m] = s THEN NoServer ELSE dest[m]]
  /\ UNCHANGED <<registered, asked, failed, log>>

\* A header read inside a frame overruns lc_buffer of parse_message, which has
\* six bytes.  RecvDiscard is the outcome when nobody notices; where the build
\* checks the stack, as compilers do by default, the process ends.
RecvOverrun(s) ==
  /\ Receives(s)
  /\ sms[s] /\ Received(s).kind # "MSG"
  /\ Stop(s)

\* recv would block.  With Segmented the rest of a frame is yet to come.
RecvAgain(s) ==
  /\ drain[s] # NoConn
  /\ \/ inbox[s][drain[s]] = <<>> /\ PeerOpen(s, drain[s])
     \/ inbox[s][drain[s]] # <<>> /\ Segmented
  /\ EndDrain(s)
  /\ UNCHANGED <<ids, net, ready, sharing, sms, log, dest, stops>>

\* recv returns 0: close_communication.
RecvEof(s) ==
  /\ drain[s] # NoConn
  /\ inbox[s][drain[s]] = <<>>
  /\ ~PeerOpen(s, drain[s])
  /\ links' = [links EXCEPT ![s] = @ \ {drain[s]}]
  /\ EndDrain(s)
  /\ UNCHANGED <<ids, backlog, inbox, ready, sharing, sms, log, dest, stops>>

-----------------------------------------------------------------------------
(* The environment. *)

\* A client sends PUBLISH m to s; m waits in the socket until s serves it.
ClientSends(s, m) ==
  /\ phase[s] # "down"
  /\ stamp[m] = Unpublished
  /\ dest[m] = NoServer
  /\ dest' = [dest EXCEPT ![m] = s]
  /\ UNCHANGED <<ids, net, loop, log, stops>>

\* The identity server drops its list, as it does after a minute; a server
\* is listed again when its timer next sends REG.
Wipe ==
  /\ ~Reliable
  /\ registered' = {}
  /\ UNCHANGED <<phase, known, asked, failed, net, loop, log, dest, stops>>

Join(s) == Register(s) \/ Lookup(s) \/ Joined(s) \/ \E t \in Server : Connect(s, t)

Serve(s) ==
  \/ Select(s) \/ Accept(s)
  \/ \E m \in Message : Publish(s, m)
  \/ \E c \in Conn : Share(s, c) \/ Treat(s, c)
  \/ RecvHeader(s) \/ RecvSget(s) \/ RecvMessage(s) \/ RecvDiscard(s)
  \/ RecvOverrun(s) \/ RecvAgain(s) \/ RecvEof(s)

Next ==
  \/ Wipe
  \/ \E s \in Server :
       \/ Join(s) \/ LookupFails(s) \/ Serve(s) \/ UpdateReg(s)
       \/ Stop(s) \/ \E m \in Message : ClientSends(s, m)

Spec == Init /\ [][Next]_vars

\* A process that runs goes on running: it makes the connections of a join
\* it has begun and serves what select reports.  Nobody has to join, to
\* publish or to stop, and a look-up may take for ever.
Run(s) == (\E t \in Server : Connect(s, t)) \/ Joined(s) \/ Serve(s)
FairSpec == Spec /\ \A s \in Server : WF_vars(Run(s))

-----------------------------------------------------------------------------
(* Properties. *)

\* The variables hold values of their types.
TypeOK ==
  /\ phase \in [Server -> {"prompt", "lookup", "connect", "loop", "down"}]
  /\ registered \in SUBSET Server
  /\ known \in [Server -> SUBSET Server]
  /\ asked \in [Server -> BOOLEAN]
  /\ links \in [Server -> SUBSET Conn]
  /\ backlog \in [Server -> SUBSET Conn]
  /\ inbox \in [Server -> [Conn -> Seq(Line)]]
  /\ ready \in [Server -> Descriptors]
  /\ sharing \in [Server -> SUBSET Conn]
  /\ drain \in [Server -> Conn \cup {NoConn}]
  /\ sms \in [Server -> BOOLEAN]
  /\ clock \in [Server -> Nat]
  /\ board \in [Server -> Seq(Item)]
  /\ dest \in [Message -> Server \cup {NoServer}]
  /\ stops \in Nat
  /\ stamp \in [Message -> Nat \cup {Unpublished}]
  /\ deps \in [Message -> SUBSET Message]
  /\ seen \in [Server -> SUBSET Message]
  /\ failed \in SUBSET Conn

\* The servers implement the bulletin: whatever is lost, resent, split or
\* cut off by a stop, what a server takes in was published before, and
\* publishing takes a stamp above everything the publisher has taken in
\* (handle_publish, parse_message, handle_sget_messages).
B == INSTANCE Bulletin
BulletinSpec == B!Spec

\* Both ends of c are open, or the acceptor has yet to accept it.
Connected(c) == c \in links[c[1]] /\ c \in links[c[2]] \cup backlog[c[2]]

\* Two servers in their loops are connected, by one of them or by both,
\* however their joins interleaved, unless a connection between the two could
\* not be made: each registers before it looks up, so the later look-up of the
\* two finds the other (handle_join).
Between(s, t) == {<<s, t>>, <<t, s>>}
Reached(s, t) == Between(s, t) \cap failed = {}
MeshComplete ==
  \A s, t \in Server :
    s # t /\ phase[s] = "loop" /\ phase[t] = "loop" /\ Reached(s, t)
      => Connected(<<s, t>>) \/ Connected(<<t, s>>)

\* The loop never drops a line of a frame for want of the header (sms_state
\* is local to one call of server_treat_communications), nor a SGET_MESSAGES
\* because a header came before it.
NoLineDropped ==
  \A s \in Server :
    Receives(s) => /\ Received(s).kind = "MSG" => sms[s]
                   /\ Received(s).kind = "SGET" => ~sms[s]

\* The servers that serve have nothing left to do, and no one is joining.
Quiet ==
  \A s \in Server :
    /\ phase[s] \notin {"lookup", "connect"}
    /\ phase[s] = "prompt" => s \notin registered
    /\ phase[s] = "loop" => AtSelect(s) /\ Ready(s) = Nothing

\* When all is quiet every joined server has taken in the same messages, if
\* none failed to connect to another: a message published while another server
\* joins reaches it by the share or by the answer to SGET_MESSAGES
\* (share_last_message, handle_sget_messages).
Joiners == {s \in Server : phase[s] = "loop"}
Converged ==
  Quiet /\ (\A s, t \in Joiners : Reached(s, t)) =>
    \A s, t \in Joiners : seen[s] = seen[t]

\* A line that reached a server s that serves, from a server t, is put on s's
\* board, unless one of the two stops: the loop comes back to every connection
\* that has something to read, whatever else arrives (main.c's select and
\* treat).
Link == {c \in Conn : c[1] # c[2]}
Carries(s, t, m) ==
  \E c \in Between(s, t) :
    \E i \in DOMAIN inbox[s][c] : inbox[s][c][i].msg = m
LinesArrive ==
  \A c \in Link, m \in Message :
    LET s == c[1]
        t == c[2]
    IN  Carries(s, t, m) /\ phase[s] = "loop"
          ~> m \in seen[s] \/ "down" \in {phase[s], phase[t]}

\* A joiner whose SGET_MESSAGES reached a serving server takes in each message
\* this server keeps, unless one of the two stops or the message is pushed off
\* the board before the request is read: a datagram is served before the
\* connections (main.c, handle_sget_messages).
Awaits(s, t) == LET xs == inbox[t][<<s, t>>]
                IN  \E i \in DOMAIN xs : xs[i].kind = "SGET"
Keeps(s, m) == \E i \in DOMAIN board[s] : board[s][i].msg = m
JoinerCatchesUp ==
  \A c \in Link, m \in Message :
    LET s == c[1]
        t == c[2]
    IN  Awaits(s, t) /\ phase[t] = "loop" /\ Keeps(t, m)
          ~> \/ m \in seen[s]
             \/ "down" \in {phase[s], phase[t]}
             \/ Awaits(s, t) /\ ~Keeps(t, m)

=============================================================================
