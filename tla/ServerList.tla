----------------------------- MODULE ServerList -----------------------------
(***************************************************************************)
(* The list of servers of one message server, and the descriptors in it    *)
(* (src/src/msgserv: identity.c, main.c, message.c): what a join puts on   *)
(* it, what accept adds, what a failed write or a closed peer marks, and   *)
(* the pass of remove_bad_servers that takes marked entries off.           *)
(*                                                                         *)
(* Mesh has many servers and keeps a set of open connections for each;     *)
(* this module has one server, its linked list entry by entry, and the     *)
(* numbers of its descriptors, which the kernel gives out again once they  *)
(* are closed.  A connection may fail or be closed by its peer at any      *)
(* time: what a call on it returns is left open.                           *)
(***************************************************************************)
EXTENDS Integers, Sequences, FiniteSets, SequencesExt

CONSTANTS
  Other,      \* servers the identity server may list besides this one
  Host,       \* this server's own entry
  Inbound,    \* the name of a server that connected to this one
  MaxFd,      \* the descriptors that connections may use
  MaxListed,  \* bound: entries in an answer of the identity server
  MaxJoins    \* bound: joins tried

ASSUME NameAssumption == Host # Inbound /\ {Host, Inbound} \cap Other = {}
ASSUME SizeAssumption == MaxFd \in Nat /\ MaxListed \in Nat /\ MaxJoins \in Nat

VARIABLES
  nodes,      \* the list: entries with a server and a descriptor
  at,         \* where main's thread is in its loop
  isJoinComplete,
  isCommSent,
  cursor,     \* the entry join_to_old_servers has come to
  inUse,      \* the descriptors the kernel has given out
  rfds,       \* the descriptors of connections that select reported
  todo,       \* what else it reported
  joins,      \* joins tried
  since,      \* history: descriptors given out since select
  opened,     \* history: connections this join has opened
  asked       \* history: those it has written SGET_MESSAGES to

joining == <<isJoinComplete, isCommSent, cursor, joins>>
waiting == <<rfds, todo>>
history == <<since, opened, asked>>
vars    == <<nodes, at, joining, inUse, waiting, history>>

Fd == 1..MaxFd
Closed   == -1
Unopened == -2
Entry == [server : Other \cup {Host, Inbound}, fd : Fd \cup {Closed, Unopened}]

Fds(list) == {list[i].fd : i \in DOMAIN list} \cap Fd

\* The lowest free number, which socket and accept return.
Free == Fd \ inUse
Lowest == CHOOSE f \in Free : \A g \in Free : f <= g

\* The entries at the positions P are marked, their descriptors closed.
Marked(P) ==
  [i \in DOMAIN nodes |-> IF i \in P THEN [nodes[i] EXCEPT !.fd = Closed] ELSE nodes[i]]
Close(P) ==
  /\ nodes' = Marked(P)
  /\ inUse' = inUse \ {nodes[i].fd : i \in P}

-----------------------------------------------------------------------------
(* What one iteration of the loop serves, in its order. *)

\* Mutant of Order: the connection is accepted behind the UDP socket.
OrderLateAccept == <<"stdin", "udp", "listen", "treat">>

Order == <<"listen", "stdin", "udp", "treat">>

After(stage) == Order[1 + CHOOSE n \in DOMAIN Order : Order[n] = stage]

-----------------------------------------------------------------------------
(* The top of the loop: remove_bad_servers, then select. *)

Bad(x) == x.fd = Closed \/ x.server = Host

\* Mutant of Over: the entry after a removed one is left out too.
OverTwo(pass, x) ==
  IF pass.dropped THEN [pass EXCEPT !.dropped = FALSE]
  ELSE IF Bad(x) THEN [pass EXCEPT !.dropped = TRUE]
  ELSE [pass EXCEPT !.kept = Append(@, x)]

\* What the pass makes of one entry.  The head has a test of its own; the loop
\* tests the successor of each entry it comes to, and moves on to whatever is
\* the successor then: the entry after a removed one is kept untested.
Over(pass, x) ==
  IF Bad(x) /\ ~pass.dropped
  THEN [kept |-> pass.kept, dropped |-> TRUE]
  ELSE [kept |-> Append(pass.kept, x), dropped |-> FALSE]

\* The pass after n entries of the list.
Pass(list) ==
  LET pass[n \in 0..Len(list)] ==
        IF n = 0 THEN [kept |-> <<>>, dropped |-> FALSE] ELSE Over(pass[n - 1], list[n])
  IN  pass

RemoveBadServers(list) == Pass(list)[Len(list)].kept

\* A server that has not joined waits for its user and its connections only.
Select ==
  /\ at = "select"
  /\ nodes' = RemoveBadServers(nodes)
  /\ rfds' \in SUBSET Fds(nodes')
  /\ todo' \in SUBSET (IF isJoinComplete THEN {"listen", "stdin", "udp"} ELSE {"stdin"})
  /\ rfds' # {} \/ todo' # {}
  /\ at' = Order[1]
  /\ since' = {}
  /\ UNCHANGED <<joining, inUse, opened, asked>>

-----------------------------------------------------------------------------
(* The listening socket and standard input. *)

\* Nothing was reported for this stage.
Skip ==
  /\ at \in {"listen", "stdin", "udp"} \ todo
  /\ at' = After(at)
  /\ UNCHANGED <<nodes, joining, inUse, waiting, history>>

\* tcp_new_comm: the new connection comes first in the list.
TcpNewComm ==
  /\ at = "listen" /\ "listen" \in todo
  /\ Free # {}
  /\ nodes' = <<[server |-> Inbound, fd |-> Lowest]>> \o nodes
  /\ inUse' = inUse \cup {Lowest}
  /\ since' = since \cup {Lowest}
  /\ at' = After(at)
  /\ UNCHANGED <<joining, waiting, opened, asked>>

\* accept fails, for want of a descriptor or, after 30 seconds, because the
\* peer has gone: the program leaves its loop.
AcceptFails ==
  /\ at = "listen" /\ "listen" \in todo
  /\ at' = "exit"
  /\ UNCHANGED <<nodes, joining, inUse, waiting, history>>

\* A command other than join, a join that is complete, or one for which
\* parse_servers gets no list: what Skip does, with the input read.
OtherCommand ==
  /\ at = "stdin" /\ "stdin" \in todo
  /\ at' = After(at)
  /\ UNCHANGED <<nodes, joining, inUse, waiting, history>>

\* The entries of an answer, pushed one by one.
Pushed(answer) ==
  Reverse([i \in DOMAIN answer |-> [server |-> answer[i], fd |-> Unopened]]) \o nodes

\* Mutant of HandleJoin: a server that has joined may join again.
HandleJoinAgain(answer) ==
  /\ at = "stdin" /\ "stdin" \in todo
  /\ joins < MaxJoins
  /\ joins' = joins + 1
  /\ nodes' = Pushed(answer)
  /\ isCommSent' = FALSE
  /\ cursor' = 1
  /\ at' = "join"
  /\ opened' = {} /\ asked' = {}
  /\ UNCHANGED <<isJoinComplete, inUse, waiting, since>>

\* handle_join, up to the end of parse_servers.
HandleJoin(answer) ==
  /\ at = "stdin" /\ "stdin" \in todo
  /\ ~isJoinComplete
  /\ joins < MaxJoins
  /\ joins' = joins + 1
  /\ nodes' = Pushed(answer)
  /\ isCommSent' = FALSE
  /\ cursor' = 1
  /\ at' = "join"
  /\ opened' = {} /\ asked' = {}
  /\ UNCHANGED <<isJoinComplete, inUse, waiting, since>>

-----------------------------------------------------------------------------
(* join_to_old_servers, entry by entry, and connect_to_old_server. *)

AtEntry == at = "join" /\ cursor \in DOMAIN nodes
ToOpen == nodes[cursor].server # Host /\ nodes[cursor].fd = Unopened

SetFd(f) == nodes' = [nodes EXCEPT ![cursor].fd = f]

\* An entry of this server itself, or one opened by an earlier join.
NothingToOpen ==
  /\ AtEntry
  /\ ~ToOpen
  /\ cursor' = cursor + 1
  /\ UNCHANGED <<nodes, at, isJoinComplete, isCommSent, joins, inUse, waiting, history>>

\* connect succeeds, and so does the request if none was sent before.
Connects ==
  /\ AtEntry
  /\ ToOpen
  /\ Free # {}
  /\ SetFd(Lowest)
  /\ inUse' = inUse \cup {Lowest}
  /\ since' = since \cup {Lowest}
  /\ opened' = opened \cup {Lowest}
  /\ asked' = IF isCommSent THEN asked ELSE asked \cup {Lowest}
  /\ isCommSent' = TRUE
  /\ cursor' = cursor + 1
  /\ UNCHANGED <<at, isJoinComplete, joins, waiting>>

\* Mutant of KeepsSent: a failure makes the next server be asked as well.
KeepsSentNot == FALSE

\* `if (1 == status && true == is_comm_sent) status = 0`
KeepsSent == isCommSent

\* connect is refused, the address is not understood, or the first request
\* cannot be written; only in the first case is the socket closed.
ConnectFails ==
  /\ AtEntry
  /\ ToOpen
  /\ Free # {}
  /\ SetFd(Closed)
  /\ inUse' \in {inUse, inUse \cup {Lowest}}
  /\ isCommSent' = KeepsSent
  /\ cursor' = cursor + 1
  /\ UNCHANGED <<at, isJoinComplete, joins, waiting, history>>

\* socket fails: the join ends there and may be tried again.
SocketFails ==
  /\ AtEntry
  /\ ToOpen
  /\ Free = {}
  /\ at' = After("stdin")
  /\ UNCHANGED <<nodes, joining, inUse, waiting, history>>

JoinComplete ==
  /\ at = "join"
  /\ cursor > Len(nodes)
  /\ isJoinComplete' = TRUE
  /\ at' = After("stdin")
  /\ UNCHANGED <<nodes, isCommSent, cursor, joins, inUse, waiting, history>>

-----------------------------------------------------------------------------
(* The sockets. *)

\* A write to an entry without a descriptor fails; any other may.
Unwritable == {i \in DOMAIN nodes : nodes[i].fd \notin Fd}

\* A datagram: nothing more than an answer if it is no PUBLISH, else
\* share_last_message, which closes what it cannot write to.
HandleClientComms ==
  /\ at = "udp" /\ "udp" \in todo
  /\ \/ UNCHANGED <<nodes, inUse>>
     \/ \E P \in SUBSET (DOMAIN nodes \ Unwritable) : Close(P \cup Unwritable)
  /\ at' = After(at)
  /\ UNCHANGED <<joining, waiting, history>>

\* The entries server_treat_communications reads from.  (That FD_ISSET of -1
\* or -2 is undefined in C: it is taken as false.)
Reported == {i \in DOMAIN nodes : nodes[i].fd \in rfds}

\* Mutant of TreatCommunications: the descriptor stays in the entry.
TreatCommunicationsKept ==
  /\ at = "treat"
  /\ \E P \in SUBSET Reported :
       UNCHANGED nodes /\ inUse' = inUse \ {nodes[i].fd : i \in P}
  /\ at' = "select"
  /\ UNCHANGED <<joining, waiting, history>>

\* server_treat_communications over the list: some peers have closed, or
\* cannot be answered.
TreatCommunications ==
  /\ at = "treat"
  /\ \E P \in SUBSET Reported : Close(P)
  /\ at' = "select"
  /\ UNCHANGED <<joining, waiting, history>>

-----------------------------------------------------------------------------
Init ==
  /\ nodes = <<>>
  /\ at = "select"
  /\ isJoinComplete = FALSE
  /\ isCommSent = FALSE
  /\ cursor = 1
  /\ inUse = {}
  /\ rfds = {}
  /\ todo = {}
  /\ joins = 0
  /\ since = {} /\ opened = {} /\ asked = {}

Answer == BoundedSeq(Other \cup {Host}, MaxListed)

Next ==
  \/ Select
  \/ Skip
  \/ TcpNewComm \/ AcceptFails
  \/ OtherCommand
  \/ \E answer \in Answer : HandleJoin(answer)
  \/ NothingToOpen \/ Connects \/ ConnectFails \/ SocketFails \/ JoinComplete
  \/ HandleClientComms
  \/ TreatCommunications

Spec == Init /\ [][Next]_vars

-----------------------------------------------------------------------------
(* Properties. *)

\* The variables hold values of their types, and only a server that has not
\* joined is in a join.
TypeOK ==
  /\ nodes \in Seq(Entry)
  /\ at \in {"select", "listen", "stdin", "join", "udp", "treat", "exit"}
  /\ isJoinComplete \in BOOLEAN
  /\ at = "join" => ~isJoinComplete
  /\ isCommSent \in BOOLEAN
  /\ cursor \in Nat \ {0}
  /\ joins \in 0..MaxJoins
  /\ inUse \subseteq Fd
  /\ rfds \subseteq Fd
  /\ todo \subseteq {"listen", "stdin", "udp"}
  /\ since \subseteq Fd /\ opened \subseteq Fd /\ asked \subseteq Fd

\* No entry keeps the number of a descriptor that was closed, and no two
\* entries share one: select would fail on it, which ends the program, or a
\* later connection would get the number and be read, written and closed for
\* two (send_to_server, close_communication, connect_to_old_server).
DescriptorsOwned ==
  /\ Fds(nodes) \subseteq inUse
  /\ \A i, j \in DOMAIN nodes :
       nodes[i].fd \in Fd /\ nodes[i].fd = nodes[j].fd => i = j

\* Of the connections a join opens exactly one carries the request for
\* messages, whatever fails before, between and after (join_to_old_servers).
AskedOnce ==
  /\ Cardinality(asked) <= 1
  /\ opened # {} => asked # {}

\* What an iteration reads is what select reported: no descriptor among them
\* was closed and given out again meanwhile, to a connection accepted or made
\* by a join in the same iteration (the order of the loop of main.c).
ReadsReported ==
  at = "treat" => rfds \cap Fds(nodes) \cap since = {}

\* The entries that are open or yet to open, in order, and how many are not.
LiveTo(list) ==
  LET live[n \in 0..Len(list)] ==
        IF n = 0 THEN <<>>
        ELSE IF Bad(list[n]) THEN live[n - 1] ELSE Append(live[n - 1], list[n])
  IN  live
Live(list) == LiveTo(list)[Len(list)]
Dead(list) == Cardinality({i \in DOMAIN list : Bad(list[i])})

\* A pass of remove_bad_servers loses no entry that is open or yet to open and
\* leaves them in order, and of those to remove it leaves half at most.
PassKeepsOpen ==
  [][Select => Live(nodes') = Live(nodes) /\ 2 * Dead(nodes') <= Dead(nodes)]_vars

=============================================================================
