------------------------------ MODULE Client ------------------------------
(***************************************************************************)
(* The client (src/src/rmb): which message server it works with, the       *)
(* watchdog that notices when that server does not answer, the bans, and   *)
(* the fetching of a new list when the old one is used up.                 *)
(*                                                                         *)
(* The client is one thread.  At the top of its loop it either looks for   *)
(* another server or waits in select for the timer, a datagram or the      *)
(* user.  It does not look at the sender of a datagram, so the answers on  *)
(* their way to it are a number, whoever sends them.                       *)
(***************************************************************************)
EXTENDS Integers

CONSTANTS Server,      \* msgserv processes, by address and ports
          NoServer,    \* NULL
          BanTime,     \* SERVER_BAN_TIME
          Copies,      \* how often a list may name a server
          Strays,      \* TRUE: datagrams that are no MESSAGES may come in
          MaxPending   \* bound on the answers on their way

ASSUME ClientAssumption ==
  /\ NoServer \notin Server
  /\ BanTime \in Nat \ {0}
  /\ Copies \subseteq Nat
  /\ Strays \in BOOLEAN
  /\ MaxPending \in Nat

VARIABLES pc,          \* where the client is: see Places
          sel,         \* sel_server
          servers,     \* msgservers_lst: how often it holds each server
          ban,         \* banservers_lst: the ban time left of each server
          err,         \* err, a send failed
          silent,      \* server_not_answering
          test,        \* _test_server
          lastTest,    \* _last_test_server
          pending,     \* answers on their way to binded_fd or in it
          awaiting,    \* history: nothing came in since the last request
          waited       \* history: ticks since sel_server was chosen or an
                       \* answer came in, 2 for more

watchdog == <<test, lastTest>>
history  == <<awaiting, waited>>
vars == <<pc, sel, servers, ban, err, silent, watchdog, pending, history>>

\* init: init_program; loop: the top of the loop or select; search: choosing
\* a server; fetch: fetch_servers; exit: PROGRAM_EXIT.
Places == {"init", "loop", "search", "fetch", "exit"}

\* A ban counter below zero is as good as no entry: is_banned and ban_server
\* only look at its sign, and nothing else reads it.
NotBanned == -1

Empty == [s \in Server |-> 0]

Init ==
  /\ pc = "init"
  /\ sel = NoServer
  /\ servers = Empty
  /\ ban = [s \in Server |-> NotBanned]
  /\ err = FALSE /\ silent = FALSE
  /\ test = FALSE /\ lastTest = FALSE
  /\ pending = 0
  /\ awaiting = FALSE /\ waited = 0

\* A server newly chosen has nothing to answer for.
Fresh == waited' = 0

-----------------------------------------------------------------------------
(* Lists of servers. *)

\* init_program: the first server is any of the first list.
FirstFetch ==
  /\ pc = "init"
  /\ servers' \in [Server -> Copies]
  /\ sel' \in {s \in Server : servers'[s] > 0} \cup {NoServer}
  /\ sel' = NoServer <=> servers' = Empty
  /\ pc' = "loop"
  /\ UNCHANGED <<ban, err, silent, watchdog, pending, history>>

\* fetch_servers: get_servers takes the first answer in outgoing_fd, which
\* may be one to an earlier request, so any list may come.
Fetch ==
  /\ pc = "fetch"
  /\ servers' \in [Server -> Copies]
  /\ sel' = NoServer
  /\ silent' = FALSE
  /\ pc' = "loop"
  /\ UNCHANGED <<ban, err, watchdog, pending, history>>

\* get_servers has no answer after ten seconds, or cannot send.
FetchFails ==
  /\ pc \in {"init", "fetch"}
  /\ pc' = "exit"
  /\ UNCHANGED <<sel, servers, ban, err, silent, watchdog, pending, history>>

-----------------------------------------------------------------------------
(* Choosing a server: the block at the top of the loop. *)

Failed == err \/ silent

\* ban_server: a ban that still runs is left alone.
Banned(s) == IF ban[s] < 0 THEN [ban EXCEPT ![s] = BanTime] ELSE ban

\* rem_awol_server: one node that names s.
Without(s) == [servers EXCEPT ![s] = @ - 1]

\* Up to the first select_server: the server that failed is banned and leaves
\* the list.
GiveUp ==
  /\ pc = "loop"
  /\ sel = NoServer \/ Failed
  /\ pc' = "search"
  /\ test' = FALSE /\ lastTest' = FALSE
  /\ IF Failed
     THEN silent' = TRUE /\ ban' = Banned(sel) /\ servers' = Without(sel)
     ELSE UNCHANGED <<silent, ban, servers>>
  /\ awaiting' = FALSE
  /\ UNCHANGED <<sel, err, pending, waited>>

\* Mutant of IsBanned: <= for < in the test of the reduced counter.
IsBannedEarly(s) == ban[s] - 1 > 0

\* is_banned(s): what is left after one is taken off.
IsBanned(s) == ban[s] - 1 >= 0

\* Mutants of Reduced: testing shortens every ban, or none.
ReducedAll(s) == [t \in Server |-> ban[t] - 1]

ReducedNot(s) == ban

\* reduce_ban, down to NotBanned.
Reduced(s) == [ban EXCEPT ![s] = IF @ = NotBanned THEN @ ELSE @ - 1]

\* One round of the loop of select_server and is_banned: a server still
\* banned leaves the list.
Skip(s) ==
  /\ pc = "search"
  /\ servers[s] > 0
  /\ IsBanned(s)
  /\ ban' = Reduced(s)
  /\ servers' = Without(s)
  /\ UNCHANGED <<pc, sel, err, silent, watchdog, pending, history>>

\* Mutant of Choose: the node of the chosen server is removed, too.
ChoosePop(s) ==
  /\ pc = "search"
  /\ servers[s] > 0
  /\ ~IsBanned(s)
  /\ sel' = s
  /\ servers' = Without(s)
  /\ ban' = Reduced(s)
  /\ silent' = FALSE
  /\ pc' = "loop"
  /\ Fresh
  /\ UNCHANGED <<err, watchdog, pending, awaiting>>

\* ... and the first that is not is the new server.  err stays as it is.
Choose(s) ==
  /\ pc = "search"
  /\ servers[s] > 0
  /\ ~IsBanned(s)
  /\ sel' = s
  /\ ban' = Reduced(s)
  /\ silent' = FALSE
  /\ pc' = "loop"
  /\ Fresh
  /\ UNCHANGED <<servers, err, watchdog, pending, awaiting>>

\* Mutant of RunOut: err outlives the list.
RunOutErr ==
  /\ pc = "search"
  /\ servers = Empty
  /\ sel' = NoServer
  /\ pc' = "fetch"
  /\ UNCHANGED <<servers, ban, err, silent, watchdog, pending, history>>

\* The list is used up.
RunOut ==
  /\ pc = "search"
  /\ servers = Empty
  /\ sel' = NoServer
  /\ err' = FALSE
  /\ pc' = "fetch"
  /\ UNCHANGED <<servers, ban, silent, watchdog, pending, history>>

-----------------------------------------------------------------------------
(* The descriptors select reports. *)

AtSelect == pc = "loop" /\ sel # NoServer /\ ~Failed

\* The timer, exec_server_test: the second tick with a test under way marks
\* the server.
Tick ==
  /\ AtSelect
  /\ silent' = (test /\ lastTest)
  /\ lastTest' = (test /\ ~lastTest)
  /\ test' = (test /\ ~lastTest)
  /\ waited' = IF waited = 2 THEN 2 ELSE waited + 1
  /\ UNCHANGED <<pc, sel, servers, ban, err, pending, awaiting>>

\* handle_incoming_messages, a MESSAGES datagram.
Receive ==
  /\ AtSelect
  /\ pending > 0
  /\ pending' = pending - 1
  /\ test' = FALSE
  /\ awaiting' = FALSE
  /\ waited' = 0
  /\ UNCHANGED <<pc, sel, servers, ban, err, silent, lastTest>>

\* handle_incoming_messages, any other datagram.
ReceiveStray ==
  /\ Strays
  /\ AtSelect
  /\ test' = TRUE
  /\ UNCHANGED <<pc, sel, servers, ban, err, silent, lastTest, pending, history>>

\* ask_for_messages sent: an answer comes some time, or never.
Sent ==
  /\ err' = FALSE
  /\ awaiting' = TRUE
  /\ \/ pending < MaxPending /\ pending' = pending + 1
     \/ UNCHANGED pending

\* Mutant of Ask: the request is not watched.
AskUnwatched ==
  /\ Sent \/ (err' = TRUE /\ UNCHANGED <<awaiting, pending>>)
  /\ UNCHANGED test

\* ask_for_messages, which may fail, and ask_server_test.
Ask ==
  /\ Sent \/ (err' = TRUE /\ UNCHANGED <<awaiting, pending>>)
  /\ test' = TRUE

\* publish, followed by a request that tests the server.  A text it turns
\* down (2, then set back to 0) changes nothing.
Publish ==
  /\ AtSelect
  /\ \/ err' = TRUE /\ UNCHANGED <<test, awaiting, pending>>
     \/ Ask
  /\ UNCHANGED <<pc, sel, servers, ban, silent, lastTest, waited>>

ShowLatestMessages ==
  /\ AtSelect
  /\ Ask
  /\ UNCHANGED <<pc, sel, servers, ban, silent, lastTest, waited>>

\* exit, or SIGINT.
Exit ==
  /\ pc = "loop"
  /\ pc' = "exit"
  /\ UNCHANGED <<sel, servers, ban, err, silent, watchdog, pending, history>>

-----------------------------------------------------------------------------
\* What the client does without anybody's help.
Run ==
  \/ FirstFetch
  \/ Fetch
  \/ FetchFails
  \/ GiveUp
  \/ \E s \in Server : Skip(s) \/ Choose(s)
  \/ RunOut

Next ==
  \/ Run
  \/ Tick
  \/ Receive
  \/ ReceiveStray
  \/ Publish
  \/ ShowLatestMessages
  \/ Exit

Spec == Init /\ [][Next]_vars

\* The client runs until it waits in select, and the timer keeps ticking.
FairSpec == Spec /\ WF_vars(Run) /\ WF_vars(Tick)

-----------------------------------------------------------------------------
(* Properties. *)

\* The variables hold values of their types.
TypeOK ==
  /\ pc \in Places
  /\ sel \in Server \cup {NoServer}
  /\ servers \in [Server -> Nat]
  /\ ban \in [Server -> NotBanned..BanTime]
  /\ err \in BOOLEAN /\ silent \in BOOLEAN
  /\ test \in BOOLEAN /\ lastTest \in BOOLEAN
  /\ pending \in 0..MaxPending
  /\ awaiting \in BOOLEAN /\ waited \in 0..2

\* sel_server points into msgservers_lst, whose nodes own the servers: in the
\* loop the server it points to has not been freed by rem_awol_server or with
\* the whole list.
ActiveListed == pc = "loop" /\ sel # NoServer => servers[sel] > 0

\* The client never works with a server whose ban still runs, however the
\* server was chosen.  It follows that ban_server never meets a running ban.
BannedNotActive == pc = "loop" /\ sel # NoServer => ban[sel] = NotBanned

\* A failure is always somebody's: rem_awol_server, which is called with
\* sel_server unchecked and reads through it, is never called with NULL.
FailureHasServer == pc = "loop" /\ Failed => sel # NoServer

\* Every request is watched to its end: something comes in, or the server is
\* given up and another choice made.
AnsweredOrGivenUp == awaiting ~> (~awaiting \/ pc = "exit")

\* The last list fetched named nobody.
NobodyListed == pc = "loop" /\ servers = Empty

\* When lists cease to come empty, a client that looks for a server ends up
\* with one, or exits: bans run out by being tested, however many servers
\* are banned and however often they are listed.
FindsServer ==
  <>[]~NobodyListed => []<>(AtSelect \/ pc = "exit")

\* doc_tech_client.md: after a valid answer the next tick cleans the test and
\* does not mark the server.
AnswerClearsTest == silent /\ pc = "loop" => waited = 2

=============================================================================
