---------------------------- MODULE ClientProofs ----------------------------
(* Theorems about Client, for every value of its constants. *)
EXTENDS Client, TLAPS

\* init_program starts with nobody banned and nothing failed.
StartsClean ==
  pc = "init" => ~Failed /\ \A s \in Server : ban[s] = NotBanned

\* A search that comes to nothing leaves no error behind.
FetchClean == pc = "fetch" => err = FALSE

IInv == /\ TypeOK
        /\ ActiveListed
        /\ BannedNotActive
        /\ FailureHasServer
        /\ StartsClean
        /\ FetchClean

\* Before the first list there is no server.
LEMMA InitInvariant == Init => IInv
  <1> SUFFICES ASSUME Init PROVE IInv
    OBVIOUS
  <1>1. servers \in [Server -> Nat]
    BY DEF Init, Empty
  <1>2. NotBanned \in NotBanned..BanTime
    BY ClientAssumption DEF ClientAssumption, NotBanned
  <1>3. /\ ban \in [Server -> NotBanned..BanTime]
        /\ \A s \in Server : ban[s] = NotBanned
    BY <1>2 DEF Init
  <1>4. pending \in 0..MaxPending /\ waited \in 0..2
    BY ClientAssumption DEF ClientAssumption, Init
  <1>5. TypeOK
    BY <1>1, <1>3, <1>4 DEF Init, TypeOK, Places
  <1> QED
    BY <1>3, <1>5 DEF Init, IInv, ActiveListed, BannedNotActive,
                      FailureHasServer, StartsClean, FetchClean, Failed

\* A list that is fetched counts its servers.
LEMMA ListsAreCounts == [Server -> Copies] \subseteq [Server -> Nat]
  BY ClientAssumption DEF ClientAssumption

\* rem_awol_server takes a node that is there.
LEMMA WithoutType ==
  ASSUME TypeOK, NEW s \in Server, servers[s] > 0
  PROVE  Without(s) \in [Server -> Nat]
  <1>1. servers \in [Server -> Nat] /\ servers[s] - 1 \in Nat
    BY DEF TypeOK
  <1> QED
    BY <1>1 DEF Without

\* ban_server sets a counter to the ban time or leaves all alone.
LEMMA BannedType ==
  ASSUME TypeOK, NEW s \in Server
  PROVE  Banned(s) \in [Server -> NotBanned..BanTime]
  <1>1. ban \in [Server -> NotBanned..BanTime] /\ BanTime \in NotBanned..BanTime
    BY ClientAssumption DEF TypeOK, ClientAssumption, NotBanned
  <1> QED
    BY <1>1 DEF Banned

-----------------------------------------------------------------------------
(* The steps that change the server or the list. *)

\* The first server comes from the first list, and nobody is banned.
LEMMA FirstFetchStep == IInv /\ FirstFetch => IInv'
  <1> SUFFICES ASSUME IInv, FirstFetch PROVE IInv'
    OBVIOUS
  <1>1. TypeOK'
    BY ListsAreCounts DEF IInv, TypeOK, FirstFetch, Places, watchdog, history
  <1>2. ActiveListed'
    BY ClientAssumption DEF ClientAssumption, FirstFetch, ActiveListed
  <1>3. BannedNotActive'
    BY DEF IInv, StartsClean, FirstFetch, BannedNotActive
  <1>4. FailureHasServer'
    BY DEF IInv, StartsClean, FirstFetch, FailureHasServer, Failed
  <1>5. (StartsClean /\ FetchClean)'
    BY DEF FirstFetch, StartsClean, FetchClean
  <1> QED
    BY <1>1, <1>2, <1>3, <1>4, <1>5 DEF IInv

\* A later list comes with no server, and both flags are down.
LEMMA FetchStep == IInv /\ Fetch => IInv'
  <1> SUFFICES ASSUME IInv, Fetch PROVE IInv'
    OBVIOUS
  <1>1. TypeOK'
    BY ListsAreCounts DEF IInv, TypeOK, Fetch, Places, watchdog, history
  <1>2. (ActiveListed /\ BannedNotActive)'
    BY DEF Fetch, ActiveListed, BannedNotActive
  <1>3. (FailureHasServer /\ StartsClean /\ FetchClean)'
    BY DEF IInv, Fetch, FetchClean, FailureHasServer, StartsClean, Failed
  <1> QED
    BY <1>1, <1>2, <1>3 DEF IInv

\* The server that failed is known and listed, so it can be banned and removed.
LEMMA GiveUpStep == IInv /\ GiveUp => IInv'
  <1> SUFFICES ASSUME IInv, GiveUp PROVE IInv'
    OBVIOUS
  <1>1. ban' \in [Server -> NotBanned..BanTime] /\ servers' \in [Server -> Nat]
    <2>1. CASE Failed
      <3>1. TypeOK /\ sel \in Server /\ servers[sel] > 0
        BY <2>1 DEF IInv, TypeOK, GiveUp, FailureHasServer, ActiveListed
      <3> QED
        BY <2>1, <3>1, BannedType, WithoutType DEF GiveUp
    <2>2. CASE ~Failed
      BY <2>2 DEF IInv, TypeOK, GiveUp
    <2> QED
      BY <2>1, <2>2
  <1>2. silent' \in BOOLEAN
    BY DEF IInv, TypeOK, GiveUp
  <1>3. TypeOK'
    BY <1>1, <1>2 DEF IInv, TypeOK, GiveUp, Places
  <1>4. pc' = "search"
    BY DEF GiveUp
  <1> QED
    BY <1>3, <1>4
    DEF IInv, ActiveListed, BannedNotActive, FailureHasServer, StartsClean, FetchClean

\* A banned server leaves the list; its counter stays above that of no ban.
LEMMA SkipStep ==
  ASSUME IInv, NEW s \in Server, Skip(s)
  PROVE  IInv'
  <1>1. servers' \in [Server -> Nat]
    BY WithoutType DEF IInv, Skip
  <1>2. ban' \in [Server -> NotBanned..BanTime]
    <2>1. ban[s] \in NotBanned..BanTime /\ ban[s] - 1 >= 0
      BY DEF IInv, TypeOK, Skip, IsBanned
    <2>2. ban[s] # NotBanned /\ ban[s] - 1 \in NotBanned..BanTime
      BY <2>1, ClientAssumption DEF ClientAssumption, NotBanned
    <2> QED
      BY <2>2 DEF IInv, TypeOK, Skip, Reduced
  <1>3. TypeOK'
    BY <1>1, <1>2 DEF IInv, TypeOK, Skip, watchdog, history
  <1>4. pc' = "search"
    BY DEF Skip
  <1> QED
    BY <1>3, <1>4
    DEF IInv, ActiveListed, BannedNotActive, FailureHasServer, StartsClean, FetchClean

\* The server chosen is listed and its ban is over.
LEMMA ChooseStep ==
  ASSUME IInv, NEW s \in Server, Choose(s)
  PROVE  IInv'
  <1>1. s # NoServer
    BY ClientAssumption DEF ClientAssumption
  <1>2. ban' \in [Server -> NotBanned..BanTime] /\ ban'[s] = NotBanned
    <2>1. ban[s] \in NotBanned..BanTime /\ ~(ban[s] - 1 >= 0)
      BY DEF IInv, TypeOK, Choose, IsBanned
    <2>2. ban[s] = NotBanned \/ ban[s] - 1 = NotBanned
      BY <2>1, ClientAssumption DEF ClientAssumption, NotBanned
    <2>3. NotBanned \in NotBanned..BanTime
      BY ClientAssumption DEF ClientAssumption, NotBanned
    <2> QED
      BY <2>2, <2>3 DEF IInv, TypeOK, Choose, Reduced
  <1>3. TypeOK'
    <2>1. waited' = 0
      BY DEF Choose, Fresh
    <2>2. waited' \in 0..2
      BY <2>1
    <2>3. /\ pc' = "loop" /\ sel' = s /\ silent' = FALSE
          /\ UNCHANGED <<servers, err, test, lastTest, pending, awaiting>>
      BY DEF Choose, watchdog
    <2> QED
      BY <1>2, <2>1, <2>2, <2>3 DEF IInv, TypeOK, Places
  <1>4. pc' = "loop" /\ sel' = s /\ servers'[s] > 0
    BY DEF Choose
  <1> QED
    BY <1>1, <1>2, <1>3, <1>4
    DEF IInv, ActiveListed, BannedNotActive, FailureHasServer, StartsClean, FetchClean

\* The list is used up: the error is forgotten.
LEMMA RunOutStep == IInv /\ RunOut => IInv'
  BY DEF IInv, TypeOK, RunOut, Places, ActiveListed, BannedNotActive,
         FailureHasServer, StartsClean, FetchClean, watchdog, history

-----------------------------------------------------------------------------
(* The steps at select, and those that leave the loop. *)

\* Commands, datagrams and ticks change neither the server nor the lists.
LEMMA SelectStep ==
  ASSUME IInv, AtSelect, TypeOK', UNCHANGED <<pc, sel, servers, ban>>
  PROVE  IInv'
  BY DEF IInv, AtSelect, ActiveListed, BannedNotActive, FailureHasServer,
         StartsClean, FetchClean

\* The timer.
LEMMA TickStep == IInv /\ Tick => IInv'
  <1> SUFFICES ASSUME IInv, Tick PROVE IInv'
    OBVIOUS
  <1>1. waited' \in 0..2
    BY DEF IInv, TypeOK, Tick
  <1>2. silent' \in BOOLEAN /\ test' \in BOOLEAN /\ lastTest' \in BOOLEAN
    BY DEF Tick
  <1>3. /\ AtSelect
        /\ UNCHANGED <<pc, sel, servers, ban, err, pending, awaiting>>
    BY DEF Tick
  <1>4. TypeOK'
    BY <1>1, <1>2, <1>3 DEF IInv, TypeOK
  <1> QED
    BY <1>3, <1>4, SelectStep

\* Datagrams.
LEMMA ReceiveStep == IInv /\ (Receive \/ ReceiveStray) => IInv'
  <1> SUFFICES ASSUME IInv, Receive \/ ReceiveStray PROVE IInv'
    OBVIOUS
  <1>1. CASE Receive
    <2>1. pending' \in 0..MaxPending
      BY <1>1, ClientAssumption DEF ClientAssumption, IInv, TypeOK, Receive
    <2>2. test' = FALSE /\ awaiting' = FALSE /\ waited' = 0
      BY <1>1 DEF Receive
    <2>3. /\ AtSelect
          /\ UNCHANGED <<pc, sel, servers, ban, err, silent, lastTest>>
      BY <1>1 DEF Receive
    <2>4. waited' \in 0..2
      BY <2>2
    <2>5. TypeOK'
      BY <2>1, <2>2, <2>3, <2>4 DEF IInv, TypeOK
    <2> QED
      BY <2>3, <2>5, SelectStep
  <1>2. CASE ReceiveStray
    <2>1. TypeOK'
      BY <1>2 DEF IInv, TypeOK, ReceiveStray, history
    <2> QED
      BY <1>2, <2>1, SelectStep DEF ReceiveStray
  <1> QED
    BY <1>1, <1>2

\* A request is sent or fails; either way the types stay.
LEMMA AskType ==
  ASSUME TypeOK, Ask
  PROVE  /\ err' \in BOOLEAN
         /\ test' \in BOOLEAN
         /\ awaiting' \in BOOLEAN
         /\ pending' \in 0..MaxPending
  <1>1. CASE Sent
    <2>1. pending' \in 0..MaxPending
      BY <1>1, ClientAssumption DEF ClientAssumption, TypeOK, Sent
    <2> QED
      BY <1>1, <2>1 DEF TypeOK, Sent, Ask
  <1>2. CASE err' = TRUE /\ UNCHANGED <<awaiting, pending>>
    BY <1>2 DEF TypeOK, Ask
  <1> QED
    BY <1>1, <1>2 DEF Ask

\* Commands.
LEMMA CommandStep == IInv /\ (Publish \/ ShowLatestMessages) => IInv'
  <1> SUFFICES ASSUME IInv, Publish \/ ShowLatestMessages PROVE IInv'
    OBVIOUS
  <1>1. /\ AtSelect
        /\ UNCHANGED <<pc, sel, servers, ban, silent, lastTest, waited>>
    BY DEF Publish, ShowLatestMessages
  <1>2. Ask \/ (err' = TRUE /\ UNCHANGED <<test, awaiting, pending>>)
    BY DEF Publish, ShowLatestMessages
  <1>3. /\ err' \in BOOLEAN
        /\ test' \in BOOLEAN
        /\ awaiting' \in BOOLEAN
        /\ pending' \in 0..MaxPending
    BY <1>2, AskType DEF IInv, TypeOK
  <1>4. TypeOK'
    BY <1>1, <1>3 DEF IInv, TypeOK
  <1> QED
    BY <1>1, <1>4, SelectStep

\* PROGRAM_EXIT is reached with everything as it is.
LEMMA ExitStep == IInv /\ (Exit \/ FetchFails) => IInv'
  BY DEF IInv, TypeOK, Exit, FetchFails, Places, ActiveListed, BannedNotActive,
         FailureHasServer, StartsClean, FetchClean, watchdog, history

\* Every step keeps the invariant.
LEMMA NextInvariant == IInv /\ [Next]_vars => IInv'
  <1> SUFFICES ASSUME IInv, [Next]_vars PROVE IInv'
    OBVIOUS
  <1>1. CASE Run
    BY <1>1, FirstFetchStep, FetchStep, ExitStep, GiveUpStep, SkipStep,
       ChooseStep, RunOutStep DEF Run
  <1>2. CASE Tick
    BY <1>2, TickStep
  <1>3. CASE Receive \/ ReceiveStray
    BY <1>3, ReceiveStep
  <1>4. CASE Publish \/ ShowLatestMessages
    BY <1>4, CommandStep
  <1>5. CASE Exit
    BY <1>5, ExitStep
  <1>6. CASE UNCHANGED vars
    BY <1>6 DEF vars, watchdog, history, IInv, TypeOK, ActiveListed,
                BannedNotActive, FailureHasServer, StartsClean, FetchClean, Failed
  <1> QED
    BY <1>1, <1>2, <1>3, <1>4, <1>5, <1>6 DEF Next

\* The inductive invariant holds in every state.
LEMMA Invariance == Spec => []IInv
  <1>1. Init => IInv
    BY InitInvariant
  <1>2. IInv /\ [Next]_vars => IInv'
    BY NextInvariant
  <1> QED
    BY <1>1, <1>2, PTL DEF Spec

-----------------------------------------------------------------------------
(* The theorems. *)

\* The variables keep their types: a ban counter stays between none and
\* SERVER_BAN_TIME, and no server is listed less than not at all.
THEOREM TypeCorrect == Spec => []TypeOK
  <1>1. IInv => TypeOK
    BY DEF IInv
  <1> QED
    BY <1>1, Invariance, PTL

\* The server selected is in the list whose nodes own it.
THEOREM ActiveAlwaysListed == Spec => []ActiveListed
  <1>1. IInv => ActiveListed
    BY DEF IInv
  <1> QED
    BY <1>1, Invariance, PTL

\* No server is worked with while its ban runs.
THEOREM BannedNeverActive == Spec => []BannedNotActive
  <1>1. IInv => BannedNotActive
    BY DEF IInv
  <1> QED
    BY <1>1, Invariance, PTL

\* Failures are on record only with the server they are of.
THEOREM FailuresHaveServers == Spec => []FailureHasServer
  <1>1. IInv => FailureHasServer
    BY DEF IInv
  <1> QED
    BY <1>1, Invariance, PTL

=============================================================================
