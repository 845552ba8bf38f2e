---------------------------- MODULE IdServProofs ----------------------------
(***************************************************************************)
(* Proofs about IdServ, for any number of registrations and requests.      *)
(***************************************************************************)
EXTENDS IdServ, SequenceTheorems, TLAPS

Cell == Entry \cup {NoEntry}

-----------------------------------------------------------------------------
(* The array of a list that grows. *)

ListOK ==
  /\ arrays \in Seq(Seq(Cell))
  /\ arrays # <<>>
  /\ size \in 0..Len(arrays[Len(arrays)])

\* The array append allocates: longer than the list, with the list's cells.
LEMMA GrownFacts ==
  ASSUME NEW a \in Seq(Cell)
  PROVE  /\ Grown(a) \in Seq(Cell)
         /\ Len(Grown(a)) \in Nat
         /\ Len(Grown(a)) > Len(a)
         /\ \A i \in 1..Len(a) : Grown(a)[i] = a[i]
  <1> DEFINE n == IF Len(a) = 0 THEN 1 ELSE 2 * Len(a)
  <1>1. Len(a) \in Nat /\ n \in Nat /\ n > Len(a)
    OBVIOUS
  <1>2. \A i \in 1..n : (IF i \in DOMAIN a THEN a[i] ELSE NoEntry) \in Cell
    BY DEF Cell
  <1>3. Grown(a) = [i \in 1..n |-> IF i \in DOMAIN a THEN a[i] ELSE NoEntry]
    BY DEF Grown
  <1> HIDE DEF n
  <1>4. Grown(a) \in Seq(Cell) /\ Len(Grown(a)) = n
    BY <1>1, <1>2, <1>3
  <1>5. \A i \in 1..Len(a) : Grown(a)[i] = a[i]
    BY <1>1, <1>3
  <1> QED
    BY <1>1, <1>4, <1>5

\* append writes one cell, the one behind the list, in the array of the list
\* or in a new one that starts with the list.
LEMMA AppendedFacts ==
  ASSUME ListOK, NEW e \in Entry
  PROVE  LET A == Appended(e)
         IN  /\ A \in Seq(Seq(Cell))
             /\ Len(A) \in Nat
             /\ Len(A) = Len(arrays) \/ Len(A) = Len(arrays) + 1
             /\ \A k \in 1..Len(arrays) :
                  /\ Len(A[k]) = Len(arrays[k])
                  /\ \A i \in 1..Len(arrays[k]) :
                       A[k][i] = arrays[k][i] \/ (k = Len(arrays) /\ i = size + 1 /\ A[k][i] = e)
             /\ size + 1 \in 1..Len(A[Len(A)])
             /\ A[Len(A)][size + 1] = e
             /\ \A i \in 1..size : A[Len(A)][i] = arrays[Len(arrays)][i]
  <1> DEFINE n == Len(arrays)
             a == arrays[n]
             A == Appended(e)
  <1>1. n \in Nat /\ n > 0 /\ a \in Seq(Cell) /\ Len(a) \in Nat /\ size \in 0..Len(a) /\ size \in Nat
    BY DEF ListOK
  <1>2. e \in Cell
    BY DEF Cell
  <1>3. CASE size < Len(a)
    <2> DEFINE b == [a EXCEPT ![size + 1] = e]
    <2>1. b \in Seq(Cell) /\ Len(b) = Len(a) /\ b[size + 1] = e
          /\ \A i \in 1..Len(a) : i # size + 1 => b[i] = a[i]
      BY <1>1, <1>2, <1>3
    <2>2. A = [arrays EXCEPT ![n] = b]
      BY <1>3 DEF Appended
    <2> HIDE DEF b
    <2>3. A \in Seq(Seq(Cell)) /\ Len(A) = n /\ A[n] = b
          /\ \A k \in 1..n : k # n => A[k] = arrays[k]
      BY <2>1, <2>2, <1>1 DEF ListOK
    <2>4. size + 1 \in 1..Len(b)
      BY <2>1, <1>1, <1>3
    <2>5. \A i \in 1..size : i \in 1..Len(a) /\ i # size + 1
      BY <1>1
    <2>6. ASSUME NEW k \in 1..n
          PROVE  /\ Len(A[k]) = Len(arrays[k])
                 /\ \A i \in 1..Len(arrays[k]) :
                      A[k][i] = arrays[k][i] \/ (k = n /\ i = size + 1 /\ A[k][i] = e)
      <3>1. CASE k = n
        BY <3>1, <2>1, <2>3
      <3>2. CASE k # n
        BY <3>2, <2>3
      <3> QED
        BY <3>1, <3>2
    <2> HIDE DEF A, n, a
    <2>7. A \in Seq(Seq(Cell)) /\ Len(A) \in Nat /\ (Len(A) = n \/ Len(A) = n + 1)
      BY <2>3, <1>1
    <2>8. /\ size + 1 \in 1..Len(A[Len(A)])
          /\ A[Len(A)][size + 1] = e
          /\ \A i \in 1..size : A[Len(A)][i] = a[i]
      BY <2>1, <2>3, <2>4, <2>5
    <2> QED
      BY <2>6, <2>7, <2>8 DEF A, n, a
  <1>4. CASE ~(size < Len(a))
    <2> DEFINE g == Grown(a)
               b == [g EXCEPT ![size + 1] = e]
    <2>1. /\ g \in Seq(Cell) /\ Len(g) \in Nat /\ Len(g) > Len(a)
          /\ \A i \in 1..Len(a) : g[i] = a[i]
      BY <1>1, GrownFacts
    <2>2. A = Append(arrays, b)
      BY <1>4 DEF Appended
    <2> HIDE DEF g
    <2>3. size = Len(a) /\ size + 1 \in 1..Len(g)
      BY <2>1, <1>1, <1>4
    <2>4. b \in Seq(Cell) /\ Len(b) = Len(g) /\ b[size + 1] = e
          /\ \A i \in 1..size : b[i] = g[i]
      BY <2>1, <2>3, <1>1, <1>2
    <2> HIDE DEF b
    <2>5. A \in Seq(Seq(Cell)) /\ Len(A) = n + 1 /\ A[n + 1] = b
          /\ \A k \in 1..n : A[k] = arrays[k]
      BY <2>2, <2>4, <1>1 DEF ListOK
    <2> HIDE DEF A, n, a
    <2>6. A \in Seq(Seq(Cell)) /\ Len(A) \in Nat /\ (Len(A) = n \/ Len(A) = n + 1)
      BY <2>5, <1>1
    <2>7. /\ size + 1 \in 1..Len(A[Len(A)])
          /\ A[Len(A)][size + 1] = e
          /\ \A i \in 1..size : A[Len(A)][i] = a[i]
      BY <2>1, <2>3, <2>4, <2>5
    <2> QED
      BY <2>5, <2>6, <2>7 DEF A, n, a
  <1> QED
    BY <1>3, <1>4

-----------------------------------------------------------------------------
(* The invariant. *)

QueueOK ==
  /\ regs \in [Entry -> Nat]
  /\ serverRecv \in Seq(Entry)
  /\ count \in Nat

AskersOK ==
  /\ asker \in [Request -> {"unread", "ask", "wait", "have", "done"}]
  /\ sending \in BOOLEAN
  /\ timer \in BOOLEAN
  /\ listed \in [Request -> SUBSET (Entry \cup {NoEntry})]
  /\ alone \subseteq Request

SlicesOK ==
  /\ slice \in [Request -> (1..Len(arrays)) \X Nat]
  /\ \A r \in Request : slice[r][2] <= Len(arrays[slice[r][1]])

AnswersOK == answer \in [Request -> Seq(Entry \cup {NoEntry, Mixed})]

LEMMA TypeParts ==
  TypeOK <=> QueueOK /\ AskersOK /\ ListOK /\ SlicesOK /\ AnswersOK
  BY DEF TypeOK, QueueOK, AskersOK, ListOK, SlicesOK, AnswersOK, Cell

\* Until the list is wiped no slice reaches past its end, where append writes.
NotAhead ==
  timer => \A r \in Request : slice[r][1] = Len(arrays) => slice[r][2] <= size

\* What r will have been answered with holds what was listed, and while r
\* waits nobody else asks.
Waits(r) == asker[r] \in {"ask", "wait"}
CellsOf(k, n) == {arrays[k][i] : i \in 1..n}
AloneInv ==
  \A r \in alone :
    /\ asker[r] # "unread"
    /\ Waits(r) => \A q \in Request : Waits(q) => q = r
    /\ timer /\ Waits(r) => listed[r] \subseteq CellsOf(Len(arrays), size)
    /\ timer /\ asker[r] = "have" => listed[r] \subseteq CellsOf(slice[r][1], slice[r][2])
    /\ timer /\ asker[r] = "done" => listed[r] \subseteq ToSet(answer[r])

IInv ==
  /\ TypeOK
  /\ OneWaits
  /\ NotAhead
  /\ AloneInv

-----------------------------------------------------------------------------
(* What a slice holds. *)

LEMMA PrefixFacts ==
  ASSUME NEW S, NEW a \in Seq(S), NEW n \in 0..Len(a)
  PROVE  /\ SubSeq(a, 1, n) \in Seq(S)
         /\ Len(SubSeq(a, 1, n)) = n
         /\ \A i \in 1..n : SubSeq(a, 1, n)[i] = a[i]
         /\ ToSet(SubSeq(a, 1, n)) = {a[i] : i \in 1..n}
  <1>1. /\ SubSeq(a, 1, n) \in Seq(S)
        /\ Len(SubSeq(a, 1, n)) = n
        /\ \A i \in 1..n : SubSeq(a, 1, n)[i] = a[i]
    OBVIOUS
  <1>2. DOMAIN SubSeq(a, 1, n) = 1..n
    BY <1>1
  <1> QED
    BY <1>1, <1>2 DEF ToSet

LEMMA OverwriteType ==
  ASSUME NEW S, NEW a \in Seq(S), NEW i, NEW x \in S
  PROVE  [a EXCEPT ![i] = x] \in Seq(S)
  <1>1. Len(a) \in Nat /\ a \in [1..Len(a) -> S]
    OBVIOUS
  <1>2. [a EXCEPT ![i] = x] \in [1..Len(a) -> S]
    BY <1>1
  <1> QED
    BY <1>1, <1>2, IsASeq

LEMMA ServersFacts ==
  ASSUME ListOK
  PROVE  /\ ToSet(Servers) = CellsOf(Len(arrays), size)
         /\ ToSet(Servers) \subseteq Cell
  <1>1. arrays[Len(arrays)] \in Seq(Cell) /\ size \in 0..Len(arrays[Len(arrays)])
    BY DEF ListOK
  <1>2. ToSet(Servers) = {arrays[Len(arrays)][i] : i \in 1..size}
    BY <1>1, PrefixFacts DEF Servers
  <1>3. \A i \in 1..size : arrays[Len(arrays)][i] \in Cell
    BY <1>1
  <1> QED
    BY <1>2, <1>3 DEF CellsOf

LEMMA ContentFacts ==
  ASSUME ListOK, SlicesOK, NEW r \in Request
  PROVE  /\ Content(slice[r]) \in Seq(Cell)
         /\ Len(Content(slice[r])) = slice[r][2]
         /\ ToSet(Content(slice[r])) = CellsOf(slice[r][1], slice[r][2])
  <1>1. arrays[slice[r][1]] \in Seq(Cell) /\ slice[r][2] \in 0..Len(arrays[slice[r][1]])
    <2>1. slice[r][1] \in 1..Len(arrays) /\ slice[r][2] \in Nat
      BY DEF SlicesOK
    <2>2. arrays[slice[r][1]] \in Seq(Cell)
      BY <2>1 DEF ListOK
    <2> QED
      BY <2>1, <2>2 DEF SlicesOK
  <1> QED
    BY <1>1, PrefixFacts DEF Content, CellsOf

-----------------------------------------------------------------------------
(* Initial states. *)

LEMMA InitInvariant == Init => IInv
  <1> SUFFICES ASSUME Init PROVE IInv
    OBVIOUS
  <1>1. Len(arrays) = 1 /\ arrays[1] = <<>> /\ Len(arrays[1]) = 0 /\ arrays # <<>>
    BY DEF Init
  <1>2. ListOK
    <2>1. <<>> \in Seq(Cell)
      OBVIOUS
    <2>2. << <<>> >> \in Seq(Seq(Cell))
      BY <2>1
    <2> QED
      BY <1>1, <2>2 DEF Init, ListOK
  <1>3. SlicesOK
    BY <1>1 DEF Init, SlicesOK, Nil
  <1>4. AnswersOK
    <2>1. <<NoEntry>> \in Seq(Entry \cup {NoEntry, Mixed})
      OBVIOUS
    <2> QED
      BY <2>1 DEF Init, AnswersOK, Unanswered
  <1>5. QueueOK /\ AskersOK
    <2>1. QueueOK
      BY DEF Init, QueueOK
    <2>2. asker \in [Request -> {"unread", "ask", "wait", "have", "done"}]
      BY DEF Init
    <2>3. listed \in [Request -> SUBSET (Entry \cup {NoEntry})] /\ alone \subseteq Request
      BY DEF Init
    <2> QED
      BY <2>1, <2>2, <2>3 DEF Init, AskersOK
  <1>6. NotAhead
    BY <1>1 DEF Init, NotAhead, Nil
  <1>7. OneWaits /\ AloneInv
    BY DEF Init, OneWaits, AloneInv
  <1> QED
    BY <1>2, <1>3, <1>4, <1>5, <1>6, <1>7, TypeParts DEF IInv

-----------------------------------------------------------------------------
(* The steps. *)

\* What an addition does to the list and to the slices held.
LEMMA ReceivedStep ==
  ASSUME IInv, Received, UNCHANGED <<slice, timer>>
  PROVE  /\ serverRecv' \in Seq(Entry)
         /\ ListOK'
         /\ SlicesOK'
         /\ NotAhead'
         /\ Servers'[size + 1] \in Entry
         /\ CellsOf(Len(arrays), size) \subseteq CellsOf(Len(arrays), size)'
         /\ timer => \A r \in Request :
              CellsOf(slice[r][1], slice[r][2])' = CellsOf(slice[r][1], slice[r][2])
  <1> DEFINE e == Head(serverRecv)
             n == Len(arrays)
             A == Appended(e)
  <1>1. QueueOK /\ AskersOK /\ ListOK /\ SlicesOK /\ AnswersOK
    BY TypeParts DEF IInv
  <1>2. e \in Entry /\ serverRecv' \in Seq(Entry)
    BY <1>1 DEF Received, QueueOK
  <1>3. arrays' = A /\ size' = size + 1 /\ slice' = slice /\ timer' = timer
    BY DEF Received
  <1>4. /\ n \in Nat /\ n > 0 /\ size \in Nat /\ size \in 0..Len(arrays[n])
        /\ \A r \in Request : /\ slice[r][1] \in 1..n
                             /\ slice[r][2] \in Nat
                             /\ slice[r][2] <= Len(arrays[slice[r][1]])
        /\ \A k \in 1..n : Len(arrays[k]) \in Nat
    BY <1>1 DEF ListOK, SlicesOK
  <1>5. /\ A \in Seq(Seq(Cell))
        /\ Len(A) \in Nat
        /\ Len(A) = n \/ Len(A) = n + 1
        /\ \A k \in 1..n :
             /\ Len(A[k]) = Len(arrays[k])
             /\ \A i \in 1..Len(arrays[k]) :
                  A[k][i] = arrays[k][i] \/ (k = n /\ i = size + 1 /\ A[k][i] = e)
        /\ size + 1 \in 1..Len(A[Len(A)])
        /\ A[Len(A)][size + 1] = e
        /\ \A i \in 1..size : A[Len(A)][i] = arrays[n][i]
    BY <1>1, <1>2, AppendedFacts
  <1> HIDE DEF A, e
  <1>6. ListOK'
    BY <1>3, <1>4, <1>5 DEF ListOK
  <1>7. SlicesOK'
    <2>1. slice \in [Request -> (1..n) \X Nat]
      BY <1>1 DEF SlicesOK
    <2>2. 1..n \subseteq 1..Len(A)
      BY <1>4, <1>5
    <2>3. slice' \in [Request -> (1..Len(A)) \X Nat]
      BY <1>3, <2>1, <2>2
    <2>4. \A r \in Request : slice'[r][2] <= Len(A[slice'[r][1]])
      BY <1>3, <1>4, <1>5
    <2> QED
      BY <1>3, <2>3, <2>4 DEF SlicesOK
  <1>8. \A r \in Request : \A i \in 1..slice[r][2] : i \in 1..Len(arrays[slice[r][1]])
    BY <1>4
  <1>10. NotAhead'
    <2>1. ASSUME timer, NEW r \in Request, slice[r][1] = Len(A) PROVE slice[r][2] <= size + 1
      <3>1. slice[r][1] = n
        BY <1>4, <1>5, <2>1
      <3>2. slice[r][2] <= size
        BY <2>1, <3>1 DEF IInv, NotAhead
      <3> QED
        BY <1>4, <3>2
    <2> QED
      BY <1>3, <2>1 DEF NotAhead
  <1>11. Servers'[size + 1] \in Entry
    <2>1. /\ A[Len(A)] \in Seq(Cell)
          /\ size + 1 \in 0..Len(A[Len(A)])
          /\ size + 1 \in 1..(size + 1)
      BY <1>4, <1>5
    <2>2. Servers' = SubSeq(A[Len(A)], 1, size + 1)
      BY <1>3 DEF Servers
    <2>3. Servers'[size + 1] = A[Len(A)][size + 1]
      BY <2>1, <2>2, PrefixFacts
    <2> QED
      BY <1>2, <1>5, <2>3
  <1>12. CellsOf(Len(arrays), size) \subseteq CellsOf(Len(arrays), size)'
    <2>1. 1..size \subseteq 1..(size + 1)
      BY <1>4
    <2> QED
      BY <1>3, <1>5, <2>1 DEF CellsOf
  <1>13. ASSUME timer, NEW r \in Request
         PROVE  CellsOf(slice[r][1], slice[r][2])' = CellsOf(slice[r][1], slice[r][2])
    <2>1. ASSUME NEW i \in 1..slice[r][2] PROVE A[slice[r][1]][i] = arrays[slice[r][1]][i]
      <3>1. slice[r][1] \in 1..n /\ i \in 1..Len(arrays[slice[r][1]])
        BY <1>4, <1>8
      <3>2. slice[r][1] = n => i # size + 1
        <4>1. slice[r][1] = n => slice[r][2] <= size
          BY <1>13 DEF IInv, NotAhead
        <4> QED
          BY <4>1, <1>4
      <3> QED
        BY <1>5, <3>1, <3>2
    <2> QED
      BY <1>3, <2>1 DEF CellsOf
  <1> QED
    BY <1>2, <1>6, <1>7, <1>10, <1>11, <1>12, <1>13

\* The parts of the invariant that a step leaves alone with the variables.
LEMMA Same ==
  ASSUME IInv
  PROVE  /\ UNCHANGED channels => QueueOK'
         /\ UNCHANGED list => ListOK'
         /\ UNCHANGED <<list, slice>> =>
              SlicesOK' /\ NotAhead' /\ UNCHANGED CellsOf(Len(arrays), size)
              /\ \A r \in Request : UNCHANGED CellsOf(slice[r][1], slice[r][2])
         /\ UNCHANGED answer => AnswersOK'
         /\ UNCHANGED <<asker, sending>> => OneWaits'
  <1>1. QueueOK /\ AskersOK /\ ListOK /\ SlicesOK /\ AnswersOK /\ NotAhead
    BY TypeParts DEF IInv
  <1>2. UNCHANGED channels => QueueOK'
    BY <1>1 DEF channels, QueueOK
  <1>3. UNCHANGED list => ListOK'
    BY <1>1 DEF list, ListOK
  <1>4. UNCHANGED <<list, slice>> => SlicesOK' /\ NotAhead'
    BY <1>1 DEF list, SlicesOK, NotAhead
  <1>5. UNCHANGED <<list, slice>> =>
          /\ UNCHANGED CellsOf(Len(arrays), size)
          /\ \A r \in Request : UNCHANGED CellsOf(slice[r][1], slice[r][2])
    BY DEF list, CellsOf
  <1>6. /\ UNCHANGED answer => AnswersOK'
        /\ UNCHANGED <<asker, sending>> => OneWaits'
    BY <1>1 DEF IInv, AnswersOK, OneWaits
  <1> QED
    BY <1>2, <1>3, <1>4, <1>5, <1>6

\* A registration comes nearer to the list.
LEMMA RegStep ==
  ASSUME IInv, NEW e \in Entry, ReadReg(e) \/ PutReg(e)
  PROVE  IInv'
  <1>1. QueueOK'
    <2>1. QueueOK
      BY TypeParts DEF IInv
    <2>2. CASE ReadReg(e)
      BY <2>1, <2>2 DEF ReadReg, QueueOK
    <2>3. CASE PutReg(e)
      <3>1. regs' \in [Entry -> Nat]
        BY <2>1, <2>3 DEF PutReg, QueueOK
      <3>2. serverRecv' \in Seq(Entry)
        BY <2>1, <2>3 DEF PutReg, QueueOK
      <3> QED
        BY <2>1, <2>3, <3>1, <3>2 DEF PutReg, QueueOK
    <2> QED
      BY <2>2, <2>3
  <1>2. UNCHANGED <<asker, slice, answer, sending, list, history, timer>>
    BY DEF ReadReg, PutReg, list
  <1>3. ListOK' /\ SlicesOK' /\ AnswersOK' /\ NotAhead' /\ OneWaits'
    BY <1>2, Same
  <1>4. AskersOK'
    BY <1>2, TypeParts DEF IInv, AskersOK, history, list
  <1>5. AloneInv'
    <2>1. UNCHANGED CellsOf(Len(arrays), size)
          /\ \A r \in Request : UNCHANGED CellsOf(slice[r][1], slice[r][2])
      BY <1>2, Same
    <2>2. alone \subseteq Request
      BY <1>2, TypeParts DEF IInv, AskersOK
    <2> QED
      BY <1>2, <2>1, <2>2 DEF IInv, AloneInv, Waits, history
  <1>6. TypeOK'
    BY <1>1, <1>3, <1>4 DEF TypeOK, QueueOK, AskersOK, ListOK, SlicesOK, AnswersOK, Cell
  <1> QED
    BY <1>3, <1>5, <1>6 DEF IInv

\* A request is read: those that wait are no longer alone.
LEMMA ReadGetStep ==
  ASSUME IInv, NEW r \in Request, ReadGet(r)
  PROVE  IInv'
  <1>1. UNCHANGED <<channels, slice, answer, sending, list, timer>>
    BY DEF ReadGet, list
  <1>2. QueueOK' /\ ListOK' /\ SlicesOK' /\ AnswersOK' /\ NotAhead'
        /\ UNCHANGED CellsOf(Len(arrays), size)
        /\ \A q \in Request : UNCHANGED CellsOf(slice[q][1], slice[q][2])
    BY <1>1, Same
  <1>3. AskersOK /\ ListOK
    BY TypeParts DEF IInv
  <1>4. /\ asker[r] = "unread" /\ asker' = [asker EXCEPT ![r] = "ask"]
        /\ listed' = [listed EXCEPT ![r] = ToSet(Servers)]
        /\ alone' = IF Pending = {} THEN alone \cup {r} ELSE alone \ Pending
    BY DEF ReadGet
  <1>5. ToSet(Servers) = CellsOf(Len(arrays), size) /\ ToSet(Servers) \subseteq Entry \cup {NoEntry}
    BY <1>3, ServersFacts DEF Cell
  <1>6. AskersOK'
    BY <1>1, <1>3, <1>4, <1>5 DEF AskersOK
  <1>7. OneWaits'
    BY <1>1, <1>3, <1>4 DEF IInv, OneWaits, AskersOK
  <1>8. ASSUME NEW q \in Request
        PROVE  /\ q # r => asker'[q] = asker[q] /\ listed'[q] = listed[q]
               /\ q # r => (Waits(q)' <=> q \in Pending)
               /\ Waits(q) <=> q \in Pending
    <2>1. q # r => asker'[q] = asker[q] /\ listed'[q] = listed[q]
      BY <1>3, <1>4 DEF AskersOK
    <2>2. Waits(q) <=> q \in Pending
      BY DEF Waits, Pending
    <2>3. q # r => (Waits(q)' <=> Waits(q))
      BY <2>1 DEF Waits
    <2> QED
      BY <2>1, <2>2, <2>3
  <1>9. asker'[r] = "ask" /\ listed'[r] = CellsOf(Len(arrays), size)
    BY <1>3, <1>4, <1>5 DEF AskersOK
  <1>10. AloneInv'
    <2>1. ASSUME NEW q \in alone'
          PROVE  /\ asker'[q] # "unread"
                 /\ Waits(q)' => \A p \in Request : Waits(p)' => p = q
                 /\ timer /\ Waits(q)' => listed'[q] \subseteq CellsOf(Len(arrays), size)
                 /\ timer /\ asker'[q] = "have" => listed'[q] \subseteq CellsOf(slice[q][1], slice[q][2])
                 /\ timer /\ asker'[q] = "done" => listed'[q] \subseteq ToSet(answer[q])
      <3>1. q \in Request /\ (q = r \/ q \in alone)
        BY <1>3, <1>4 DEF AskersOK
      <3>2. CASE q = r
        <4>1. Pending = {}
          BY <3>2, <1>4 DEF IInv, AloneInv
        <4>2. ASSUME NEW p \in Request, p # r PROVE ~Waits(p)'
          BY <4>1, <4>2, <1>8
        <4> QED
          BY <4>2, <3>2, <1>9
      <3>3. CASE q # r
        <4>1. q \in alone /\ asker'[q] = asker[q] /\ listed'[q] = listed[q]
          BY <3>1, <3>3, <1>8
        <4>2. q \notin Pending
          BY <1>4, <3>3
        <4>3. ~Waits(q) /\ ~Waits(q)'
          BY <3>1, <3>3, <4>2, <1>8
        <4> QED
          BY <4>1, <4>3 DEF IInv, AloneInv
      <3> QED
        BY <3>2, <3>3
    <2> QED
      BY <1>1, <1>2, <1>6, <2>1 DEF AloneInv, AskersOK
  <1>11. TypeOK'
    BY <1>2, <1>6 DEF TypeOK, QueueOK, AskersOK, ListOK, SlicesOK, AnswersOK, Cell
  <1> QED
    BY <1>2, <1>7, <1>10, <1>11 DEF IInv

\* An addition shows in the list and in no slice that is held.
LEMMA AddStep == IInv /\ Add => IInv'
  <1> SUFFICES ASSUME IInv, Add PROVE IInv'
    OBVIOUS
  <1>1. Received /\ UNCHANGED <<regs, asker, slice, answer, sending, timer, count, history>>
    BY DEF Add
  <1>2. /\ serverRecv' \in Seq(Entry) /\ ListOK' /\ SlicesOK' /\ NotAhead'
        /\ CellsOf(Len(arrays), size) \subseteq CellsOf(Len(arrays), size)'
        /\ timer => \A r \in Request :
             CellsOf(slice[r][1], slice[r][2])' = CellsOf(slice[r][1], slice[r][2])
    BY <1>1, ReceivedStep
  <1>3. QueueOK' /\ AskersOK' /\ AnswersOK' /\ OneWaits'
    <2>1. QueueOK /\ AskersOK
      BY TypeParts DEF IInv
    <2>2. QueueOK' /\ AskersOK'
      BY <1>1, <1>2, <2>1 DEF QueueOK, AskersOK, history
    <2> QED
      BY <1>1, <2>2, Same
  <1>4. AloneInv'
    <2>1. alone \subseteq Request /\ UNCHANGED <<asker, answer, timer, listed, alone>>
      BY <1>1, TypeParts DEF IInv, AskersOK, history
    <2> QED
      BY <1>2, <2>1 DEF IInv, AloneInv, Waits
  <1>5. TypeOK'
    BY <1>2, <1>3 DEF TypeOK, QueueOK, AskersOK, ListOK, SlicesOK, AnswersOK, Cell
  <1> QED
    BY <1>2, <1>3, <1>4, <1>5 DEF IInv

\* With the timer nothing is promised any more but what is true of every cell.
LEMMA WipeStep == IInv /\ Wipe => IInv'
  <1> SUFFICES ASSUME IInv, Wipe PROVE IInv'
    OBVIOUS
  <1>1. timer' = FALSE /\ size' = 0 /\ UNCHANGED <<channels, asker, slice, answer, sending, arrays, history>>
    BY DEF Wipe
  <1>2. QueueOK /\ AskersOK /\ ListOK /\ SlicesOK /\ AnswersOK
    BY TypeParts DEF IInv
  <1>3. QueueOK' /\ AnswersOK' /\ OneWaits'
    BY <1>1, Same
  <1>4. AskersOK' /\ SlicesOK'
    BY <1>1, <1>2 DEF AskersOK, SlicesOK, history
  <1>5. ListOK'
    <2>1. arrays[Len(arrays)] \in Seq(Cell)
      BY <1>2 DEF ListOK
    <2>2. 0 \in 0..Len(arrays[Len(arrays)])
      BY <2>1
    <2> QED
      BY <1>1, <1>2, <2>2 DEF ListOK
  <1>7. NotAhead'
    BY <1>1 DEF NotAhead
  <1>8. AloneInv'
    BY <1>1 DEF IInv, AloneInv, Waits, history
  <1>9. TypeOK'
    BY <1>3, <1>4, <1>5 DEF TypeOK, QueueOK, AskersOK, ListOK, SlicesOK, AnswersOK, Cell
  <1> QED
    BY <1>3, <1>7, <1>8, <1>9 DEF IInv

\* The main goroutine takes a request: it was not sending, so nobody waited.
LEMMA AskStep ==
  ASSUME IInv, NEW r \in Request, Ask(r)
  PROVE  IInv'
  <1>1. /\ UNCHANGED <<channels, slice, answer, list, history, timer>>
        /\ ~sending /\ sending' = TRUE
        /\ asker[r] = "ask" /\ asker' = [asker EXCEPT ![r] = "wait"]
    BY DEF Ask, list
  <1>2. QueueOK' /\ ListOK' /\ SlicesOK' /\ AnswersOK' /\ NotAhead'
        /\ UNCHANGED CellsOf(Len(arrays), size)
        /\ \A q \in Request : UNCHANGED CellsOf(slice[q][1], slice[q][2])
    BY <1>1, Same
  <1>3. AskersOK
    BY TypeParts DEF IInv
  <1>4. AskersOK'
    BY <1>1, <1>3 DEF AskersOK, history
  <1>5. asker'[r] = "wait" /\ \A q \in Request : q # r => asker'[q] = asker[q]
    BY <1>1, <1>3 DEF AskersOK
  <1>6. OneWaits'
    BY <1>1, <1>5 DEF IInv, OneWaits
  <1>8. \A q \in Request : Waits(q)' <=> Waits(q)
    BY <1>1, <1>5 DEF Waits
  <1>9. AloneInv'
    <2>1. alone \subseteq Request /\ UNCHANGED <<answer, timer, listed, alone>>
      BY <1>1, <1>3 DEF AskersOK, history
    <2> QED
      BY <1>1, <1>2, <1>5, <1>8, <2>1 DEF IInv, AloneInv
  <1>10. TypeOK'
    BY <1>2, <1>4 DEF TypeOK, QueueOK, AskersOK, ListOK, SlicesOK, AnswersOK, Cell
  <1> QED
    BY <1>2, <1>6, <1>9, <1>10 DEF IInv

\* A request takes another's nil, and the other waits in its place.
LEMMA CrossStep ==
  ASSUME IInv, NEW q \in Request, NEW r \in Request, Cross(q, r)
  PROVE  IInv'
  <1>1. /\ UNCHANGED <<channels, answer, sending, list, history, timer>>
        /\ asker[q] = "ask" /\ asker[r] = "wait"
        /\ asker' = [asker EXCEPT ![q] = "wait", ![r] = "have"]
        /\ slice' = [slice EXCEPT ![r] = Nil]
    BY DEF Cross, list
  <1>2. AskersOK /\ ListOK /\ SlicesOK /\ NotAhead
    BY TypeParts DEF IInv
  <1>3. QueueOK' /\ ListOK' /\ AnswersOK'
    BY <1>1, Same
  <1>4. AskersOK'
    BY <1>1, <1>2 DEF AskersOK, history
  <1>5. /\ q # r /\ asker'[q] = "wait" /\ asker'[r] = "have"
        /\ \A p \in Request : p # q /\ p # r => asker'[p] = asker[p]
    BY <1>1, <1>2 DEF AskersOK
  <1>6. /\ slice'[r] = <<1, 0>>
        /\ \A p \in Request : p # r => slice'[p] = slice[p]
        /\ UNCHANGED <<arrays, size, timer>>
    BY <1>1, <1>2 DEF SlicesOK, Nil, list
  <1>7. 1 \in 1..Len(arrays) /\ Len(arrays[1]) \in Nat /\ size \in Nat
    BY <1>2 DEF ListOK
  <1>8. SlicesOK'
    <2>1. slice' \in [Request -> (1..Len(arrays)) \X Nat]
      BY <1>1, <1>2, <1>7 DEF SlicesOK, Nil
    <2>2. ASSUME NEW p \in Request PROVE slice'[p][2] <= Len(arrays[slice'[p][1]])
      <3>1. CASE p = r
        BY <3>1, <1>6, <1>7
      <3>2. CASE p # r
        BY <3>2, <1>2, <1>6 DEF SlicesOK
      <3> QED
        BY <3>1, <3>2
    <2> QED
      BY <1>6, <2>1, <2>2 DEF SlicesOK
  <1>10. NotAhead'
    <2>1. ASSUME timer, NEW p \in Request, slice'[p][1] = Len(arrays)
          PROVE  slice'[p][2] <= size
      <3>1. CASE p = r
        BY <3>1, <1>6, <1>7
      <3>2. CASE p # r
        BY <2>1, <3>2, <1>2, <1>6 DEF NotAhead
      <3> QED
        BY <3>1, <3>2
    <2> QED
      BY <1>6, <2>1 DEF NotAhead
  <1>11. OneWaits'
    BY <1>1, <1>5 DEF IInv, OneWaits
  <1>13. AloneInv'
    <2>1. q \notin alone /\ r \notin alone
      <3>1. Waits(q) /\ Waits(r)
        BY <1>1 DEF Waits
      <3> QED
        BY <1>5, <3>1 DEF IInv, AloneInv
    <2>2. alone \subseteq Request /\ UNCHANGED <<answer, timer, listed, alone, arrays, size>>
      BY <1>1, <1>2 DEF AskersOK, history, list
    <2>3. ASSUME NEW p \in alone
          PROVE  asker'[p] = asker[p] /\ slice'[p] = slice[p] /\ ~Waits(p)
      <3>1. p \in Request /\ p # q /\ p # r
        BY <2>1, <2>2
      <3>2. ~Waits(p)
        <4>1. Waits(q)
          BY <1>1 DEF Waits
        <4> QED
          BY <3>1, <4>1 DEF IInv, AloneInv
      <3> QED
        BY <3>1, <3>2, <1>5, <1>6
    <2>4. \A p \in alone : ~Waits(p)'
      BY <2>3 DEF Waits
    <2>5. \A p \in alone : UNCHANGED CellsOf(slice[p][1], slice[p][2])
      BY <2>2, <2>3 DEF CellsOf
    <2> QED
      BY <2>2, <2>3, <2>4, <2>5 DEF IInv, AloneInv
  <1>14. TypeOK'
    BY <1>3, <1>4, <1>8 DEF TypeOK, QueueOK, AskersOK, ListOK, SlicesOK, AnswersOK, Cell
  <1> QED
    BY <1>10, <1>11, <1>13, <1>14 DEF IInv

\* The one that waits is given the list as it stands.
LEMMA GiveStep ==
  ASSUME IInv, NEW r \in Request, Give(r)
  PROVE  IInv'
  <1>1. /\ UNCHANGED <<channels, answer, list, history, timer>>
        /\ sending' = FALSE
        /\ asker[r] = "wait" /\ asker' = [asker EXCEPT ![r] = "have"]
        /\ slice' = [slice EXCEPT ![r] = <<Len(arrays), size>>]
    BY DEF Give, list
  <1>2. AskersOK /\ ListOK /\ SlicesOK /\ NotAhead
    BY TypeParts DEF IInv
  <1>3. QueueOK' /\ ListOK' /\ AnswersOK'
    BY <1>1, Same
  <1>4. AskersOK'
    BY <1>1, <1>2 DEF AskersOK, history
  <1>5. asker'[r] = "have" /\ \A p \in Request : p # r => asker'[p] = asker[p]
    BY <1>1, <1>2 DEF AskersOK
  <1>6. /\ slice'[r] = <<Len(arrays), size>>
        /\ \A p \in Request : p # r => slice'[p] = slice[p]
        /\ UNCHANGED <<arrays, size, timer>>
    BY <1>1, <1>2 DEF SlicesOK, list
  <1>7. /\ Len(arrays) \in 1..Len(arrays) /\ Len(arrays[Len(arrays)]) \in Nat
        /\ size \in Nat /\ size <= Len(arrays[Len(arrays)])
    BY <1>2 DEF ListOK
  <1>8. SlicesOK'
    <2>1. slice' \in [Request -> (1..Len(arrays)) \X Nat]
      BY <1>1, <1>2, <1>7 DEF SlicesOK
    <2>2. ASSUME NEW p \in Request PROVE slice'[p][2] <= Len(arrays[slice'[p][1]])
      <3>1. CASE p = r
        BY <3>1, <1>6, <1>7
      <3>2. CASE p # r
        BY <3>2, <1>2, <1>6 DEF SlicesOK
      <3> QED
        BY <3>1, <3>2
    <2> QED
      BY <1>6, <2>1, <2>2 DEF SlicesOK
  <1>10. NotAhead'
    <2>1. ASSUME timer, NEW p \in Request, slice'[p][1] = Len(arrays)
          PROVE  slice'[p][2] <= size
      <3>1. CASE p = r
        BY <3>1, <1>6, <1>7
      <3>2. CASE p # r
        BY <2>1, <3>2, <1>2, <1>6 DEF NotAhead
      <3> QED
        BY <3>1, <3>2
    <2> QED
      BY <1>6, <2>1 DEF NotAhead
  <1>11. OneWaits'
    BY <1>1, <1>5 DEF IInv, OneWaits
  <1>13. AloneInv'
    <2>1. alone \subseteq Request /\ UNCHANGED <<answer, timer, listed, alone, arrays, size>>
      BY <1>1, <1>2 DEF AskersOK, history, list
    <2>2. UNCHANGED CellsOf(Len(arrays), size)
      BY <2>1 DEF CellsOf
    <2>3. ASSUME NEW p \in alone, p # r
          PROVE  /\ asker'[p] = asker[p]
                 /\ Waits(p)' <=> Waits(p)
                 /\ UNCHANGED CellsOf(slice[p][1], slice[p][2])
      <3>1. asker'[p] = asker[p] /\ slice'[p] = slice[p]
        BY <2>1, <2>3, <1>5, <1>6
      <3> QED
        BY <2>1, <3>1 DEF Waits, CellsOf
    <2>4. \A p \in Request : Waits(p)' => Waits(p)
      BY <1>5 DEF Waits
    <2>5. CellsOf(slice[r][1], slice[r][2])' = CellsOf(Len(arrays), size) /\ Waits(r) /\ ~Waits(r)'
      BY <1>1, <1>5, <1>6 DEF CellsOf, Waits
    <2>6. ASSUME NEW p \in alone
          PROVE  /\ asker'[p] # "unread"
                 /\ Waits(p)' => \A u \in Request : Waits(u)' => u = p
                 /\ timer /\ Waits(p)' => listed[p] \subseteq CellsOf(Len(arrays), size)
                 /\ timer /\ asker'[p] = "have" => listed[p] \subseteq CellsOf(slice[p][1], slice[p][2])'
                 /\ timer /\ asker'[p] = "done" => listed[p] \subseteq ToSet(answer[p])
      <3>1. CASE p = r
        BY <3>1, <2>5, <1>5 DEF IInv, AloneInv
      <3>2. CASE p # r
        BY <3>2, <2>3, <2>4 DEF IInv, AloneInv
      <3> QED
        BY <3>1, <3>2
    <2> QED
      BY <2>1, <2>2, <2>6 DEF AloneInv
  <1>14. TypeOK'
    BY <1>3, <1>4, <1>8 DEF TypeOK, QueueOK, AskersOK, ListOK, SlicesOK, AnswersOK, Cell
  <1> QED
    BY <1>10, <1>11, <1>13, <1>14 DEF IInv

\* What an answer changes, whatever it holds.
LEMMA AnsweredFacts ==
  ASSUME IInv, NEW r \in Request, NEW cells \in Seq(Entry \cup {NoEntry, Mixed}),
         Answered(r, cells), UNCHANGED <<sending, timer, history>>
  PROVE  /\ AskersOK' /\ AnswersOK' /\ OneWaits'
         /\ asker[r] = "have" /\ asker'[r] = "done" /\ answer'[r] = cells
         /\ \A p \in Request :
              /\ p # r => asker'[p] = asker[p] /\ answer'[p] = answer[p]
              /\ Waits(p)' <=> Waits(p)
  <1>1. AskersOK /\ AnswersOK
    BY TypeParts DEF IInv
  <1>2. /\ asker[r] = "have" /\ asker' = [asker EXCEPT ![r] = "done"]
        /\ answer' = [answer EXCEPT ![r] = cells]
    BY DEF Answered
  <1>3. AskersOK'
    BY <1>1, <1>2 DEF AskersOK, history
  <1>4. AnswersOK' /\ answer'[r] = cells /\ \A p \in Request : p # r => answer'[p] = answer[p]
    BY <1>1, <1>2 DEF AnswersOK
  <1>5. asker'[r] = "done" /\ \A p \in Request : p # r => asker'[p] = asker[p]
    BY <1>1, <1>2 DEF AskersOK
  <1>6. OneWaits'
    BY <1>2, <1>5 DEF IInv, OneWaits
  <1>7. \A p \in Request : Waits(p)' <=> Waits(p)
    BY <1>2, <1>5 DEF Waits
  <1> QED
    BY <1>2, <1>3, <1>4, <1>5, <1>6, <1>7

\* An answer holds what the slice holds.
LEMMA AnswerStep ==
  ASSUME IInv, NEW r \in Request, Answer(r)
  PROVE  IInv'
  <1>1. Answered(r, Content(slice[r])) /\ UNCHANGED <<channels, slice, sending, list, history, timer>>
    BY DEF Answer, list
  <1>2. AskersOK /\ ListOK /\ SlicesOK
    BY TypeParts DEF IInv
  <1>3. QueueOK' /\ ListOK' /\ SlicesOK' /\ NotAhead'
        /\ UNCHANGED CellsOf(Len(arrays), size)
        /\ \A p \in Request : UNCHANGED CellsOf(slice[p][1], slice[p][2])
    BY <1>1, Same
  <1>4. /\ Content(slice[r]) \in Seq(Cell)
        /\ ToSet(Content(slice[r])) = CellsOf(slice[r][1], slice[r][2])
    BY <1>2, ContentFacts
  <1>5. Content(slice[r]) \in Seq(Entry \cup {NoEntry, Mixed})
    BY <1>4 DEF Cell
  <1>6. /\ AskersOK' /\ AnswersOK' /\ OneWaits'
        /\ asker[r] = "have" /\ asker'[r] = "done" /\ answer'[r] = Content(slice[r])
        /\ \A p \in Request :
             /\ p # r => asker'[p] = asker[p] /\ answer'[p] = answer[p]
             /\ Waits(p)' <=> Waits(p)
    BY <1>1, <1>5, AnsweredFacts
  <1>8. AloneInv'
    <2>1. alone \subseteq Request /\ UNCHANGED <<timer, listed, alone>>
      BY <1>1, <1>2 DEF AskersOK, history
    <2>2. ASSUME NEW p \in alone
          PROVE  /\ asker'[p] # "unread"
                 /\ Waits(p)' => \A u \in Request : Waits(u)' => u = p
                 /\ timer /\ Waits(p)' => listed[p] \subseteq CellsOf(Len(arrays), size)
                 /\ timer /\ asker'[p] = "have" => listed[p] \subseteq CellsOf(slice[p][1], slice[p][2])
                 /\ timer /\ asker'[p] = "done" => listed[p] \subseteq ToSet(answer'[p])
      <3>1. CASE p = r
        BY <3>1, <1>4, <1>6 DEF IInv, AloneInv, Waits
      <3>2. CASE p # r
        BY <3>2, <2>1, <1>6 DEF IInv, AloneInv
      <3> QED
        BY <3>1, <3>2
    <2> QED
      BY <1>3, <2>1, <2>2 DEF AloneInv
  <1>9. TypeOK'
    BY <1>3, <1>6 DEF TypeOK, QueueOK, AskersOK, ListOK, SlicesOK, AnswersOK, Cell
  <1> QED
    BY <1>3, <1>6, <1>8, <1>9 DEF IInv

\* The race needs a slice that reaches past the list: the timer has expired.
LEMMA AnswerDuringAddStep ==
  ASSUME IInv, NEW r \in Request, AnswerDuringAdd(r)
  PROVE  IInv'
  <1>1. /\ Received
        /\ slice[r][1] = Len(arrays) /\ size < slice[r][2]
        /\ UNCHANGED <<regs, slice, sending, timer, count, history>>
    BY DEF AnswerDuringAdd
  <1>2. PICK seen \in {Servers'[size + 1], Mixed} :
          Answered(r, [Content(slice[r]) EXCEPT ![size + 1] = seen])
    BY DEF AnswerDuringAdd
  <1>3. QueueOK /\ AskersOK /\ ListOK /\ SlicesOK
    BY TypeParts DEF IInv
  <1>4. /\ serverRecv' \in Seq(Entry) /\ ListOK' /\ SlicesOK' /\ NotAhead'
        /\ Servers'[size + 1] \in Entry
    BY <1>1, ReceivedStep
  <1>5. ~timer
    <2>1. slice[r][2] \in Nat /\ size \in Nat
      BY <1>3 DEF SlicesOK, ListOK
    <2> QED
      BY <1>1, <2>1 DEF IInv, NotAhead
  <1> DEFINE cells == [Content(slice[r]) EXCEPT ![size + 1] = seen]
  <1>6. cells \in Seq(Entry \cup {NoEntry, Mixed})
    <2>1. Content(slice[r]) \in Seq(Entry \cup {NoEntry, Mixed})
      BY <1>3, ContentFacts DEF Cell
    <2>2. seen \in Entry \cup {NoEntry, Mixed}
      BY <1>4
    <2> QED
      BY ONLY <2>1, <2>2, OverwriteType
  <1>7. /\ AskersOK' /\ AnswersOK' /\ OneWaits'
        /\ asker[r] = "have" /\ asker'[r] = "done"
        /\ \A p \in Request :
             /\ p # r => asker'[p] = asker[p] /\ answer'[p] = answer[p]
             /\ Waits(p)' <=> Waits(p)
    <2> HIDE DEF cells
    <2>1. Answered(r, cells)
      BY <1>2 DEF cells
    <2> QED
      BY <1>1, <1>6, <2>1, AnsweredFacts
  <1>8. QueueOK'
    BY <1>1, <1>3, <1>4 DEF QueueOK
  <1>10. AloneInv'
    <2>1. alone \subseteq Request /\ UNCHANGED <<timer, alone>>
      BY <1>1, <1>3 DEF AskersOK, history
    <2>2. ASSUME NEW p \in alone
          PROVE  asker'[p] # "unread" /\ (Waits(p)' => \A u \in Request : Waits(u)' => u = p)
      BY <2>1, <1>7 DEF IInv, AloneInv
    <2>3. ~timer'
      BY <1>5, <2>1
    <2> QED
      BY <2>1, <2>2, <2>3 DEF AloneInv
  <1>11. TypeOK'
    BY <1>4, <1>7, <1>8 DEF TypeOK, QueueOK, AskersOK, ListOK, SlicesOK, AnswersOK, Cell
  <1> QED
    BY <1>4, <1>7, <1>10, <1>11 DEF IInv

LEMMA StutterStep == IInv /\ UNCHANGED vars => IInv'
  <1> SUFFICES ASSUME IInv, UNCHANGED vars PROVE IInv'
    OBVIOUS
  <1>1. UNCHANGED <<channels, slice, answer, sending, asker, list, history, timer>>
    BY DEF vars, channels, list
  <1>2. QueueOK' /\ ListOK' /\ SlicesOK' /\ AnswersOK' /\ NotAhead' /\ OneWaits'
        /\ UNCHANGED CellsOf(Len(arrays), size)
        /\ \A r \in Request : UNCHANGED CellsOf(slice[r][1], slice[r][2])
    BY <1>1, Same
  <1>3. AskersOK'
    BY <1>1, TypeParts DEF IInv, AskersOK, history
  <1>4. AloneInv'
    BY <1>1, <1>2, <1>3 DEF IInv, AloneInv, AskersOK, Waits, history
  <1>5. TypeOK'
    BY <1>2, <1>3 DEF TypeOK, QueueOK, AskersOK, ListOK, SlicesOK, AnswersOK, Cell
  <1> QED
    BY <1>2, <1>4, <1>5 DEF IInv

LEMMA StepInvariant == IInv /\ [Next]_vars => IInv'
  <1> SUFFICES ASSUME IInv, [Next]_vars PROVE IInv'
    OBVIOUS
  <1>1. ASSUME NEW e \in Entry, ReadReg(e) \/ PutReg(e) PROVE IInv'
    BY <1>1, RegStep
  <1>2. ASSUME NEW r \in Request, ReadGet(r) PROVE IInv'
    BY <1>2, ReadGetStep
  <1>3. ASSUME NEW r \in Request, Ask(r) PROVE IInv'
    BY <1>3, AskStep
  <1>4. ASSUME NEW q \in Request, NEW r \in Request, Cross(q, r) PROVE IInv'
    BY <1>4, CrossStep
  <1>5. ASSUME NEW r \in Request, Give(r) PROVE IInv'
    BY <1>5, GiveStep
  <1>6. ASSUME NEW r \in Request, Answer(r) PROVE IInv'
    BY <1>6, AnswerStep
  <1>7. ASSUME NEW r \in Request, AnswerDuringAdd(r) PROVE IInv'
    BY <1>7, AnswerDuringAddStep
  <1>8. Add \/ Wipe \/ UNCHANGED vars => IInv'
    BY AddStep, WipeStep, StutterStep
  <1> QED
    BY <1>1, <1>2, <1>3, <1>4, <1>5, <1>6, <1>7, <1>8 DEF Next, Work

LEMMA InvariantHolds == Spec => []IInv
  BY InitInvariant, StepInvariant, PTL DEF Spec

-----------------------------------------------------------------------------
(* Theorems. *)

\* The variables keep their types; in particular no slice reaches past the end
\* of its array, however often append moves the list.
THEOREM TypeCorrect == Spec => []TypeOK
  BY InvariantHolds, PTL DEF IInv

\* However many requests cross at the channel that serves both directions,
\* exactly one waits when the main goroutine is about to send, and none else.
THEOREM ChannelNeverJams == Spec => []OneWaits
  BY InvariantHolds, PTL DEF IInv

\* Until the timer expires a request that no other one overlaps is answered with
\* all that was listed: append writes in place only behind every slice that is
\* being read.
THEOREM AloneIsAnswered == Spec => []AloneGetsList
  <1>1. IInv => AloneGetsList
    <2> SUFFICES ASSUME IInv PROVE AloneGetsList
      OBVIOUS
    <2>1. alone \subseteq Request
      BY TypeParts DEF IInv, AskersOK
    <2> QED
      BY <2>1 DEF IInv, AloneInv, AloneGetsList
  <1> QED
    BY <1>1, InvariantHolds, PTL

=============================================================================
