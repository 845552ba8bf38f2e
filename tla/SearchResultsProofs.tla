------------------------ MODULE SearchResultsProofs ------------------------
(***************************************************************************)
(* Proofs about SearchResults, for every page of entries and all terms.    *)
(***************************************************************************)
EXTENDS SearchResults, SequenceProofs, FiniteSetTheorems

-----------------------------------------------------------------------------
(* The smallest and the largest of a set of rows. *)

LEMMA MinIsLeast ==
  ASSUME NEW S \in SUBSET Nat, S # {}
  PROVE  Min(S) \in S /\ \A y \in S : Min(S) =< y
  BY LeastNumber DEF Min

LEMMA MaxIsGreatest ==
  ASSUME NEW n \in Nat, NEW S \in SUBSET (0..n), S # {}
  PROVE  Max(S) \in S /\ \A y \in S : Max(S) >= y
  <1> DEFINE D == {n - x : x \in S}
  <1>0. \A x \in S : x \in 0..n /\ n - x \in Nat
    OBVIOUS
  <1>1. D \in SUBSET Nat /\ D # {}
    BY <1>0
  <1>2. Min(D) \in D /\ \A d \in D : Min(D) =< d
    BY <1>1, MinIsLeast
  <1>3. PICK x \in S : Min(D) = n - x
    BY <1>2
  <1>4. \A y \in S : n - x =< n - y
    BY <1>2, <1>3
  <1>5. \A y \in S : x >= y
    BY <1>4
  <1> QED
    BY <1>5 DEF Max

-----------------------------------------------------------------------------
(* Rows and items. *)

LEMMA RowFacts ==
  /\ Len(Entries) \in Nat
  /\ Row = 1..Len(Entries)
  /\ \A e \in Row : Kids(e) \in Nat
  BY EntriesAssumption DEF EntriesAssumption, Row, Kids

LEMMA ItemFacts ==
  /\ \A x : x \in Item <=> \E e \in Row : \E c \in 0..Kids(e) : x = <<e, c>>
  /\ \A e \in Row : \A c \in 0..Kids(e) : <<e, c>> \in Item
  /\ \A x \in Item : /\ x[1] \in Row
                     /\ x[2] \in 0..Kids(x[1])
                     /\ x = <<x[1], x[2]>>
  /\ NoItem \notin Item
  <1>1. \A x : x \in Item <=> \E e \in Row : \E c \in 0..Kids(e) : x = <<e, c>>
    BY DEF Item
  <1>2. Item \subseteq (1..Len(Entries)) \X Nat
    BY <1>1, RowFacts
  <1> QED
    BY <1>1, <1>2, ItemAssumption DEF ItemAssumption

\* Of the rows with one id the first has it.
LEMMA ByIdFacts ==
  ASSUME NEW e \in Row
  PROVE  ById(e) \in Row /\ Entries[ById(e)].id = Entries[e].id
  <1> DEFINE S == {i \in Row : Entries[i].id = Entries[e].id}
  <1>1. S \in SUBSET Nat /\ S # {}
    BY RowFacts
  <1>2. Min(S) \in S
    BY <1>1, MinIsLeast
  <1> QED
    BY <1>2 DEF ById

\* A row with children is found by its id, and a row for which children are
\* found has them: no row with several targets shares its id.
LEMMA Owner ==
  ASSUME NEW e \in Row
  PROVE  /\ Kids(e) > 0 <=> HasChildren(e)
         /\ Kids(e) > 0 => ById(e) = e
  <1>1. ById(e) \in Row /\ Entries[ById(e)].id = Entries[e].id
    BY ByIdFacts
  <1>2. ById(e) # e => Entries[ById(e)].targets = 1 /\ Entries[e].targets = 1
    BY <1>1, EntriesAssumption DEF Row, EntriesAssumption
  <1>3. ById(e) # e => Kids(ById(e)) = 0 /\ Kids(e) = 0
    BY <1>2 DEF Kids
  <1> QED
    BY <1>3 DEF HasChildren

LEMMA ExpandedIsOpen ==
  ASSUME NEW e \in Row
  PROVE  Expanded(e) <=> Kids(e) > 0 /\ e \in open
  BY Owner DEF Expanded

LEMMA OpenType ==
  ASSUME NEW e \in Row
  PROVE  /\ Opened(e) = IF Kids(e) > 0 THEN open \cup {e} ELSE open
         /\ Closed(e) = IF Kids(e) > 0 THEN open \ {e} ELSE open
  BY Owner DEF Opened, Closed

\* What is on display.
LEMMA DisplayedFacts ==
  ASSUME NEW x
  PROVE  x \in Displayed <=> x \in Item /\ x[1] \in shown /\ (x[2] = 0 \/ x[1] \in open)
  BY DEF Displayed, Visible

LEMMA ClosedFocus ==
  ASSUME NEW x \in Displayed
  PROVE  x[1] \in Row /\ x[2] \in 0..Kids(x[1]) /\ x[2] \in Nat /\ Kids(x[1]) \in Nat
  BY DisplayedFacts, ItemFacts, RowFacts

-----------------------------------------------------------------------------
(* Types, and the item that has the focus. *)

IInv == TypeOK /\ FocusDisplayed /\ shown = Found(term)

LEMMA FoundType == \A t : Found(t) \in SUBSET Row
  BY DEF Found

LEMMA InitInvariant == Init => IInv
  BY FoundType DEF Init, Document, IInv, TypeOK, FocusDisplayed

\* Where a key may take the focus.
Kept == focus' = focus \/ focus' = NoItem \/ focus' \in Displayed

LEMMA FocusOnKept ==
  ASSUME NEW x, FocusOn(x)
  PROVE  Kept
  BY DEF FocusOn, Displayed, Visible, Kept

LEMMA NavKept ==
  ASSUME NEW e, NEW k, Nav(e, k)
  PROVE  Kept
  <1>1. UpFromRow(e) => Kept
    BY FocusOnKept DEF UpFromRow, Kept
  <1>2. DownFromRow(e) => Kept
    BY FocusOnKept DEF DownFromRow, Kept
  <1>3. Moved(k, UpFromRow(e), DownFromRow(e))
    BY DEF Nav
  <1> QED
    BY <1>1, <1>2, <1>3 DEF Moved, Kept

LEMMA NavChildKept ==
  ASSUME NEW e, NEW c, NEW k, NavChild(e, c, k)
  PROVE  Kept
  <1>1. UpFromChild(e, c) => Kept
    BY FocusOnKept DEF UpFromChild, Kept
  <1>2. DownFromChild(e, c) => Kept
    BY FocusOnKept DEF DownFromChild, Kept
  <1>3. Moved(k, UpFromChild(e, c), DownFromChild(e, c))
    BY DEF NavChild
  <1> QED
    BY <1>1, <1>2, <1>3 DEF Moved, Kept

\* A key opens and closes rows with children only, and closes those of a row
\* only while the row itself has the focus and keeps it.
LEMMA ActKeeps ==
  ASSUME IInv, NEW k, focus # NoItem, Act(k), UNCHANGED page
  PROVE  /\ open' \subseteq {e \in Row : Kids(e) > 0}
         /\ focus' \in Item \cup {NoItem}
         /\ focus' # NoItem => Visible(focus)'
  <1>1. focus \in Displayed
    BY DEF IInv, FocusDisplayed, Displayed, Visible
  <1>2. focus[1] \in Row
    BY <1>1, ClosedFocus
  <1>3. open \subseteq {e \in Row : Kids(e) > 0}
    BY DEF IInv, TypeOK
  <1>4. Kept
    BY NavKept, NavChildKept DEF Act
  <1>5. focus' \in Displayed \cup {NoItem}
    BY <1>1, <1>4 DEF Kept
  <1>6. focus' \in Item \cup {NoItem}
    BY <1>5 DEF Displayed
  <1>7. shown' = shown
    BY DEF page
  <1>8. CASE focus[2] = 0 /\ k = "Left"
    <2>1. Nav(focus[1], k)
      BY <1>8 DEF Act
    <2>2. focus' = focus
      BY <1>8, <2>1 DEF Nav, Moved
    <2>3. open' = Closed(focus[1])
      BY <1>8, <2>1 DEF Nav
    <2>4. open' \subseteq open
      BY <2>3, <1>2, OpenType
    <2> QED
      BY <1>1, <1>3, <1>6, <1>7, <1>8, <2>2, <2>4 DEF Displayed, Visible
  <1>9. CASE ~(focus[2] = 0 /\ k = "Left")
    <2>1. open' = open \/ open' = Opened(focus[1])
      BY <1>9 DEF Act, Nav, NavChild
    <2>2. open \subseteq open' /\ open' \subseteq {e \in Row : Kids(e) > 0}
      BY <2>1, <1>2, <1>3, OpenType
    <2> QED
      BY <1>5, <1>6, <1>7, <2>2 DEF Displayed, Visible
  <1> QED
    BY <1>8, <1>9

LEMMA StepInvariant == IInv /\ [Next]_vars => IInv'
  <1> SUFFICES ASSUME IInv, [Next]_vars PROVE IInv'
    OBVIOUS
  <1>1. ASSUME NEW k \in Key, KeyDown(k) PROVE IInv'
    <2>1. /\ open' \subseteq {e \in Row : Kids(e) > 0}
          /\ focus' \in Item \cup {NoItem}
          /\ focus' # NoItem => Visible(focus)'
      BY <1>1, ActKeeps DEF KeyDown
    <2> QED
      BY <1>1, <2>1 DEF KeyDown, page, IInv, TypeOK, FocusDisplayed
  <1>2. CASE KeyPress
    <2>1. CASE repeatOn
      <3>1. /\ open' \subseteq {e \in Row : Kids(e) > 0}
            /\ focus' \in Item \cup {NoItem}
            /\ focus' # NoItem => Visible(focus)'
        BY <1>2, <2>1, ActKeeps DEF KeyPress, page
      <3> QED
        BY <1>2, <2>1, <3>1 DEF KeyPress, page, IInv, TypeOK, FocusDisplayed
    <2>2. CASE ~repeatOn
      BY <1>2, <2>2 DEF KeyPress, page, IInv, TypeOK, FocusDisplayed, Visible
    <2> QED
      BY <2>1, <2>2
  <1>3. CASE KeyUp
    BY <1>3 DEF KeyUp, page, IInv, TypeOK, FocusDisplayed, Visible
  <1>4. ASSUME NEW e \in Row, Toggle(e) PROVE IInv'
    <2>1. open' = Closed(e) \/ open' = Opened(e)
      BY <1>4 DEF Toggle
    <2>2. open' \subseteq {i \in Row : Kids(i) > 0}
      BY <2>1, OpenType DEF IInv, TypeOK
    <2>3. focus' = <<e, 0>> /\ <<e, 0>> \in Item /\ e \in shown
      BY <1>4 DEF Toggle, Visible
    <2> QED
      BY <1>4, <2>2, <2>3 DEF Toggle, page, keys, IInv, TypeOK, FocusDisplayed, Visible
  <1>5. CASE FromField
    <2>1. focus' = focus \/ (focus' = NavNext(1) /\ Visible(NavNext(1)))
      BY <1>5 DEF FromField, FocusOn
    <2>2. focus' \in Item \cup {NoItem} /\ (focus' # NoItem => Visible(focus'))
      BY <2>1 DEF IInv, TypeOK, FocusDisplayed, Visible
    <2> QED
      BY <1>5, <2>2 DEF FromField, page, keys, IInv, TypeOK, FocusDisplayed, Visible
  <1>6. ASSUME NEW x \in {y \in Item : Visible(y)} \cup {NoItem}, Visit(x) PROVE IInv'
    BY <1>6 DEF Visit, page, keys, IInv, TypeOK, FocusDisplayed, Visible
  <1>7. ASSUME NEW t \in Terms, Load(t) PROVE IInv'
    BY <1>7, FoundType DEF Load, Document, IInv, TypeOK, FocusDisplayed
  <1>8. CASE UNCHANGED vars
    BY <1>8 DEF vars, IInv, TypeOK, FocusDisplayed, Visible
  <1> QED
    BY <1>1, <1>2, <1>3, <1>4, <1>5, <1>6, <1>7, <1>8 DEF Next

LEMMA InvariantHolds == Spec => []IInv
  BY InitInvariant, StepInvariant, PTL DEF Spec

\* The variables hold values of their types: no key opens a row that has no
\* children, or moves to an item that is not on the page.
THEOREM TypeCorrect == Spec => []TypeOK
  BY InvariantHolds, PTL DEF IInv

\* The item that has the focus stays on display.
THEOREM FocusStaysDisplayed == Spec => []FocusDisplayed
  BY InvariantHolds, PTL DEF IInv

-----------------------------------------------------------------------------
(* The order in which the keys go. *)

\* The row of an item that stands before another one.
LEMMA BeforeFacts ==
  ASSUME NEW x \in Displayed, NEW y \in Displayed
  PROVE  /\ x[1] \in Nat /\ x[2] \in Nat /\ y[1] \in Nat /\ y[2] \in Nat
         /\ Before(x, y) <=> x[1] < y[1] \/ (x[1] = y[1] /\ x[2] < y[2])
  BY ClosedFocus, RowFacts DEF Before

\* Behind the last item of a row on display comes the row of NavNext.
LEMMA NextRow ==
  ASSUME IInv, NEW x \in Displayed,
         \A z \in Displayed : z[1] = x[1] => z[2] <= x[2]
  PROVE  IF \E y \in Displayed : Before(x, y)
         THEN NavNext(x[1] + 1) \in Displayed /\ Adjacent(x, NavNext(x[1] + 1))
         ELSE NavNext(x[1] + 1) = NoItem
  <1> DEFINE S == Onward(x[1] + 1)
  <1>1. x[1] \in Nat /\ shown \subseteq Row /\ Row \subseteq Nat
    BY ClosedFocus, RowFacts DEF IInv, TypeOK
  <1>2. S \in SUBSET Nat
    BY <1>1 DEF Onward
  <1>3. \A y \in Displayed : Before(x, y) => y[1] \in S
    <2>1. ASSUME NEW y \in Displayed, Before(x, y) PROVE y[1] \in S
      <3>1. x[1] < y[1] \/ (x[1] = y[1] /\ x[2] < y[2])
        BY <2>1, BeforeFacts
      <3>2. ~(x[1] = y[1] /\ x[2] < y[2])
        BY BeforeFacts
      <3>3. y[1] >= x[1] + 1
        BY <3>1, <3>2, BeforeFacts
      <3> QED
        BY <3>3, DisplayedFacts DEF Onward
    <2> QED
      BY <2>1
  <1>4. CASE S = {}
    BY <1>3, <1>4 DEF NavNext
  <1>5. CASE S # {}
    <2> DEFINE m == Min(S)
    <2>1. m \in S /\ \A i \in S : m =< i
      BY <1>2, <1>5, MinIsLeast
    <2>2. NavNext(x[1] + 1) = <<m, 0>>
      BY <1>5 DEF NavNext
    <2>3. m \in shown /\ m >= x[1] + 1 /\ m \in Row /\ m \in Nat
      BY <2>1, <1>1 DEF Onward
    <2> HIDE DEF m, S
    <2>4. <<m, 0>> \in Displayed
      BY <2>3, DisplayedFacts, ItemFacts, RowFacts
    <2>5. Before(x, <<m, 0>>)
      BY <2>3, <1>1 DEF Before
    <2>6. ASSUME NEW z \in Displayed, Before(x, z), Before(z, <<m, 0>>) PROVE FALSE
      <3>1. m =< z[1]
        BY <2>1, <2>6, <1>3
      <3>2. z[1] < m \/ (z[1] = m /\ z[2] < 0)
        BY <2>6, <2>4, BeforeFacts
      <3> QED
        BY <3>1, <3>2, <2>3, BeforeFacts
    <2> QED
      BY <2>2, <2>4, <2>5, <2>6 DEF Adjacent
  <1> QED
    BY <1>4, <1>5

\* Before the link of a row comes the last item on display of the row of
\* NavPrev.
LEMMA PrevRow ==
  ASSUME IInv, NEW e \in Row, <<e, 0>> \in Displayed
  PROVE  IF \E y \in Displayed : Before(y, <<e, 0>>)
         THEN \E m \in shown :
                /\ NavPrev(e - 1) = <<m, 0>>
                /\ m \in Row /\ m < e
                /\ \A z \in Displayed : Before(z, <<e, 0>>) => z[1] =< m
         ELSE NavPrev(e - 1) = NoItem
  <1> DEFINE S == Backward(e - 1)
  <1>1. /\ e \in Nat /\ e >= 1 /\ e \in shown
        /\ shown \subseteq Row /\ Row \subseteq Nat
        /\ Len(Entries) \in Nat /\ Row = 1..Len(Entries)
    BY RowFacts, DisplayedFacts DEF IInv, TypeOK
  <1>2. S \in SUBSET (0..e)
    <2>1. ASSUME NEW i \in S PROVE i \in 0..e
      <3>1. i \in Nat /\ i <= e - 1
        BY <1>1 DEF Backward
      <3> QED
        BY <3>1, <1>1
    <2> HIDE DEF S
    <2> QED
      BY <2>1
  <1>3. ASSUME NEW y \in Displayed, Before(y, <<e, 0>>)
        PROVE  y[1] \in S
    <2>1. y[1] < e
      BY <1>3, <1>1, BeforeFacts
    <2>2. y[1] \in shown /\ y[1] =< e - 1
      BY <2>1, <1>1, BeforeFacts, DisplayedFacts
    <2> QED
      BY <2>2 DEF Backward
  <1>4. CASE S = {}
    BY <1>3, <1>4 DEF NavPrev
  <1>5. CASE S # {}
    <2> DEFINE m == Max(S)
    <2>1. m \in S /\ \A i \in S : m >= i
      BY <1>1, <1>2, <1>5, MaxIsGreatest
    <2>2. NavPrev(e - 1) = <<m, 0>>
      BY <1>5 DEF NavPrev
    <2>3. m \in shown /\ m =< e - 1 /\ m \in Row /\ m \in Nat
      BY <2>1, <1>1 DEF Backward
    <2>4. m < e
      BY <2>3, <1>1
    <2>5. <<m, 0>> \in Displayed
      BY <2>3, DisplayedFacts, ItemFacts, RowFacts
    <2>6. Before(<<m, 0>>, <<e, 0>>)
      BY <2>4, <1>1 DEF Before
    <2> HIDE DEF m, S
    <2>7. ASSUME NEW z \in Displayed, Before(z, <<e, 0>>) PROVE z[1] =< m
      <3>1. z[1] \in S /\ z[1] \in Nat
        BY <2>7, <1>3, BeforeFacts
      <3> QED
        BY <2>1, <2>3, <3>1
    <2> QED
      BY <2>2, <2>3, <2>4, <2>5, <2>6, <2>7
  <1> QED
    BY <1>4, <1>5

\* What Down does.
LEMMA DownFollows ==
  ASSUME IInv, focus \in Displayed, Act("Down")
  PROVE  IF \E y \in Displayed : Before(focus, y)
         THEN focus' \in Displayed /\ Adjacent(focus, focus')
         ELSE focus' = focus
  <1> DEFINE e == focus[1]
             c == focus[2]
  <1>1. /\ e \in Row /\ e \in Nat /\ Kids(e) \in Nat /\ c \in 0..Kids(e) /\ c \in Nat
        /\ focus = <<e, c>> /\ e \in shown /\ (c = 0 \/ e \in open)
    BY ClosedFocus, RowFacts, ItemFacts, DisplayedFacts
  <1> DEFINE deeper == c < Kids(e) /\ e \in open
             n == IF deeper THEN <<e, c + 1>> ELSE NavNext(e + 1)
  <1>2. IF n = NoItem THEN focus' = focus ELSE FocusOn(n)
    <2>1. CASE c = 0
      <3>1. DownFromRow(e)
        BY <2>1 DEF Act, Nav, Moved
      <3>2. Expanded(e) /\ Kids(e) > 0 <=> deeper
        BY <2>1, <1>1, ExpandedIsOpen
      <3> QED
        BY <2>1, <3>1, <3>2 DEF DownFromRow
    <2>2. CASE c # 0
      <3>1. DownFromChild(e, c)
        BY <2>2 DEF Act, NavChild, Moved
      <3>2. deeper <=> c < Kids(e)
        BY <2>2, <1>1
      <3> QED
        BY <3>1, <3>2 DEF DownFromChild
    <2> QED
      BY <2>1, <2>2
  <1>3. CASE deeper
    <2>1. <<e, c + 1>> \in Item /\ <<e, c + 1>> \in Displayed
      <3>1. c + 1 \in 0..Kids(e)
        BY <1>1, <1>3
      <3> QED
        BY <1>1, <1>3, <3>1, ItemFacts, DisplayedFacts
    <2>2. focus' = <<e, c + 1>>
      BY <1>2, <1>3, <2>1, ItemFacts DEF FocusOn, Displayed
    <2>3. Before(focus, <<e, c + 1>>)
      BY <1>1, <2>1, BeforeFacts
    <2>4. ASSUME NEW z \in Displayed, Before(focus, z), Before(z, <<e, c + 1>>)
          PROVE  FALSE
      <3>1. e < z[1] \/ (e = z[1] /\ c < z[2])
        BY <2>4, <1>1, BeforeFacts
      <3>2. z[1] < e \/ (z[1] = e /\ z[2] < c + 1)
        BY <2>4, <2>1, BeforeFacts
      <3> QED
        BY <3>1, <3>2, <1>1, BeforeFacts
    <2> QED
      BY <2>1, <2>2, <2>3, <2>4 DEF Adjacent
  <1>4. CASE ~deeper
    <2>1. \A z \in Displayed : z[1] = e => z[2] <= c
      <3>1. ASSUME NEW z \in Displayed, z[1] = e PROVE z[2] <= c
        <4>1. z[2] \in 0..Kids(e) /\ (z[2] = 0 \/ e \in open)
          BY <3>1, ClosedFocus, DisplayedFacts
        <4> QED
          BY <4>1, <1>1, <1>4
      <3> QED
        BY <3>1
    <2>2. IF \E y \in Displayed : Before(focus, y)
          THEN NavNext(e + 1) \in Displayed /\ Adjacent(focus, NavNext(e + 1))
          ELSE NavNext(e + 1) = NoItem
      BY <2>1, NextRow
    <2>3. n = NavNext(e + 1)
      BY <1>4
    <2>4. NoItem \notin Displayed
      BY DisplayedFacts, ItemFacts
    <2> QED
      BY <1>2, <2>2, <2>3, <2>4 DEF FocusOn, Displayed
  <1> QED
    BY <1>3, <1>4

\* What Up does.
LEMMA UpFollows ==
  ASSUME IInv, focus \in Displayed, Act("Up")
  PROVE  IF \E y \in Displayed : Before(y, focus)
         THEN \/ focus' \in Displayed /\ Adjacent(focus', focus)
              \/ Misled(focus) /\ focus' \in {focus, NavPrev(focus[1] - 1)}
         ELSE focus' = NoItem
  <1> DEFINE e == focus[1]
             c == focus[2]
  <1>1. /\ e \in Row /\ e \in Nat /\ Kids(e) \in Nat /\ c \in 0..Kids(e) /\ c \in Nat
        /\ focus = <<e, c>> /\ e \in shown /\ (c = 0 \/ e \in open)
    BY ClosedFocus, RowFacts, ItemFacts, DisplayedFacts
  <1>2. CASE c # 0
    <2>1. UpFromChild(e, c)
      BY <1>2 DEF Act, NavChild, Moved
    <2>2. <<e, c - 1>> \in Item /\ <<e, c - 1>> \in Displayed
      <3>1. c - 1 \in 0..Kids(e)
        BY <1>1, <1>2
      <3> QED
        BY <1>1, <1>2, <3>1, ItemFacts, DisplayedFacts
    <2>3. focus' = <<e, c - 1>>
      BY <2>1, <2>2 DEF UpFromChild, FocusOn, Displayed
    <2>4. Before(<<e, c - 1>>, focus)
      BY <1>1, <2>2, BeforeFacts
    <2>5. ASSUME NEW z \in Displayed, Before(<<e, c - 1>>, z), Before(z, focus)
          PROVE  FALSE
      <3>1. e < z[1] \/ (e = z[1] /\ c - 1 < z[2])
        BY <2>5, <2>2, BeforeFacts
      <3>2. z[1] < e \/ (z[1] = e /\ z[2] < c)
        BY <2>5, <1>1, BeforeFacts
      <3> QED
        BY <3>1, <3>2, <1>1, BeforeFacts
    <2> QED
      BY <2>2, <2>3, <2>4, <2>5 DEF Adjacent
  <1>3. CASE c = 0
    <2>1. UpFromRow(e)
      BY <1>3 DEF Act, Nav, Moved
    <2>2. focus = <<e, 0>> /\ <<e, 0>> \in Displayed
      BY <1>1, <1>3
    <2>3. IF \E y \in Displayed : Before(y, focus)
          THEN \E m \in shown :
                 /\ NavPrev(e - 1) = <<m, 0>>
                 /\ m \in Row /\ m < e
                 /\ \A z \in Displayed : Before(z, focus) => z[1] =< m
          ELSE NavPrev(e - 1) = NoItem
      BY <1>1, <2>2, PrevRow
    <2>4. CASE ~(\E y \in Displayed : Before(y, focus))
      BY <2>1, <2>3, <2>4 DEF UpFromRow
    <2>5. CASE \E y \in Displayed : Before(y, focus)
      <3>1. PICK p \in shown :
              /\ NavPrev(e - 1) = <<p, 0>>
              /\ p \in Row /\ p < e
              /\ \A z \in Displayed : Before(z, focus) => z[1] =< p
        BY <2>3, <2>5
      <3> DEFINE last == IF p \in open THEN Kids(p) ELSE 0
                 target == IF Expanded(p) THEN LastChild(e - 1, <<p, 0>>) ELSE <<p, 0>>
      <3>2. p \in Nat /\ Kids(p) \in Nat /\ (Expanded(p) <=> Kids(p) > 0 /\ p \in open)
        BY <3>1, RowFacts, ExpandedIsOpen
      <3>3. FocusOn(target)
        <4>1. <<p, 0>> # NoItem
          BY <3>1, <3>2, ItemFacts
        <4> QED
          BY <2>1, <3>1, <4>1 DEF UpFromRow
      <3>4. CASE Misled(focus)
        <4> SUFFICES focus' \in {focus, <<p, 0>>}
          BY <2>5, <3>1, <3>4
        <4>1. Expanded(p) /\ p # e - 1
          BY <3>1, <3>4 DEF Misled
        <4>2. target = LastChild(e - 1, <<p, 0>>)
          BY <4>1
        <4>3. <<p, 0>> \in Displayed
          BY <3>1, <3>2, ItemFacts, DisplayedFacts
        <4>4. e - 1 \notin shown
          <5>1. SUFFICES ASSUME e - 1 \in shown PROVE FALSE
            OBVIOUS
          <5>2. e - 1 \in Row /\ e - 1 \in Nat
            BY <5>1, RowFacts DEF IInv, TypeOK
          <5>3. <<e - 1, 0>> \in Displayed
            BY <5>1, <5>2, ItemFacts, DisplayedFacts, RowFacts
          <5>4. Before(<<e - 1, 0>>, focus)
            BY <1>1, <5>2 DEF Before
          <5>5. e - 1 =< p
            BY <3>1, <5>3, <5>4
          <5> QED
            BY <1>1, <3>1, <3>2, <4>1, <5>5
        <4>5. CASE Kids(e - 1) > 0
          <5>1. target = <<e - 1, Kids(e - 1)>>
            BY <4>2, <4>5 DEF LastChild
          <5>2. ~Visible(target)
            BY <4>4, <5>1 DEF Visible
          <5>3. focus' = focus
            BY <3>3, <5>2 DEF FocusOn
          <5> QED
            BY <5>3
        <4>6. CASE ~(Kids(e - 1) > 0)
          <5>1. target = <<p, 0>>
            BY <4>2, <4>6 DEF LastChild
          <5>2. focus' = <<p, 0>>
            BY <3>3, <4>3, <5>1 DEF FocusOn, Displayed
          <5> QED
            BY <5>2
        <4> QED
          BY <4>5, <4>6
      <3>5. CASE ~Misled(focus)
        <4>1. ~Expanded(p) \/ p = e - 1
          <5>1. <<p, 0>> # NoItem
            BY <3>1, <3>2, ItemFacts
          <5> QED
            BY <1>3, <3>1, <3>5, <5>1 DEF Misled
        <4>2. target = <<p, last>>
          <5>1. CASE ~Expanded(p)
            BY <3>2, <5>1
          <5>2. CASE Expanded(p) /\ p = e - 1
            BY <3>2, <5>2 DEF LastChild
          <5> QED
            BY <4>1, <5>1, <5>2
        <4>3. <<p, last>> \in Item /\ <<p, last>> \in Displayed /\ last \in 0..Kids(p)
          <5>1. last \in 0..Kids(p)
            BY <3>2
          <5>2. last = 0 \/ p \in open
            OBVIOUS
          <5> HIDE DEF last
          <5> QED
            BY <3>1, <5>1, <5>2, ItemFacts, DisplayedFacts
        <4> HIDE DEF target
        <4>4. focus' = <<p, last>>
          BY <3>3, <4>2, <4>3 DEF FocusOn, Displayed
        <4>5. Before(<<p, last>>, focus)
          BY <1>1, <3>1 DEF Before
        <4>6. ASSUME NEW z \in Displayed, Before(<<p, last>>, z), Before(z, focus)
              PROVE  FALSE
          <5>1. z[1] =< p
            BY <3>1, <4>6
          <5>2. p < z[1] \/ (p = z[1] /\ last < z[2])
            BY <4>3, <4>6, BeforeFacts
          <5>3. z[1] = p => z[2] \in 0..Kids(p) /\ (z[2] = 0 \/ p \in open)
            BY ClosedFocus, DisplayedFacts
          <5>4. z[1] = p => z[2] =< last
            BY <3>2, <5>3
          <5> QED
            BY <3>2, <4>3, <5>1, <5>2, <5>4, BeforeFacts
        <4> QED
          BY <4>3, <4>4, <4>5, <4>6 DEF Adjacent
      <3> QED
        BY <3>4, <3>5
    <2> QED
      BY <2>4, <2>5
  <1> QED
    BY <1>2, <1>3

\* On any page Down and Up follow the order of the items on display, but for Up
\* where Nav takes the children of a row that is filtered out for those of the
\* row displayed before it, and there Up goes to that row or stays.
THEOREM KeysFollow == Spec => KeysFollowOrder
  <1>1. IInv /\ [Next]_vars => [DownStep /\ UpStep]_vars
    <2> SUFFICES ASSUME IInv, [Next]_vars PROVE DownStep /\ UpStep
      OBVIOUS
    <2>1. focus # NoItem => focus \in Displayed
      BY DEF IInv, FocusDisplayed, Displayed, Visible
    <2>2. ASSUME NEW k, Stroke(k) PROVE focus # NoItem /\ Act(k)
      BY <2>2 DEF Stroke, KeyDown, KeyPress
    <2>3. DownStep
      BY <2>1, <2>2, DownFollows DEF DownStep
    <2>4. UpStep
      BY <2>1, <2>2, UpFollows DEF UpStep
    <2> QED
      BY <2>3, <2>4
  <1> QED
    BY <1>1, InvariantHolds, PTL DEF Spec, KeysFollowOrder

-----------------------------------------------------------------------------
(* Flattened sequences. *)

\* What FlattenSeq has put together after each of the sequences.
LEMMA FlattenSteps ==
  ASSUME NEW S, NEW seqs \in Seq(Seq(S))
  PROVE  \E f \in [0..Len(seqs) -> Seq(S)] :
           /\ f[0] = <<>>
           /\ \A n \in 1..Len(seqs) : f[n] = f[n - 1] \o seqs[n]
           /\ FlattenSeq(seqs) = f[Len(seqs)]
  <1> DEFINE N == Len(seqs)
             V == Seq(S)
             G == [a \in V \X (1..N) |-> a[1] \o seqs[a[2]]]
             Eq(g) == g = [i \in 1..N |-> IF i = 1 THEN seqs[i] ELSE g[i - 1] \o seqs[i]]
  <1>1. N \in Nat /\ \A n \in 1..N : seqs[n] \in V
    BY LenProperties, ElementOfSeq
  <1>2. G \in [V \X (1..N) -> V]
    <2>1. \A u \in V, n \in 1..N : u \o seqs[n] \in V
      BY <1>1, ConcatProperties
    <2> HIDE DEF V, N
    <2> QED
      BY <2>1
  <1>3. <<>> \in V
    OBVIOUS
  <1>4. PICK f \in [0..N -> V] :
          f[0] = <<>> /\ \A n \in 1..N : f[n] = G[<<f[n - 1], n>>]
    <2> HIDE DEF N, G, V
    <2>1. \E f \in [0..N -> V] : Recursive(f, N, <<>>, G)
      BY <1>1, <1>2, <1>3, Recursion
    <2> QED
      BY <2>1 DEF Recursive
  <1>5. \A n \in 1..N : f[n] = f[n - 1] \o seqs[n]
    <2>1. ASSUME NEW n \in 1..N PROVE f[n] = f[n - 1] \o seqs[n]
      <3>1. n - 1 \in 0..N
        BY <1>1
      <3>2. <<f[n - 1], n>> \in V \X (1..N)
        BY <3>1, <1>4
      <3> QED
        BY <3>2, <1>4
    <2> QED
      BY <2>1
  <1> HIDE DEF G
  <1>6. CASE N = 0
    <2>1. FlattenSeq(seqs) = seqs /\ seqs = <<>>
      BY <1>6, EmptySeq DEF FlattenSeq
    <2> QED
      BY <1>4, <1>5, <1>6, <2>1
  <1>7. CASE N # 0
    <2> DEFINE g == [n \in 1..N |-> f[n]]
               h == CHOOSE x : Eq(x)
    <2>1. Eq(g)
      <3>1. ASSUME NEW i \in 1..N
            PROVE  f[i] = IF i = 1 THEN seqs[i] ELSE g[i - 1] \o seqs[i]
        <4>1. CASE i = 1
          <5>1. f[i] = f[0] \o seqs[i]
            <6>1. f[i] = f[i - 1] \o seqs[i]
              BY <1>5
            <6>2. i - 1 = 0
              BY <4>1
            <6> QED
              BY <6>1, <6>2
          <5>2. <<>> \o seqs[i] = seqs[i]
            BY <1>1, ConcatEmptySeq
          <5> QED
            BY <1>4, <4>1, <5>1, <5>2
        <4>2. CASE i # 1
          <5>1. i - 1 \in 1..N
            BY <1>1, <4>2
          <5>2. g[i - 1] = f[i - 1]
            BY <5>1
          <5> HIDE DEF g, N
          <5> QED
            BY <1>5, <4>2, <5>2
        <4> QED
          BY <4>1, <4>2
      <3> QED
        BY <3>1
    <2>2. Eq(h)
      <3> HIDE DEF Eq
      <3> QED
        BY <2>1
    <2>3. FlattenSeq(seqs) = h[N]
      BY <1>1, <1>7 DEF FlattenSeq
    <2> HIDE DEF h, g
    <2> DEFINE H == {n \in Nat : n \in 1..N => h[n] = f[n]}
    <2>4. \A i \in 1..N : h[i] = IF i = 1 THEN seqs[i] ELSE h[i - 1] \o seqs[i]
      BY <2>2
    <2>5. \A i \in 1..N : f[i] = IF i = 1 THEN seqs[i] ELSE f[i - 1] \o seqs[i]
      <3>1. \A i \in 1..N : g[i] = f[i]
        BY DEF g
      <3>2. \A i \in 1..N : g[i] = IF i = 1 THEN seqs[i] ELSE g[i - 1] \o seqs[i]
        BY <2>1
      <3>3. \A i \in 1..N : i = 1 \/ i - 1 \in 1..N
        BY <1>1
      <3> HIDE DEF N, Eq
      <3> QED
        BY <3>1, <3>2, <3>3
    <2> HIDE DEF Eq
    <2>6. 0 \in H
      OBVIOUS
    <2>7. ASSUME NEW n \in Nat, n \in H PROVE n + 1 \in H
      <3> SUFFICES ASSUME n + 1 \in 1..N PROVE h[n + 1] = f[n + 1]
        OBVIOUS
      <3>1. CASE n = 0
        BY <2>4, <2>5, <3>1
      <3>2. CASE n # 0
        <4>1. n \in 1..N /\ h[n] = f[n] /\ (n + 1) - 1 = n /\ n + 1 # 1
          BY <1>1, <2>7, <3>2
        <4>2. h[n + 1] = h[(n + 1) - 1] \o seqs[n + 1]
          BY <2>4, <4>1
        <4>3. f[n + 1] = f[(n + 1) - 1] \o seqs[n + 1]
          BY <2>5, <4>1
        <4> QED
          BY <4>1, <4>2, <4>3
      <3> QED
        BY <3>1, <3>2
    <2>8. h[N] = f[N]
      <3>1. N \in H
        <4> HIDE DEF H
        <4> QED
          BY <1>1, <2>6, <2>7, NumberInduction
      <3> QED
        BY <1>1, <1>7, <3>1
    <2> QED
      BY <1>4, <1>5, <2>3, <2>8
  <1> QED
    BY <1>6, <1>7

\* A prefix, element by element.
LEMMA PrefixPointwise ==
  ASSUME NEW S, NEW s \in Seq(S), NEW t \in Seq(S)
  PROVE  IsPrefix(s, t) <=> Len(s) <= Len(t) /\ \A i \in 1..Len(s) : s[i] = t[i]
  <1>1. Len(s) \in Nat /\ Len(t) \in Nat
    BY LenProperties
  <1> SUFFICES ASSUME Len(s) <= Len(t)
               PROVE  SubSeq(s, 1, Len(s)) = SubSeq(t, 1, Len(s)) <=>
                        \A i \in 1..Len(s) : s[i] = t[i]
    BY DEF IsPrefix
  <1> DEFINE n == Len(s)
             p == SubSeq(t, 1, n)
  <1>2. SubSeq(s, 1, n) = s
    BY SubSeqFull
  <1>3. /\ p \in Seq(S)
        /\ Len(p) = n
        /\ \A i \in 1..n : p[i] = t[i]
    <2>1. \A i \in 1..n : t[i] \in S
      BY <1>1, ElementOfSeq
    <2>2. /\ p \in Seq(S)
          /\ Len(p) = IF 1 <= n THEN n - 1 + 1 ELSE 0
          /\ \A i \in 1..(n - 1 + 1) : p[i] = t[1 + i - 1]
      BY <1>1, <2>1, SubSeqProperties
    <2>3. n - 1 + 1 = n /\ (~(1 <= n) => n = 0) /\ \A i \in 1..n : 1 + i - 1 = i
      BY <1>1
    <2> HIDE DEF n, p
    <2> QED
      BY <1>1, <2>2, <2>3
  <1> HIDE DEF p
  <1>4. ASSUME \A i \in 1..n : s[i] = t[i] PROVE s = p
    BY <1>3, <1>4, SeqEqual
  <1>5. ASSUME s = p PROVE \A i \in 1..n : s[i] = t[i]
    BY <1>3, <1>5
  <1> QED
    BY <1>2, <1>4, <1>5 DEF p

-----------------------------------------------------------------------------
(* The ids. *)

Letter == Plain \cup DOMAIN Hex   \* the characters of a text in lower case
Mark == "_"
Sign == Plain \cup {Mark}         \* those of an id

LEMMA EscapedFacts ==
  ASSUME NEW c \in Letter
  PROVE  /\ Escaped(c) \in Seq(Sign)
         /\ c \in Plain => Len(Escaped(c)) = 1 /\ Escaped(c)[1] = c
         /\ c \notin Plain => /\ Len(Escaped(c)) = 3
                             /\ Escaped(c)[1] = Mark
                             /\ Escaped(c)[2] = Hex[c][1]
                             /\ Escaped(c)[3] = Hex[c][2]
  <1>1. CASE c \in Plain
    <2>1. Escaped(c) = <<c>>
      BY <1>1 DEF Escaped
    <2>2. <<c>> \in Seq(Sign) /\ Len(<<c>>) = 1 /\ <<c>>[1] = c
      <3>1. c \in Sign
        BY <1>1 DEF Sign
      <3> QED
        BY <3>1
    <2> QED
      BY <1>1, <2>1, <2>2
  <1>2. CASE c \notin Plain
    <2>1. c \in DOMAIN Hex
      BY <1>2 DEF Letter
    <2>2. Hex[c] \in Plain \X Plain
      BY <2>1, CharAssumption
    <2>3. PICK x \in Plain, y \in Plain : Hex[c] = <<x, y>>
      BY <2>2
    <2>4. <<Mark>> \in Seq(Sign) /\ <<x, y>> \in Seq(Sign)
      <3>1. Mark \in Sign /\ x \in Sign /\ y \in Sign
        BY DEF Sign
      <3> QED
        BY <3>1
    <2>5. Escaped(c) = <<Mark>> \o <<x, y>>
      BY <1>2, <2>3 DEF Escaped, Mark
    <2>6. /\ Len(<<Mark>>) = 1 /\ <<Mark>>[1] = Mark
          /\ Len(<<x, y>>) = 2 /\ <<x, y>>[1] = x /\ <<x, y>>[2] = y
      OBVIOUS
    <2> DEFINE u == <<Mark>>
               v == <<x, y>>
    <2> HIDE DEF u, v
    <2>7. /\ u \in Seq(Sign) /\ v \in Seq(Sign) /\ Len(u) = 1 /\ Len(v) = 2
          /\ u[1] = Mark /\ v[1] = x /\ v[2] = y
          /\ Escaped(c) = u \o v
      BY <2>4, <2>5, <2>6 DEF u, v
    <2>8. /\ u \o v \in Seq(Sign)
          /\ Len(u \o v) = Len(u) + Len(v)
          /\ \A i \in 1..(Len(u) + Len(v)) :
               (u \o v)[i] = IF i <= Len(u) THEN u[i] ELSE v[i - Len(u)]
      BY <2>7, ConcatProperties
    <2>9. /\ Len(u \o v) = 3
          /\ (u \o v)[1] = Mark /\ (u \o v)[2] = x /\ (u \o v)[3] = y
      <3> DEFINE w == u \o v
      <3> HIDE DEF w
      <3>1. Len(w) = 3
        <4>1. Len(w) = Len(u) + Len(v) /\ Len(u) = 1 /\ Len(v) = 2
          BY <2>7, <2>8 DEF w
        <4> QED
          BY <4>1
      <3>2. \A i \in 1..3 : w[i] = IF i <= 1 THEN u[i] ELSE v[i - 1]
        <4>1. Len(u) = 1 /\ Len(u) + Len(v) = 3
          BY <2>7
        <4> QED
          BY <2>8, <4>1 DEF w
      <3>3. 2 - 1 = 1 /\ 3 - 1 = 2
        OBVIOUS
      <3>4. w[1] = u[1] /\ w[2] = v[1] /\ w[3] = v[2]
        BY <3>2, <3>3
      <3> QED
        BY <2>7, <3>1, <3>4 DEF w
    <2>10. Hex[c][1] = x /\ Hex[c][2] = y
      BY <2>3
    <2> QED
      BY <1>2, <2>7, <2>8, <2>9, <2>10
  <1> QED
    BY <1>1, <1>2

\* Two characters whose codes agree as far as both go are one.
LEMMA EscapedDiffer ==
  ASSUME NEW c \in Letter, NEW d \in Letter,
         \A i \in 1..Len(Escaped(c)) : i <= Len(Escaped(d)) => Escaped(c)[i] = Escaped(d)[i]
  PROVE  c = d
  <1>1. Escaped(c)[1] = Escaped(d)[1]
    <2>1. Len(Escaped(c)) \in {1, 3} /\ Len(Escaped(d)) \in {1, 3}
      BY EscapedFacts
    <2> QED
      BY <2>1
  <1>2. CASE c \in Plain \/ d \in Plain
    <2>1. Mark \notin Plain
      BY CharAssumption DEF Mark
    <2> QED
      BY <1>1, <1>2, <2>1, EscapedFacts
  <1>3. CASE c \notin Plain /\ d \notin Plain
    <2>1. Len(Escaped(c)) = 3 /\ Len(Escaped(d)) = 3
      BY <1>3, EscapedFacts
    <2>2. Escaped(c)[2] = Escaped(d)[2] /\ Escaped(c)[3] = Escaped(d)[3]
      BY <2>1
    <2>3. Hex[c][1] = Hex[d][1] /\ Hex[c][2] = Hex[d][2]
      BY <1>3, <2>2, EscapedFacts
    <2>4. c \in DOMAIN Hex /\ d \in DOMAIN Hex
      BY <1>3 DEF Letter
    <2>5. Hex[c] \in Plain \X Plain /\ Hex[d] \in Plain \X Plain
      BY <2>4, CharAssumption
    <2>6. Hex[c] = Hex[d]
      BY <2>3, <2>5
    <2> QED
      BY <2>4, <2>6, CharAssumption
  <1> QED
    BY <1>2, <1>3

\* f is the result of convertToId after each character of s.
Codes(f, s) ==
  /\ f \in [0..Len(s) -> Seq(Sign)]
  /\ f[0] = <<>>
  /\ \A n \in 1..Len(s) : f[n] = f[n - 1] \o Escaped(s[n])
  /\ ConvertToId(s) = f[Len(s)]

LEMMA CodesExist ==
  ASSUME NEW s \in Seq(Letter)
  PROVE  \E f : Codes(f, s)
  <1> DEFINE seqs == [i \in DOMAIN s |-> Escaped(s[i])]
             N == Len(s)
  <1>1. N \in Nat /\ DOMAIN s = 1..N /\ \A i \in 1..N : s[i] \in Letter
    BY LenProperties
  <1>2. seqs \in [1..N -> Seq(Sign)]
    BY <1>1, EscapedFacts
  <1>3. \A i \in 1..N : seqs[i] = Escaped(s[i])
    BY <1>1
  <1>4. ConvertToId(s) = FlattenSeq(seqs)
    BY DEF ConvertToId
  <1> HIDE DEF seqs
  <1>5. seqs \in Seq(Seq(Sign)) /\ Len(seqs) = N
    BY <1>1, <1>2, FunctionIsSeq
  <1>6. \E f \in [0..Len(seqs) -> Seq(Sign)] :
           /\ f[0] = <<>>
           /\ \A n \in 1..Len(seqs) : f[n] = f[n - 1] \o seqs[n]
           /\ FlattenSeq(seqs) = f[Len(seqs)]
    BY <1>5, FlattenSteps
  <1> QED
    BY <1>3, <1>4, <1>5, <1>6 DEF Codes

\* convertToId only appends.
LEMMA CodesGrow ==
  ASSUME NEW s \in Seq(Letter), NEW f, Codes(f, s),
         NEW n \in 0..Len(s), NEW k \in 0..n
  PROVE  Len(f[k]) <= Len(f[n]) /\ \A i \in 1..Len(f[k]) : f[n][i] = f[k][i]
  <1> DEFINE N == Len(s)
             Grown(m) == Len(f[k]) <= Len(f[m]) /\ \A i \in 1..Len(f[k]) : f[m][i] = f[k][i]
             H == {m \in Nat : k <= m /\ m <= N => Grown(m)}
  <1>1. N \in Nat /\ k \in 0..N /\ \A m \in 1..N : s[m] \in Letter
    BY LenProperties, ElementOfSeq
  <1>2. \A m \in 0..N : f[m] \in Seq(Sign) /\ Len(f[m]) \in Nat
    BY LenProperties DEF Codes
  <1>3. Grown(k)
    BY <1>1, <1>2
  <1>4. 0 \in H
    <2> SUFFICES ASSUME k <= 0 PROVE Grown(0)
      OBVIOUS
    <2>1. k = 0
      BY <1>1
    <2> HIDE DEF Grown
    <2> QED
      BY <1>3, <2>1
  <1>5. ASSUME NEW m \in Nat, m \in H PROVE m + 1 \in H
    <2> SUFFICES ASSUME k <= m + 1, m + 1 <= N PROVE Grown(m + 1)
      OBVIOUS
    <2>1. CASE k = m + 1
      <3> HIDE DEF Grown
      <3> QED
        BY <1>3, <2>1
    <2>2. CASE k # m + 1
      <3>1. /\ m \in 0..N /\ m + 1 \in 1..N /\ (m + 1) - 1 = m
            /\ Grown(m)
        BY <1>1, <1>5, <2>2
      <3>2. f[m + 1] = f[m] \o Escaped(s[m + 1])
        <4>1. f[m + 1] = f[(m + 1) - 1] \o Escaped(s[m + 1])
          BY <3>1 DEF Codes
        <4> QED
          BY <3>1, <4>1
      <3> DEFINE u == f[m]
                 e == Escaped(s[m + 1])
      <3>3. u \in Seq(Sign) /\ e \in Seq(Sign) /\ Len(u) \in Nat /\ Len(e) \in Nat
        BY <1>1, <1>2, <3>1, EscapedFacts, LenProperties
      <3>4. /\ Len(f[m + 1]) = Len(u) + Len(e)
            /\ \A i \in 1..(Len(u) + Len(e)) : i <= Len(u) => f[m + 1][i] = u[i]
        <4> HIDE DEF u, e
        <4>1. Len(u \o e) = Len(u) + Len(e)
          BY <3>3, ConcatProperties
        <4>2. \A i \in 1..(Len(u) + Len(e)) : i <= Len(u) => (u \o e)[i] = u[i]
          BY <3>3, ConcatProperties
        <4> QED
          BY <3>2, <4>1, <4>2 DEF u, e
      <3>5. Len(f[k]) <= Len(u) /\ \A i \in 1..Len(f[k]) : u[i] = f[k][i]
        BY <3>1
      <3>6. Len(f[k]) \in Nat
        BY <1>1, <1>2
      <3> HIDE DEF u, e
      <3>7. Len(f[k]) <= Len(f[m + 1])
        BY <3>3, <3>4, <3>5, <3>6
      <3>8. ASSUME NEW i \in 1..Len(f[k]) PROVE f[m + 1][i] = f[k][i]
        <4>1. i \in 1..(Len(u) + Len(e)) /\ i <= Len(u)
          BY <3>3, <3>5, <3>6
        <4>2. f[m + 1][i] = u[i]
          BY <3>4, <4>1
        <4> QED
          BY <3>5, <4>2
      <3> QED
        BY <3>7, <3>8
    <2> QED
      BY <2>1, <2>2
  <1>6. Grown(n)
    <2>1. n \in H
      <3> HIDE DEF H
      <3> QED
        BY <1>1, <1>4, <1>5, NumberInduction
    <2> HIDE DEF Grown
    <2> QED
      BY <1>1, <2>1
  <1> QED
    BY <1>6

\* The code of the character after the first k stands in the id after theirs.
Placed(f, s, k) ==
  /\ Len(f[k]) \in Nat
  /\ Len(ConvertToId(s)) \in Nat
  /\ Len(f[k]) + Len(Escaped(s[k + 1])) <= Len(ConvertToId(s))
  /\ \A i \in 1..Len(Escaped(s[k + 1])) :
       ConvertToId(s)[Len(f[k]) + i] = Escaped(s[k + 1])[i]

LEMMA CodeStep ==
  ASSUME NEW s \in Seq(Letter), NEW f, Codes(f, s),
         NEW k \in Nat, k + 1 <= Len(s)
  PROVE  Placed(f, s, k)
  <1> DEFINE N == Len(s)
             u == f[k]
             e == Escaped(s[k + 1])
             v == f[k + 1]
             id == ConvertToId(s)
  <1>1. /\ N \in Nat /\ k \in 0..N /\ k + 1 \in 1..N /\ k + 1 \in 0..N
        /\ N \in 0..N /\ (k + 1) - 1 = k
    BY LenProperties
  <1>2. id = f[N]
    BY DEF Codes
  <1>3. v = u \o e
    <2>1. f[k + 1] = f[(k + 1) - 1] \o Escaped(s[k + 1])
      BY <1>1 DEF Codes
    <2> QED
      BY <1>1, <2>1
  <1>4. u \in Seq(Sign) /\ e \in Seq(Sign) /\ id \in Seq(Sign) /\ v \in Seq(Sign)
    BY <1>1, ElementOfSeq, EscapedFacts DEF Codes
  <1>5. Len(v) <= Len(id) /\ \A i \in 1..Len(v) : id[i] = v[i]
    BY <1>1, <1>2, CodesGrow
  <1> HIDE DEF u, e, v, id
  <1>6. Len(u) \in Nat /\ Len(e) \in Nat /\ Len(id) \in Nat
    BY <1>4, LenProperties
  <1>7. /\ Len(v) = Len(u) + Len(e)
        /\ \A i \in 1..(Len(u) + Len(e)) :
             v[i] = IF i <= Len(u) THEN u[i] ELSE e[i - Len(u)]
    BY <1>3, <1>4, ConcatProperties
  <1>8. ASSUME NEW i \in 1..Len(e) PROVE id[Len(u) + i] = e[i]
    <2>1. Len(u) + i \in 1..(Len(u) + Len(e)) /\ ~(Len(u) + i <= Len(u)) /\ (Len(u) + i) - Len(u) = i
      BY <1>6
    <2>2. v[Len(u) + i] = e[(Len(u) + i) - Len(u)]
      BY <1>7, <2>1
    <2> QED
      BY <1>5, <1>7, <2>1, <2>2
  <1>9. Len(u) + Len(e) <= Len(id)
    BY <1>5, <1>7
  <1> QED
    BY <1>6, <1>8, <1>9 DEF u, e, id, Placed

\* convertToId is a prefix code: that an underscore or a blank becomes three
\* characters, which could stand in a text themselves, mixes up no two texts.
THEOREM PrefixCode ==
  ASSUME NEW s \in Seq(Letter), NEW t \in Seq(Letter)
  PROVE  IsPrefix(ConvertToId(s), ConvertToId(t)) <=> IsPrefix(s, t)
  <1> DEFINE a == ConvertToId(s)
             b == ConvertToId(t)
  <1>1. PICK f : Codes(f, s)
    BY CodesExist
  <1>2. PICK g : Codes(g, t)
    BY CodesExist
  <1>3. /\ a \in Seq(Sign) /\ b \in Seq(Sign)
        /\ a = f[Len(s)] /\ b = g[Len(t)] /\ f[0] = g[0]
    <2>1. Len(s) \in 0..Len(s) /\ Len(t) \in 0..Len(t)
      BY LenProperties
    <2> QED
      BY <1>1, <1>2, <2>1 DEF Codes
  <1>4. /\ Len(s) \in Nat /\ Len(t) \in Nat
        /\ \A i \in 1..Len(s) : s[i] \in Letter
        /\ \A i \in 1..Len(t) : t[i] \in Letter
    BY LenProperties, ElementOfSeq
  <1> DEFINE Same(k) == k <= Len(t) /\ f[k] = g[k] /\ \A i \in 1..k : s[i] = t[i]
  <1>5. ASSUME NEW k \in Nat, k + 1 <= Len(s), Same(k), k + 1 <= Len(t), s[k + 1] = t[k + 1]
        PROVE  Same(k + 1)
    <2>1. k + 1 \in 1..Len(s) /\ k + 1 \in 1..Len(t) /\ (k + 1) - 1 = k
      BY <1>4, <1>5
    <2>2. f[k + 1] = f[(k + 1) - 1] \o Escaped(s[k + 1])
      BY <1>1, <2>1 DEF Codes
    <2>3. g[k + 1] = g[(k + 1) - 1] \o Escaped(t[k + 1])
      BY <1>2, <2>1 DEF Codes
    <2>4. f[k + 1] = g[k + 1]
      BY <1>5, <2>1, <2>2, <2>3
    <2>5. \A i \in 1..(k + 1) : i = k + 1 \/ i \in 1..k
      OBVIOUS
    <2> QED
      BY <1>5, <2>4, <2>5
  <1>6. Same(0)
    BY <1>3, <1>4
  <1> HIDE DEF a, b
  <1>7. ASSUME IsPrefix(s, t) PROVE IsPrefix(a, b)
    <2>1. Len(s) <= Len(t) /\ \A i \in 1..Len(s) : s[i] = t[i]
      BY <1>7, PrefixPointwise
    <2> DEFINE H == {k \in Nat : k <= Len(s) => Same(k)}
    <2>2. 0 \in H
      BY <1>6
    <2>3. ASSUME NEW k \in Nat, k \in H PROVE k + 1 \in H
      <3> SUFFICES ASSUME k + 1 <= Len(s) PROVE Same(k + 1)
        OBVIOUS
      <3>1. k <= Len(s) /\ k + 1 <= Len(t) /\ k + 1 \in 1..Len(s)
        BY <1>4, <2>1
      <3>2. Same(k)
        BY <2>3, <3>1
      <3>3. s[k + 1] = t[k + 1]
        BY <2>1, <3>1
      <3> HIDE DEF Same
      <3> QED
        BY <1>5, <3>1, <3>2, <3>3
    <2>4. Same(Len(s))
      <3>1. Len(s) \in H
        <4> HIDE DEF H
        <4> QED
          BY <1>4, <2>2, <2>3, NumberInduction
      <3> HIDE DEF Same
      <3> QED
        BY <1>4, <3>1
    <2>5. Len(s) \in 0..Len(t) /\ Len(t) \in 0..Len(t)
      BY <1>4, <2>1
    <2>6. /\ Len(g[Len(s)]) <= Len(g[Len(t)])
          /\ \A i \in 1..Len(g[Len(s)]) : g[Len(t)][i] = g[Len(s)][i]
      BY <1>2, <2>5, CodesGrow
    <2>7. Len(a) <= Len(b) /\ \A i \in 1..Len(a) : a[i] = b[i]
      BY <1>3, <2>4, <2>6
    <2> QED
      BY <1>3, <2>7, PrefixPointwise
  <1>8. ASSUME IsPrefix(a, b) PROVE IsPrefix(s, t)
    <2>1. Len(a) <= Len(b) /\ \A i \in 1..Len(a) : a[i] = b[i]
      BY <1>3, <1>8, PrefixPointwise
    <2> DEFINE H == {k \in Nat : k <= Len(s) => Same(k)}
    <2>2. 0 \in H
      BY <1>6
    <2>3. ASSUME NEW k \in Nat, k \in H PROVE k + 1 \in H
      <3> SUFFICES ASSUME k + 1 <= Len(s) PROVE Same(k + 1)
        OBVIOUS
      <3> DEFINE c == Escaped(s[k + 1])
                 d == Escaped(t[k + 1])
                 l == Len(f[k])
      <3>1. k <= Len(s) /\ k + 1 \in 1..Len(s)
        BY <1>4
      <3>2. Same(k)
        BY <2>3, <3>1
      <3>3. /\ l \in Nat /\ Len(a) \in Nat /\ l + Len(c) <= Len(a)
            /\ \A i \in 1..Len(c) : a[l + i] = c[i]
        <4>1. Placed(f, s, k)
          BY <1>1, CodeStep
        <4> QED
          BY <4>1 DEF a, Placed
      <3>4. Len(c) \in {1, 3} /\ s[k + 1] \in Letter
        BY <1>4, <3>1, EscapedFacts
      <3>5. Len(b) \in Nat
        BY <1>3, LenProperties
      <3>6. k + 1 <= Len(t)
        <4> SUFFICES ASSUME k = Len(t) PROVE FALSE
          BY <1>4, <3>2
        <4>1. Len(b) = l
          BY <1>3, <3>2
        <4> HIDE DEF c, l
        <4>2. Len(a) <= Len(b) /\ Len(c) >= 1 /\ Len(c) \in Nat
          <5>1. PICK n \in {1, 3} : Len(c) = n
            BY <3>4
          <5>2. n >= 1 /\ n \in Nat
            OBVIOUS
          <5>3. Len(a) <= Len(b)
            BY <2>1, Zenon
          <5> QED
            BY <5>1, <5>2, <5>3, Zenon
        <4>3. l \in Nat /\ Len(a) \in Nat /\ l + Len(c) <= Len(a)
          BY <3>3
        <4> QED
          BY <3>5, <4>1, <4>2, <4>3
      <3>7. /\ Len(g[k]) = l
            /\ l + Len(d) <= Len(b)
            /\ \A i \in 1..Len(d) : b[l + i] = d[i]
        <4>1. g[k] = f[k]
          BY <3>2
        <4>2. /\ Len(g[k]) + Len(d) <= Len(b)
              /\ \A i \in 1..Len(d) : b[Len(g[k]) + i] = d[i]
          <5>1. Placed(g, t, k)
            BY <1>2, <3>6, CodeStep
          <5> QED
            BY <5>1 DEF b, Placed
        <4> HIDE DEF d
        <4> QED
          BY <4>1, <4>2
      <3>8. t[k + 1] \in Letter /\ Len(d) \in {1, 3}
        <4>1. k + 1 \in 1..Len(t)
          BY <1>4, <3>6
        <4> QED
          BY <1>4, <4>1, EscapedFacts
      <3>9. \A i \in 1..Len(c) : i <= Len(d) => c[i] = d[i]
        <4> HIDE DEF c, d, l
        <4> SUFFICES ASSUME NEW i \in 1..Len(c), i <= Len(d) PROVE c[i] = d[i]
          OBVIOUS
        <4>1. l + i \in 1..Len(a) /\ i \in 1..Len(d)
          BY <3>3, <3>4, <3>8
        <4>2. a[l + i] = c[i]
          BY <3>3
        <4>3. b[l + i] = d[i]
          BY <3>7, <4>1
        <4> QED
          BY <2>1, <4>1, <4>2, <4>3
      <3>10. s[k + 1] = t[k + 1]
        BY <3>4, <3>8, <3>9, EscapedDiffer
      <3> HIDE DEF Same
      <3> QED
        BY <1>5, <3>2, <3>6, <3>10
    <2>4. Same(Len(s))
      <3>1. Len(s) \in H
        <4> HIDE DEF H
        <4> QED
          BY <1>4, <2>2, <2>3, NumberInduction
      <3> HIDE DEF Same
      <3> QED
        BY <1>4, <3>1
    <2> QED
      BY <2>4, PrefixPointwise
  <1> QED
    BY <1>7, <1>8 DEF a, b

-----------------------------------------------------------------------------
(* The filter. *)

LEMMA ToLowerType ==
  ASSUME NEW t \in Seq(DOMAIN Lower)
  PROVE  ToLower(t) \in Seq(Letter)
  <1>1. Len(t) \in Nat /\ DOMAIN t = 1..Len(t) /\ \A i \in 1..Len(t) : t[i] \in DOMAIN Lower
    BY LenProperties
  <1>2. \A c \in DOMAIN Lower : Lower[c] \in Letter
    BY CharAssumption DEF Letter
  <1>3. ToLower(t) \in [1..Len(t) -> Letter]
    BY <1>1, <1>2 DEF ToLower
  <1> QED
    BY <1>1, <1>3, FunctionIsSeq

LEMMA TrimType ==
  ASSUME NEW t \in Seq(DOMAIN Lower)
  PROVE  Trim(t) \in Seq(DOMAIN Lower)
  <1> DEFINE inner == {i \in DOMAIN t : t[i] # Blank}
             n == Len(t)
  <1>1. n \in Nat /\ DOMAIN t = 1..n /\ \A i \in 1..n : t[i] \in DOMAIN Lower
    BY LenProperties
  <1>2. CASE inner = {}
    BY <1>2 DEF Trim
  <1>3. CASE inner # {}
    <2>1. Trim(t) = SubSeq(t, Min(inner), Max(inner))
      BY <1>3 DEF Trim
    <2>2. inner \in SUBSET (1..n) /\ inner \in SUBSET Nat /\ inner \in SUBSET (0..n)
      BY <1>1
    <2> HIDE DEF inner
    <2>3. Min(inner) \in 1..n /\ Max(inner) \in 1..n
      BY <1>1, <1>3, <2>2, MinIsLeast, MaxIsGreatest
    <2>4. \A i \in Min(inner)..Max(inner) : t[i] \in DOMAIN Lower
      BY <1>1, <2>3
    <2>5. Min(inner) \in Int /\ Max(inner) \in Int
      BY <1>1, <2>3
    <2> QED
      BY <2>1, <2>4, <2>5, SubSeqProperties
  <1> QED
    BY <1>2, <1>3

\* Search finds by ids what a comparison of the texts would find.
LEMMA FoundByText ==
  ASSUME NEW t \in Terms
  PROVE  Found(t) = {e \in Row : IsPrefix(ToLower(Trim(t)), ToLower(Entries[e].label))}
  <1>1. ToLower(Trim(t)) \in Seq(Letter)
    BY TextAssumption, TrimType, ToLowerType
  <1>2. ASSUME NEW e \in Row
        PROVE  IsPrefix(ConvertToId(ToLower(Trim(t))), Entries[e].id) <=>
                 IsPrefix(ToLower(Trim(t)), ToLower(Entries[e].label))
    <2>1. ToLower(Entries[e].label) \in Seq(Letter)
      BY TextAssumption, ToLowerType DEF Row
    <2>2. Entries[e].id = ConvertToId(ToLower(Entries[e].label))
      BY IdAssumption DEF Row
    <2> QED
      BY <1>1, <2>1, <2>2, PrefixCode
  <1> QED
    BY <1>2 DEF Found

\* Only a page that is loaded filters anew.
Filtered == shown = Found(term) /\ (noMatches <=> shown = {})

LEMMA StepFiltered == Filtered /\ [Next]_vars => Filtered'
  <1> SUFFICES ASSUME Filtered, [Next]_vars PROVE Filtered'
    OBVIOUS
  <1>1. CASE UNCHANGED page
    BY <1>1 DEF Filtered, Found, page
  <1>2. ASSUME NEW t \in Terms, Load(t) PROVE Filtered'
    BY <1>2 DEF Load, Document, Filtered, Found
  <1>3. UNCHANGED page \/ \E t \in Terms : Load(t)
    BY DEF Next, KeyDown, KeyPress, KeyUp, Toggle, FromField, Visit, vars, page
  <1> QED
    BY <1>1, <1>2, <1>3

\* The rows shown are those whose label starts with the term, in whatever case
\* and with whatever blanks around it, for all pages and terms (convertToId,
\* SearchResults.Search).
THEOREM FilterIsExact == Spec => []FilterExact
  <1>1. Init => Filtered
    BY DEF Init, Document, Filtered, Found
  <1>2. IInv /\ Filtered => FilterExact
    BY FoundByText DEF IInv, TypeOK, Filtered, FilterExact
  <1> QED
    BY <1>1, <1>2, StepFiltered, InvariantHolds, PTL DEF Spec

=============================================================================
