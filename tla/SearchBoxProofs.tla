-------------------------- MODULE SearchBoxProofs --------------------------
(***************************************************************************)
(* Proofs about SearchBox, for every set of texts, every index of sections *)
(* and every number of timers.                                             *)
(***************************************************************************)
EXTENDS SearchBox, TLAPS

\* Where the focus may go by the mouse or Tab.
Place == {"page", "select", "results"}

\* The numbers of the filters, and the one past the last.
LEMMA SectionNumbers ==
  /\ 0 \in Section
  /\ Section \subseteq 0..Len(Content)
  /\ \A i \in Section : i + 1 \in 0..Len(Content) /\ i - 1 \in -1..Len(Content)
  /\ \A i \in 0..Len(Content) : i > 0 => i - 1 \in Section
  /\ \A i \in 0..Len(Content) : i - 1 \in Section \/ i = 0
  BY SectionAssumption DEF SectionAssumption, Section

\* A step is one of the actions.
LEMMA Actions ==
  ASSUME Next
  PROVE  \/ FocusField
         \/ \E f \in Place : LeaveField(f) \/ MoveFocus(f)
         \/ \E t \in Text : Edit(t)
         \/ KeyUp \/ KeyUpDown \/ KeyUpShiftDown \/ KeyUpEscape
         \/ Expire
         \/ CloseResultsWindow \/ ResultsEscape \/ FrameLoads
         \/ PointerIn \/ PointerOut \/ HideExpires
         \/ \E i \in Section : ClickItem(i)
         \/ SelectDown \/ SelectUp \/ SelectEnter
  BY DEF Next, Place

-----------------------------------------------------------------------------
(* Types. *)

\* The parts of TypeOK that handlers change together.
BoxOK ==
  /\ value \in Text
  /\ active \in BOOLEAN
  /\ searchActive \in BOOLEAN
  /\ lastSearchValue \in {Lead(t) : t \in Text} \cup {<<>>}

TimingOK ==
  /\ keyTimeout \in BOOLEAN
  /\ timers \in Nat
  /\ keyTimeout => timers > 0

ResultsOK ==
  /\ resultsShown \in BOOLEAN
  /\ dest \in Pages \cup {NoPage}
  /\ going \in BOOLEAN
  /\ frame \in {"blank", "nomatches", "results"}

SelectOK ==
  /\ selectShown \in BOOLEAN
  /\ hideTimeout \in BOOLEAN
  /\ over \in BOOLEAN
  /\ searchIndex \in 0..Len(Content)
  /\ focus \in {"page", "field", "select", "results"}

LEMMA TypeParts == TypeOK <=> BoxOK /\ TimingOK /\ ResultsOK /\ SelectOK
  BY DEF TypeOK, BoxOK, TimingOK, ResultsOK, SelectOK

\* The page of a text of the field is one of the pages.
LEMMA PageType ==
  ASSUME NEW v \in Text, NEW i \in Section
  PROVE  Page(i, Lead(v)) \in Pages
  BY DEF Pages

\* A search leaves every variable it changes with a value of its type.
LEMMA SearchType ==
  ASSUME NEW v \in Text, NEW i \in 0..Len(Content), Search(v, i),
         BoxOK, TimingOK, ResultsOK
  PROVE  /\ lastSearchValue' \in {Lead(t) : t \in Text} \cup {<<>>}
         /\ keyTimeout' = FALSE
         /\ ResultsOK'
  <1>1. CASE i \in Section
    BY <1>1, PageType DEF Search, Remember, ResultsOK
  <1>2. CASE i \notin Section
    BY <1>2 DEF Search, BoxOK, ResultsOK
  <1> QED
    BY <1>1, <1>2

\* So does a choice of filter.
LEMMA OnSelectType ==
  ASSUME NEW i \in 0..Len(Content), OnSelectItem(i), UNCHANGED timers,
         BoxOK, TimingOK, ResultsOK
  PROVE  /\ lastSearchValue' \in {Lead(t) : t \in Text} \cup {<<>>}
         /\ TimingOK'
         /\ ResultsOK'
         /\ searchIndex' = i
  <1>1. CASE Searches
    <2>1. value \in Text /\ Search(value, i)
      BY <1>1 DEF OnSelectItem, BoxOK
    <2> QED
      BY <2>1, SearchType DEF OnSelectItem, TimingOK
  <1>2. CASE ~Searches
    BY <1>2 DEF OnSelectItem, BoxOK, TimingOK, ResultsOK, results
  <1> QED
    BY <1>1, <1>2

\* The timers that are left when the field's is stopped.
LEMMA LeftType ==
  ASSUME TimingOK
  PROVE  Left \in Nat
  BY DEF TimingOK, Left

\* The end of OnSearchFieldChange.
LEMMA CompareType ==
  ASSUME NEW v, Compare(v), BoxOK, TimingOK, ResultsOK
  PROVE  /\ lastSearchValue' \in {Lead(t) : t \in Text} \cup {<<>>}
         /\ TimingOK'
         /\ ResultsOK'
  <1>1. Left \in Nat
    BY LeftType
  <1>2. TimingOK'
    <2>1. \/ keyTimeout' = FALSE /\ timers' = Left
          \/ keyTimeout' = TRUE /\ timers' = Left + 1
      BY DEF Compare, Arm
    <2>2. keyTimeout' \in BOOLEAN
      BY <2>1
    <2>3. timers' \in Nat
      BY <1>1, <2>1
    <2>4. keyTimeout' => timers' > 0
      BY <1>1, <2>1
    <2> QED
      BY <2>2, <2>3, <2>4 DEF TimingOK
  <1>3. ResultsOK' /\ lastSearchValue' \in {Lead(t) : t \in Text} \cup {<<>>}
    BY DEF Compare, ResultsOK, BoxOK, results
  <1> QED
    BY <1>2, <1>3

\* Both branches of Activate.
LEMMA ActivateType ==
  ASSUME NEW a, NEW s, Activate(a, s), BoxOK
  PROVE  BoxOK'
  <1>1. \/ Enter /\ UNCHANGED lastSearchValue
        \/ Reset
    BY DEF Activate
  <1> QED
    BY <1>1, TextAssumption DEF TextAssumption, Enter, Reset, BoxOK

LEMMA TypeInit == Init => TypeOK
  <1> SUFFICES ASSUME Init PROVE TypeOK
    OBVIOUS
  <1>1. timers \in Nat /\ searchIndex \in 0..Len(Content)
    BY SectionNumbers DEF Init
  <1> QED
    BY <1>1, TextAssumption DEF TextAssumption, Init, TypeOK

LEMMA TypeStep == TypeOK /\ [Next]_vars => TypeOK'
  <1> SUFFICES ASSUME TypeOK, [Next]_vars PROVE TypeOK'
    OBVIOUS
  <1>0. BoxOK /\ TimingOK /\ ResultsOK /\ SelectOK
    BY TypeParts
  <1> USE <1>0
  <1>a. Left \in Nat
    BY LeftType
  <1> SUFFICES BoxOK' /\ TimingOK' /\ ResultsOK' /\ SelectOK'
    BY DEF TypeOK, BoxOK, TimingOK, ResultsOK, SelectOK
  <1>1. CASE FocusField
    BY <1>1, ActivateType DEF FocusField, timing, results, select, TimingOK, ResultsOK, SelectOK
  <1>2. ASSUME NEW f \in Place, LeaveField(f)
        PROVE  BoxOK' /\ TimingOK' /\ ResultsOK' /\ SelectOK'
    BY <1>2, ActivateType DEF LeaveField, Place, timing, results, select, TimingOK, ResultsOK, SelectOK
  <1>3. ASSUME NEW f \in Place, MoveFocus(f)
        PROVE  BoxOK' /\ TimingOK' /\ ResultsOK' /\ SelectOK'
    BY <1>3 DEF MoveFocus, Place, box, timing, results, select, BoxOK, TimingOK, ResultsOK, SelectOK
  <1>4. ASSUME NEW t \in Text, Edit(t)
        PROVE  BoxOK' /\ TimingOK' /\ ResultsOK' /\ SelectOK'
    BY <1>4 DEF Edit, timing, results, select, BoxOK, TimingOK, ResultsOK, SelectOK
  <1>5. CASE KeyUp
    BY <1>5, CompareType DEF KeyUp, select, BoxOK, SelectOK
  <1>6. CASE KeyUpDown
    <2>1. \E v : Compare(v)
      BY <1>6 DEF KeyUpDown
    <2>2. /\ value' \in Text
          /\ active' \in BOOLEAN
          /\ searchActive' \in BOOLEAN
          /\ focus' \in {"page", "field", "select", "results"}
      BY <1>6, TextAssumption DEF TextAssumption, KeyUpDown, Enter, BoxOK, SelectOK
    <2> QED
      BY <1>6, <2>1, <2>2, CompareType DEF KeyUpDown, select, BoxOK, SelectOK
  <1>7. CASE KeyUpShiftDown
    <2>1. TimingOK'
      BY <1>7, <1>a DEF KeyUpShiftDown, TimingOK
    <2> QED
      BY <1>7, <2>1, ActivateType DEF KeyUpShiftDown, Show, results, ResultsOK, SelectOK
  <1>8. CASE KeyUpEscape
    <2>1. TimingOK'
      BY <1>8, <1>a DEF KeyUpEscape, TimingOK
    <2>2. BoxOK'
      BY <1>8, TextAssumption DEF TextAssumption, KeyUpEscape, Reset, BoxOK
    <2> QED
      BY <1>8, <2>1, <2>2 DEF KeyUpEscape, select, ResultsOK, SelectOK
  <1>9. CASE Expire
    <2>1. value \in Text /\ searchIndex \in 0..Len(Content)
      BY DEF BoxOK, SelectOK
    <2>2. /\ lastSearchValue' \in {Lead(t) : t \in Text} \cup {<<>>}
          /\ keyTimeout' = FALSE
          /\ ResultsOK'
      BY <1>9, <2>1, SearchType DEF Expire
    <2>3. TimingOK'
      <3>1. timers' \in Nat
        BY <1>9 DEF Expire, TimingOK
      <3> QED
        BY <2>2, <3>1 DEF TimingOK
    <2> QED
      BY <1>9, <2>2, <2>3 DEF Expire, select, BoxOK, SelectOK
  <1>10. CASE CloseResultsWindow
    <2>1. BoxOK'
      BY <1>10, ActivateType DEF CloseResultsWindow, Deactivate
    <2> QED
      BY <1>10, <2>1 DEF CloseResultsWindow, timing, select, TimingOK, ResultsOK, SelectOK
  <1>11. CASE ResultsEscape
    BY <1>11, TextAssumption
    DEF TextAssumption, ResultsEscape, timing, select, BoxOK, TimingOK, ResultsOK, SelectOK
  <1>12. CASE FrameLoads
    BY <1>12 DEF FrameLoads, box, timing, select, BoxOK, TimingOK, ResultsOK, SelectOK
  <1>13. CASE PointerIn
    BY <1>13 DEF PointerIn, Show, box, timing, results, BoxOK, TimingOK, ResultsOK, SelectOK
  <1>14. CASE PointerOut
    BY <1>14 DEF PointerOut, box, timing, results, BoxOK, TimingOK, ResultsOK, SelectOK
  <1>15. CASE HideExpires
    BY <1>15 DEF HideExpires, box, timing, results, BoxOK, TimingOK, ResultsOK, SelectOK
  <1>16. ASSUME NEW i \in Section, ClickItem(i)
         PROVE  BoxOK' /\ TimingOK' /\ ResultsOK' /\ SelectOK'
    <2>1. i \in 0..Len(Content) /\ OnSelectItem(i) /\ UNCHANGED timers
      BY <1>16, SectionNumbers DEF ClickItem
    <2> QED
      BY <1>16, <2>1, OnSelectType DEF ClickItem, select, BoxOK, SelectOK
  <1>17. CASE SelectDown
    <2>1. searchIndex + 1 \in 0..Len(Content)
      BY <1>17, SectionNumbers DEF SelectDown
    <2>2. OnSelectItem(searchIndex + 1) /\ UNCHANGED timers
      BY <1>17 DEF SelectDown
    <2> QED
      BY <1>17, <2>1, <2>2, OnSelectType DEF SelectDown, select, BoxOK, SelectOK
  <1>18. CASE SelectUp
    <2>1. searchIndex - 1 \in 0..Len(Content)
      BY <1>18, SectionNumbers DEF SelectUp, SelectOK
    <2>2. OnSelectItem(searchIndex - 1) /\ UNCHANGED timers
      BY <1>18 DEF SelectUp
    <2> QED
      BY <1>18, <2>1, <2>2, OnSelectType DEF SelectUp, select, BoxOK, SelectOK
  <1>19. CASE SelectEnter
    <2>1. searchIndex \in 0..Len(Content)
      BY DEF SelectOK
    <2>2. OnSelectItem(searchIndex) /\ UNCHANGED timers
      BY <1>19 DEF SelectEnter
    <2>3. /\ value' \in Text
          /\ active' \in BOOLEAN
          /\ searchActive' \in BOOLEAN
          /\ selectShown' \in BOOLEAN
          /\ focus' \in {"page", "field", "select", "results"}
      BY <1>19, TextAssumption DEF TextAssumption, SelectEnter, Enter, BoxOK, SelectOK
    <2> QED
      BY <1>19, <2>1, <2>2, <2>3, OnSelectType DEF SelectEnter, BoxOK, SelectOK
  <1>20. CASE UNCHANGED vars
    BY <1>20 DEF vars, box, timing, results, select, BoxOK, TimingOK, ResultsOK, SelectOK
  <1> QED
    BY <1>1, <1>2, <1>3, <1>4, <1>5, <1>6, <1>7, <1>8, <1>9, <1>10, <1>11, <1>12,
       <1>13, <1>14, <1>15, <1>16, <1>17, <1>18, <1>19, <1>20, Actions

\* The variables hold values of their types, and a timer runs whenever the
\* field keyTimeout says so, although other timers may have been forgotten.
THEOREM TypeCorrect == Spec => []TypeOK
  BY TypeInit, TypeStep, PTL DEF Spec

-----------------------------------------------------------------------------
(* The window and what was searched for. *)

LEMMA HiddenForgetsInit == Init => HiddenForgets
  BY DEF Init, HiddenForgets

LEMMA HiddenForgetsStep == HiddenForgets /\ [Next]_vars => HiddenForgets'
  <1> SUFFICES ASSUME HiddenForgets, [Next]_vars PROVE HiddenForgets'
    OBVIOUS
  <1>1. CASE FocusField
    BY <1>1 DEF FocusField, Activate, Enter, results, HiddenForgets
  <1>2. ASSUME NEW f \in Place, LeaveField(f) PROVE HiddenForgets'
    BY <1>2 DEF LeaveField, Activate, Enter, Reset, results, HiddenForgets
  <1>3. ASSUME NEW f \in Place, MoveFocus(f) PROVE HiddenForgets'
    BY <1>3 DEF MoveFocus, box, results, HiddenForgets
  <1>4. ASSUME NEW t \in Text, Edit(t) PROVE HiddenForgets'
    BY <1>4 DEF Edit, results, HiddenForgets
  <1>5. CASE KeyUp
    BY <1>5 DEF KeyUp, Compare, results, HiddenForgets
  <1>6. CASE KeyUpDown
    BY <1>6 DEF KeyUpDown, Compare, results, HiddenForgets
  <1>7. CASE KeyUpShiftDown
    BY <1>7 DEF KeyUpShiftDown, Activate, Enter, Reset, results, HiddenForgets
  <1>8. CASE KeyUpEscape
    BY <1>8 DEF KeyUpEscape, Reset, HiddenForgets
  <1>9. CASE Expire
    BY <1>9 DEF Expire, Search, Remember, HiddenForgets
  <1>10. CASE CloseResultsWindow
    BY <1>10 DEF CloseResultsWindow, Deactivate, Activate, Reset, HiddenForgets
  <1>11. CASE ResultsEscape
    BY <1>11 DEF ResultsEscape, HiddenForgets
  <1>12. CASE FrameLoads
    BY <1>12 DEF FrameLoads, box, HiddenForgets
  <1>13. CASE PointerIn
    BY <1>13 DEF PointerIn, box, results, HiddenForgets
  <1>14. CASE PointerOut
    BY <1>14 DEF PointerOut, box, results, HiddenForgets
  <1>15. CASE HideExpires
    BY <1>15 DEF HideExpires, box, results, HiddenForgets
  <1>16. ASSUME NEW i \in Section, ClickItem(i) PROVE HiddenForgets'
    BY <1>16 DEF ClickItem, OnSelectItem, Search, Remember, results, HiddenForgets
  <1>17. CASE SelectDown \/ SelectUp
    BY <1>17 DEF SelectDown, SelectUp, OnSelectItem, Search, Remember, results, HiddenForgets
  <1>18. CASE SelectEnter
    BY <1>18 DEF SelectEnter, OnSelectItem, Search, Remember, results, HiddenForgets
  <1>19. CASE UNCHANGED vars
    BY <1>19 DEF vars, box, results, HiddenForgets
  <1> QED
    BY <1>1, <1>2, <1>3, <1>4, <1>5, <1>6, <1>7, <1>8, <1>9, <1>10, <1>11,
       <1>12, <1>13, <1>14, <1>15, <1>16, <1>17, <1>18, <1>19, Actions

\* A hidden window remembers no search: whatever is typed next is looked for,
\* or forgotten when the field is empty, and never taken for no change.
THEOREM NothingRemembered == Spec => []HiddenForgets
  BY HiddenForgetsInit, HiddenForgetsStep, PTL DEF Spec

-----------------------------------------------------------------------------
LEMMA FrameFollowsSearchInit == Init => FrameFollowsSearch
  BY DEF Init, FrameFollowsSearch

LEMMA FrameFollowsSearchStep == FrameFollowsSearch /\ [Next]_vars => FrameFollowsSearch'
  <1> SUFFICES ASSUME FrameFollowsSearch, [Next]_vars PROVE FrameFollowsSearch'
    OBVIOUS
  <1>1. CASE FocusField
    BY <1>1 DEF FocusField, Activate, Enter, results, FrameFollowsSearch
  <1>2. ASSUME NEW f \in Place, LeaveField(f) PROVE FrameFollowsSearch'
    BY <1>2 DEF LeaveField, Activate, Enter, Reset, results, FrameFollowsSearch
  <1>3. ASSUME NEW f \in Place, MoveFocus(f) PROVE FrameFollowsSearch'
    BY <1>3 DEF MoveFocus, box, results, FrameFollowsSearch
  <1>4. ASSUME NEW t \in Text, Edit(t) PROVE FrameFollowsSearch'
    BY <1>4 DEF Edit, results, FrameFollowsSearch
  <1>5. CASE KeyUp
    BY <1>5 DEF KeyUp, Compare, results, FrameFollowsSearch
  <1>6. CASE KeyUpDown
    BY <1>6 DEF KeyUpDown, Compare, results, FrameFollowsSearch
  <1>7. CASE KeyUpShiftDown
    BY <1>7 DEF KeyUpShiftDown, Activate, Enter, Reset, results, FrameFollowsSearch
  <1>8. CASE KeyUpEscape
    BY <1>8 DEF KeyUpEscape, Reset, FrameFollowsSearch
  <1>9. CASE Expire
    BY <1>9 DEF Expire, Search, Remember, FrameFollowsSearch
  <1>10. CASE CloseResultsWindow
    BY <1>10 DEF CloseResultsWindow, Deactivate, Activate, Reset, FrameFollowsSearch
  <1>11. CASE ResultsEscape
    BY <1>11 DEF ResultsEscape, FrameFollowsSearch
  <1>12. CASE FrameLoads
    BY <1>12 DEF FrameLoads, box, FrameFollowsSearch
  <1>13. CASE PointerIn
    BY <1>13 DEF PointerIn, box, results, FrameFollowsSearch
  <1>14. CASE PointerOut
    BY <1>14 DEF PointerOut, box, results, FrameFollowsSearch
  <1>15. CASE HideExpires
    BY <1>15 DEF HideExpires, box, results, FrameFollowsSearch
  <1>16. ASSUME NEW i \in Section, ClickItem(i) PROVE FrameFollowsSearch'
    BY <1>16 DEF ClickItem, OnSelectItem, Search, Remember, results, FrameFollowsSearch
  <1>17. CASE SelectDown \/ SelectUp
    BY <1>17 DEF SelectDown, SelectUp, OnSelectItem, Search, Remember, results, FrameFollowsSearch
  <1>18. CASE SelectEnter
    BY <1>18 DEF SelectEnter, OnSelectItem, Search, Remember, results, FrameFollowsSearch
  <1>19. CASE UNCHANGED vars
    BY <1>19 DEF vars, box, results, FrameFollowsSearch
  <1> QED
    BY <1>1, <1>2, <1>3, <1>4, <1>5, <1>6, <1>7, <1>8, <1>9, <1>10, <1>11,
       <1>12, <1>13, <1>14, <1>15, <1>16, <1>17, <1>18, <1>19, Actions

\* What the window shows, or is about to, is the page of the last search.
THEOREM FrameShowsSearch == Spec => []FrameFollowsSearch
  BY FrameFollowsSearchInit, FrameFollowsSearchStep, PTL DEF Spec

-----------------------------------------------------------------------------
(* The box, and the window of filters. *)

LEMMA LabelWhenIdleInit == Init => LabelWhenIdle
  BY DEF Init, LabelWhenIdle

LEMMA LabelWhenIdleStep == LabelWhenIdle /\ [Next]_vars => LabelWhenIdle'
  <1> SUFFICES ASSUME LabelWhenIdle, [Next]_vars PROVE LabelWhenIdle'
    OBVIOUS
  <1>1. CASE FocusField
    BY <1>1 DEF FocusField, Activate, Enter, LabelWhenIdle
  <1>2. ASSUME NEW f \in Place, LeaveField(f) PROVE LabelWhenIdle'
    BY <1>2 DEF LeaveField, Activate, Enter, Reset, Focusable, LabelWhenIdle
  <1>3. ASSUME NEW f \in Place, MoveFocus(f) PROVE LabelWhenIdle'
    BY <1>3 DEF MoveFocus, box, Focusable, LabelWhenIdle
  <1>4. ASSUME NEW t \in Text, Edit(t) PROVE LabelWhenIdle'
    BY <1>4 DEF Edit, LabelWhenIdle
  <1>5. CASE KeyUp
    BY <1>5 DEF KeyUp, LabelWhenIdle
  <1>6. CASE KeyUpDown
    <2>1. \/ focus' = "results" /\ Enter
          \/ UNCHANGED <<value, active, searchActive, focus>>
      BY <1>6 DEF KeyUpDown
    <2> QED
      BY <2>1 DEF Enter, LabelWhenIdle
  <1>7. CASE KeyUpShiftDown
    BY <1>7 DEF KeyUpShiftDown, Activate, Enter, Reset, LabelWhenIdle
  <1>8. CASE KeyUpEscape
    BY <1>8 DEF KeyUpEscape, Reset, LabelWhenIdle
  <1>9. CASE Expire
    BY <1>9 DEF Expire, LabelWhenIdle
  <1>10. CASE CloseResultsWindow
    BY <1>10 DEF CloseResultsWindow, Deactivate, Activate, Reset, LabelWhenIdle
  <1>11. CASE ResultsEscape
    BY <1>11 DEF ResultsEscape, LabelWhenIdle
  <1>12. CASE FrameLoads
    BY <1>12 DEF FrameLoads, box, LabelWhenIdle
  <1>13. CASE PointerIn
    BY <1>13 DEF PointerIn, box, LabelWhenIdle
  <1>14. CASE PointerOut
    BY <1>14 DEF PointerOut, box, LabelWhenIdle
  <1>15. CASE HideExpires
    BY <1>15 DEF HideExpires, box, LabelWhenIdle
  <1>16. ASSUME NEW i \in Section, ClickItem(i) PROVE LabelWhenIdle'
    BY <1>16 DEF ClickItem, LabelWhenIdle
  <1>17. CASE SelectDown \/ SelectUp
    BY <1>17 DEF SelectDown, SelectUp, LabelWhenIdle
  <1>18. CASE SelectEnter
    BY <1>18 DEF SelectEnter, Enter, LabelWhenIdle
  <1>19. CASE UNCHANGED vars
    BY <1>19 DEF vars, box, LabelWhenIdle
  <1> QED
    BY <1>1, <1>2, <1>3, <1>4, <1>5, <1>6, <1>7, <1>8, <1>9, <1>10, <1>11,
       <1>12, <1>13, <1>14, <1>15, <1>16, <1>17, <1>18, <1>19, Actions

\* A box not in use shows its label, one that has the focus is in use.
THEOREM IdleShowsLabel == Spec => []LabelWhenIdle
  BY LabelWhenIdleInit, LabelWhenIdleStep, PTL DEF Spec

-----------------------------------------------------------------------------
LEMMA NotHiddenUnderPointerInit == Init => NotHiddenUnderPointer
  BY DEF Init, NotHiddenUnderPointer

LEMMA NotHiddenUnderPointerStep == NotHiddenUnderPointer /\ [Next]_vars => NotHiddenUnderPointer'
  <1> SUFFICES ASSUME NotHiddenUnderPointer, [Next]_vars PROVE NotHiddenUnderPointer'
    OBVIOUS
  <1>1. CASE FocusField
    BY <1>1 DEF FocusField, select, NotHiddenUnderPointer
  <1>2. ASSUME NEW f \in Place, LeaveField(f) PROVE NotHiddenUnderPointer'
    BY <1>2 DEF LeaveField, select, NotHiddenUnderPointer
  <1>3. ASSUME NEW f \in Place, MoveFocus(f) PROVE NotHiddenUnderPointer'
    BY <1>3 DEF MoveFocus, select, NotHiddenUnderPointer
  <1>4. ASSUME NEW t \in Text, Edit(t) PROVE NotHiddenUnderPointer'
    BY <1>4 DEF Edit, select, NotHiddenUnderPointer
  <1>5. CASE KeyUp
    BY <1>5 DEF KeyUp, select, NotHiddenUnderPointer
  <1>6. CASE KeyUpDown
    BY <1>6 DEF KeyUpDown, select, NotHiddenUnderPointer
  <1>7. CASE KeyUpShiftDown
    BY <1>7 DEF KeyUpShiftDown, Show, NotHiddenUnderPointer
  <1>8. CASE KeyUpEscape
    BY <1>8 DEF KeyUpEscape, select, NotHiddenUnderPointer
  <1>9. CASE Expire
    BY <1>9 DEF Expire, select, NotHiddenUnderPointer
  <1>10. CASE CloseResultsWindow
    BY <1>10 DEF CloseResultsWindow, select, NotHiddenUnderPointer
  <1>11. CASE ResultsEscape
    BY <1>11 DEF ResultsEscape, select, NotHiddenUnderPointer
  <1>12. CASE FrameLoads
    BY <1>12 DEF FrameLoads, select, NotHiddenUnderPointer
  <1>13. CASE PointerIn
    BY <1>13 DEF PointerIn, Show, NotHiddenUnderPointer
  <1>14. CASE PointerOut
    BY <1>14 DEF PointerOut, NotHiddenUnderPointer
  <1>15. CASE HideExpires
    BY <1>15 DEF HideExpires, NotHiddenUnderPointer
  <1>16. ASSUME NEW i \in Section, ClickItem(i) PROVE NotHiddenUnderPointer'
    BY <1>16 DEF ClickItem, select, NotHiddenUnderPointer
  <1>17. CASE SelectDown \/ SelectUp
    BY <1>17 DEF SelectDown, SelectUp, select, NotHiddenUnderPointer
  <1>18. CASE SelectEnter
    BY <1>18 DEF SelectEnter, NotHiddenUnderPointer
  <1>19. CASE UNCHANGED vars
    BY <1>19 DEF vars, select, NotHiddenUnderPointer
  <1> QED
    BY <1>1, <1>2, <1>3, <1>4, <1>5, <1>6, <1>7, <1>8, <1>9, <1>10, <1>11,
       <1>12, <1>13, <1>14, <1>15, <1>16, <1>17, <1>18, <1>19, Actions

\* The window of filters is not hidden while the pointer is over it.
THEOREM PointerKeepsWindow == Spec => []NotHiddenUnderPointer
  BY NotHiddenUnderPointerInit, NotHiddenUnderPointerStep, PTL DEF Spec

=============================================================================
