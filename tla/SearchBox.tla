----------------------------- MODULE SearchBox -----------------------------
(***************************************************************************)
(* The search box of the documentation (docs/search/search.js): the field  *)
(* with its label, the timer between a key and the search, the window with *)
(* the frame of results, and the window in which the filter is chosen.     *)
(* Every handler of the page is one step; between two of them the user     *)
(* types, moves the focus and the pointer, timers expire, and the frame    *)
(* finishes loading.                                                       *)
(***************************************************************************)
EXTENDS Integers, Sequences

CONSTANTS
  Text,       \* what the field may hold: sequences of lower case characters
  Label,      \* the text "Search" that stands in a field not in use
  Blank,      \* the space character
  Content,    \* indexSectionsWithContent: the first letters of each section
  NoMatches,  \* the address of nomatches.html
  NoPage,     \* the frame before the first search
  MaxTimers   \* bound: timers running at once

\* The sections are numbered from 0, as the filters are.
Section == 0..(Len(Content) - 1)
Letters(i) == Content[i + 1]

ASSUME TextAssumption == Label \in Text /\ <<>> \in Text
ASSUME SectionAssumption == Len(Content) \in Nat \ {0}

VARIABLES
  value,            \* the text in the field
  active,           \* the box has the class MSearchBoxActive
  searchActive,
  lastSearchValue,
  keyTimeout,       \* the field keyTimeout is not 0
  timers,           \* timers that will call Search
  resultsShown,     \* the window of results, and the link that closes it
  dest,             \* the address last given to the frame
  going,            \* the frame still shows the document before dest
  frame,            \* that document: "blank", "nomatches" or "results"
  selectShown,      \* the window of filters
  hideTimeout,      \* a timer will hide it
  over,             \* the pointer is over it, or over the icon that opens it
  searchIndex,      \* the filter chosen
  focus             \* "page", "field", "select" or "results"

box     == <<value, active, searchActive, lastSearchValue>>
timing  == <<keyTimeout, timers>>
results == <<resultsShown, dest, going, frame>>
select  == <<selectShown, hideTimeout, over>>
vars    == <<box, timing, results, select, searchIndex, focus>>

-----------------------------------------------------------------------------
(* Texts and pages. *)

\* replace(/ +/g, ""), and replace(/^ +/, "").
Squeezed(t) == SelectSeq(t, LAMBDA c : c # Blank)
Lead(t) ==
  IF Squeezed(t) = <<>> THEN <<>>
  ELSE LET first == CHOOSE i \in DOMAIN t :
                      t[i] # Blank /\ \A j \in 1..(i - 1) : t[j] = Blank
       IN  SubSeq(t, first, Len(t))

\* The page of section i for the term s, by its first letter; indexOf finds
\* the empty text at 0, so the empty term has the page of the first letter.
Page(i, s) ==
  IF s = <<>> THEN <<i, 1, s>>
  ELSE IF \E n \in DOMAIN Letters(i) : Letters(i)[n] = s[1]
       THEN <<i, CHOOSE n \in DOMAIN Letters(i) : Letters(i)[n] = s[1], s>>
       ELSE NoMatches

Pages == {Page(i, Lead(t)) : i \in Section, t \in Text}

-----------------------------------------------------------------------------
(* What the handlers share. *)

\* The two branches of Activate.
Enter ==
  /\ active' = TRUE
  /\ value' = IF value = Label THEN <<>> ELSE value
  /\ searchActive' = (searchActive \/ value = Label)

\* Mutant of Reset: searchActive is left as it is.
ResetReady ==
  /\ active' = FALSE
  /\ value' = Label
  /\ lastSearchValue' = <<>>
  /\ UNCHANGED searchActive

Reset ==
  /\ active' = FALSE
  /\ value' = Label
  /\ searchActive' = FALSE
  /\ lastSearchValue' = <<>>

Activate(isActive, shown) ==
  IF isActive \/ shown THEN Enter /\ UNCHANGED lastSearchValue ELSE Reset

\* Mutant of Remember: the value searched for is not kept.
RememberNot(v) == UNCHANGED lastSearchValue

Remember(v) == lastSearchValue' = Lead(v)

\* Search, for the text v and the filter i.  For a filter that does not
\* exist the look-up of its letters throws.  No timer is stopped.
Search(v, i) ==
  /\ keyTimeout' = FALSE
  /\ IF i \in Section
     THEN /\ dest' = Page(i, Lead(v))
          /\ going' = TRUE
          /\ resultsShown' = TRUE
          /\ Remember(v)
     ELSE UNCHANGED <<dest, going, resultsShown, lastSearchValue>>
  /\ UNCHANGED frame

\* OnSelectItem: the filter i, and a search if there is something to look for.
Searches == Squeezed(value) # <<>> /\ searchActive
OnSelectItem(i) ==
  /\ searchIndex' = i
  /\ IF Searches THEN Search(value, i)
                 ELSE UNCHANGED <<keyTimeout, results, lastSearchValue>>

-----------------------------------------------------------------------------
(* The field. *)

\* onfocus
FocusField ==
  /\ focus # "field"
  /\ focus' = "field"
  /\ Activate(TRUE, resultsShown)
  /\ UNCHANGED <<timing, results, select, searchIndex>>

\* What can have the focus besides the field.
Focusable(f) ==
  \/ f = "page"
  \/ f = "select" /\ selectShown
  \/ f = "results" /\ resultsShown /\ frame = "results"

\* onblur
LeaveField(f) ==
  /\ focus = "field"
  /\ Focusable(f)
  /\ focus' = f
  /\ Activate(FALSE, resultsShown)
  /\ UNCHANGED <<timing, results, select, searchIndex>>

\* The focus moves outside the field.
MoveFocus(f) ==
  /\ focus # "field"
  /\ Focusable(f)
  /\ focus' = f
  /\ UNCHANGED <<box, timing, results, select, searchIndex>>

\* A key goes down, or text is cut or pasted: no handler is called.
Edit(t) ==
  /\ focus = "field"
  /\ value' = t
  /\ UNCHANGED <<active, searchActive, lastSearchValue, timing, results, select,
                 searchIndex, focus>>

\* Mutant of Left: clearTimeout whether a timer runs or not.
LeftLess == timers - 1

\* clearTimeout, if the timer's handle is there.
Left == IF keyTimeout THEN timers - 1 ELSE timers

\* Mutant of Arm: no timer is set where one was running.
ArmOnce ==
  /\ keyTimeout' = ~keyTimeout
  /\ timers' = IF keyTimeout THEN Left ELSE Left + 1

\* setTimeout
Arm == keyTimeout' = TRUE /\ timers' = Left + 1

\* OnSearchFieldChange from the comparison on, v being the text.
Compare(v) ==
  IF Squeezed(v) = lastSearchValue
  THEN /\ keyTimeout' = FALSE
       /\ timers' = Left
       /\ UNCHANGED <<results, lastSearchValue>>
  ELSE IF Squeezed(v) # <<>>
       THEN /\ Arm
            /\ UNCHANGED <<results, lastSearchValue>>
       ELSE /\ keyTimeout' = FALSE
            /\ timers' = Left
            /\ resultsShown' = FALSE
            /\ lastSearchValue' = <<>>
            /\ UNCHANGED <<dest, going, frame>>

\* Any key but those below is released in the field.
KeyUp ==
  /\ focus = "field"
  /\ Left < MaxTimers
  /\ Compare(value)
  /\ UNCHANGED <<value, active, searchActive, select, searchIndex, focus>>

\* Down or Enter: NavNext(0).focus(), when the document in the frame has an
\* item that shows; the field loses the focus to it.  Then as for any key.
KeyUpDown ==
  /\ focus = "field"
  /\ Left < MaxTimers
  /\ \/ /\ Focusable("results")
        /\ focus' = "results"
        /\ Enter
        /\ Compare(value')
     \/ /\ Compare(value)
        /\ UNCHANGED <<value, active, searchActive, focus>>
  /\ UNCHANGED <<select, searchIndex>>

\* Mutant of Show: the timer that hides the window goes on.
ShowOnly == selectShown' = TRUE /\ UNCHANGED hideTimeout

\* OnSearchSelectShow
Show == selectShown' = TRUE /\ hideTimeout' = FALSE

\* Shift with Down or Enter: the window of filters opens and has the focus.
KeyUpShiftDown ==
  /\ focus = "field"
  /\ keyTimeout' = FALSE
  /\ timers' = Left
  /\ Show
  /\ focus' = "select"
  /\ Activate(FALSE, resultsShown)
  /\ UNCHANGED <<results, over, searchIndex>>

\* Escape
KeyUpEscape ==
  /\ focus = "field"
  /\ keyTimeout' = FALSE
  /\ timers' = Left
  /\ focus' = "page"
  /\ resultsShown' = FALSE
  /\ Reset
  /\ UNCHANGED <<dest, going, frame, select, searchIndex>>

\* The timer expires.
Expire ==
  /\ timers > 0
  /\ timers' = timers - 1
  /\ Search(value, searchIndex)
  /\ UNCHANGED <<value, active, searchActive, select, searchIndex, focus>>

-----------------------------------------------------------------------------
(* The window of results. *)

\* Mutant of Deactivate: the box is deactivated before the window is hidden.
DeactivateFirst == Activate(FALSE, resultsShown)

\* Activate(false), with the window hidden by then.
Deactivate == Activate(FALSE, FALSE)

\* CloseResultsWindow, by its link, which takes the focus.
CloseResultsWindow ==
  /\ resultsShown
  /\ focus # "field"
  /\ focus' = "page"
  /\ resultsShown' = FALSE
  /\ Deactivate
  /\ UNCHANGED <<timing, dest, going, frame, select, searchIndex>>

\* Escape on a result: CloseResultsWindow, then the field's focus().
ResultsEscape ==
  /\ focus = "results"
  /\ focus' = "field"
  /\ resultsShown' = FALSE
  /\ active' = TRUE
  /\ value' = <<>>
  /\ searchActive' = TRUE
  /\ lastSearchValue' = <<>>
  /\ UNCHANGED <<timing, dest, going, frame, select, searchIndex>>

\* The frame has the new document; a result of the one before that had the
\* focus is gone.
FrameLoads ==
  /\ going
  /\ going' = FALSE
  /\ frame' = IF dest = NoMatches THEN "nomatches" ELSE "results"
  /\ focus' = IF focus = "results" THEN "page" ELSE focus
  /\ UNCHANGED <<box, timing, resultsShown, dest, select, searchIndex>>

-----------------------------------------------------------------------------
(* The window of filters. *)

\* onmouseover and onmouseout of the icon and of the window.
PointerIn ==
  /\ ~over
  /\ over' = TRUE
  /\ Show
  /\ UNCHANGED <<box, timing, results, searchIndex, focus>>

PointerOut ==
  /\ over
  /\ over' = FALSE
  /\ hideTimeout' = TRUE
  /\ UNCHANGED <<box, timing, results, selectShown, searchIndex, focus>>

\* The timer calls CloseSelectionWindow.  Whether a hidden item keeps the
\* focus is up to the browser.
HideExpires ==
  /\ hideTimeout
  /\ hideTimeout' = FALSE
  /\ selectShown' = FALSE
  /\ focus' \in IF focus = "select" THEN {"select", "page"} ELSE {focus}
  /\ UNCHANGED <<box, timing, results, over, searchIndex>>

\* A click on filter i, which has the focus by then.
ClickItem(i) ==
  /\ focus = "select"
  /\ selectShown
  /\ OnSelectItem(i)
  /\ UNCHANGED <<value, active, searchActive, timers, select, focus>>

\* OnSearchSelectKey, Down and Up.  Down goes one past the last filter.
SelectDown ==
  /\ focus = "select"
  /\ searchIndex \in Section
  /\ OnSelectItem(searchIndex + 1)
  /\ UNCHANGED <<value, active, searchActive, timers, select, focus>>

SelectUp ==
  /\ focus = "select"
  /\ searchIndex > 0
  /\ OnSelectItem(searchIndex - 1)
  /\ UNCHANGED <<value, active, searchActive, timers, select, focus>>

\* Enter and Escape: unless OnSelectItem throws, back to the field.
SelectEnter ==
  /\ focus = "select"
  /\ OnSelectItem(searchIndex)
  /\ IF Searches /\ searchIndex \notin Section
     THEN UNCHANGED <<value, active, searchActive, selectShown, focus>>
     ELSE /\ selectShown' = FALSE
          /\ focus' = "field"
          /\ Enter
  /\ UNCHANGED <<timers, hideTimeout, over>>

-----------------------------------------------------------------------------
\* The page as init_search leaves it.
Init ==
  /\ value = Label
  /\ active = FALSE
  /\ searchActive = FALSE
  /\ lastSearchValue = <<>>
  /\ keyTimeout = FALSE
  /\ timers = 0
  /\ resultsShown = FALSE
  /\ dest = NoPage
  /\ going = FALSE
  /\ frame = "blank"
  /\ selectShown = FALSE
  /\ hideTimeout = FALSE
  /\ over = FALSE
  /\ searchIndex = 0
  /\ focus = "page"

Next ==
  \/ FocusField
  \/ \E f \in {"page", "select", "results"} : LeaveField(f) \/ MoveFocus(f)
  \/ \E t \in Text : Edit(t)
  \/ KeyUp \/ KeyUpDown \/ KeyUpShiftDown \/ KeyUpEscape
  \/ Expire
  \/ CloseResultsWindow \/ ResultsEscape \/ FrameLoads
  \/ PointerIn \/ PointerOut \/ HideExpires
  \/ \E i \in Section : ClickItem(i)
  \/ SelectDown \/ SelectUp \/ SelectEnter

Spec == Init /\ [][Next]_vars

\* Timers expire: the user pauses for half a second once in a while.
FairSpec == Spec /\ WF_vars(Expire)
-----------------------------------------------------------------------------
(* Properties. *)

\* The variables hold values of their types; the filter chosen may be one
\* that does not exist.
TypeOK ==
  /\ value \in Text
  /\ active \in BOOLEAN
  /\ searchActive \in BOOLEAN
  /\ lastSearchValue \in {Lead(t) : t \in Text} \cup {<<>>}
  /\ keyTimeout \in BOOLEAN
  /\ timers \in Nat
  /\ keyTimeout => timers > 0
  /\ resultsShown \in BOOLEAN
  /\ dest \in Pages \cup {NoPage}
  /\ going \in BOOLEAN
  /\ frame \in {"blank", "nomatches", "results"}
  /\ selectShown \in BOOLEAN
  /\ hideTimeout \in BOOLEAN
  /\ over \in BOOLEAN
  /\ searchIndex \in 0..Len(Content)
  /\ focus \in {"page", "field", "select", "results"}

\* A hidden window remembers no search, or the same text typed again would
\* not be searched for: OnSearchFieldChange compares with lastSearchValue
\* whether the window shows or not, and four handlers hide it.
HiddenForgets == ~resultsShown => lastSearchValue = <<>>

\* What the window shows, or is about to, is the page of the value last
\* searched for, in some section: no handler forgets or changes one without
\* the other while the window shows (Search, Activate, OnSearchFieldChange).
FrameFollowsSearch ==
  resultsShown => \E i \in Section : dest = Page(i, lastSearchValue)

\* A box not in use shows the label and is not ready for a search by a choice
\* of filter, and a box that has the focus is in use, whichever way the focus
\* came and went and whatever the timers did (Activate).
LabelWhenIdle ==
  /\ ~active => value = Label /\ ~searchActive
  /\ focus = "field" => active

\* The timer that hides the window of filters never runs while the pointer is
\* over it: coming back in time keeps it open (OnSearchSelectShow).
NotHiddenUnderPointer == over => ~hideTimeout

\* A text typed, its key released, is searched for once the user pauses, as
\* long as he leaves it there and stays in the field: timers are stopped and
\* started again, but the last one searches.  Texts with blanks in them are
\* left out (with "ab" searched for, "a b" counts as no change), and so are
\* the label and a filter that does not exist.
TextSearched ==
  \A t \in {u \in Text : u # Label /\ Squeezed(u) = u} :
    focus = "field" /\ value = t /\ keyTimeout
      ~> \/ lastSearchValue = t
         \/ value # t
         \/ focus # "field"
         \/ searchIndex \notin Section

=============================================================================
