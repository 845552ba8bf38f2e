--------------------------- MODULE SearchResults ---------------------------
(***************************************************************************)
(* A results page of the documentation's search box (docs/search): the     *)
(* rows built from searchData, the filter that shows those that match the  *)
(* term in the page's address, and the keys that move through them.        *)
(*                                                                         *)
(* Rows and children are numbered from 1, those of the code from 0.  Item  *)
(* <<e, 0>> is the link 'Item<e>' of row e, <<e, c>> its child             *)
(* 'Item<e>_c<c>'.                                                         *)
(***************************************************************************)
EXTENDS Integers, Sequences, SequencesExt

CONSTANTS
  Blank,     \* the space character
  Plain,     \* the characters that convertToId copies
  Hex,       \* the two digits it writes for each of the others
  Lower,     \* toLowerCase, character by character
  Entries,   \* searchData: records of an id, a label and a number of targets
  Terms,     \* the terms that are searched for
  Key,       \* the keys, but for Enter
  NoItem,    \* the focus is not on a result
  NoKey

\* The pages come with the documentation: at least one target a row, and of
\* rows with one id (files of one name in two directories) none has two.
ASSUME EntriesAssumption ==
  /\ Len(Entries) \in Nat
  /\ DOMAIN Entries = 1..Len(Entries)
  /\ \A e \in DOMAIN Entries : Entries[e].targets \in Nat \ {0}
  /\ \A e, f \in DOMAIN Entries :
       e # f /\ Entries[e].id = Entries[f].id => Entries[e].targets = 1
\* convertToId copies letters, digits and what is beyond ASCII; any other
\* character has a code below 128 and two digits, which tell it from the rest.
ASSUME CharAssumption ==
  /\ "_" \notin Plain
  /\ Hex \in [DOMAIN Hex -> Plain \X Plain]
  /\ \A c, d \in DOMAIN Hex : Hex[c] = Hex[d] => c = d
  /\ Lower \in [DOMAIN Lower -> Plain \cup DOMAIN Hex]

\* Terms and labels are texts.
ASSUME TextAssumption ==
  /\ Terms \subseteq Seq(DOMAIN Lower)
  /\ \A e \in DOMAIN Entries : Entries[e].label \in Seq(DOMAIN Lower)
ASSUME ItemAssumption == NoItem \notin (1..Len(Entries)) \X Nat
ASSUME KeyAssumption == {"Up", "Down", "Left", "Right", "Esc"} \subseteq Key /\ NoKey \notin Key

VARIABLES
  term,       \* the term in the address of the page
  shown,      \* the rows with style.display 'block'
  noMatches,  \* the line "No Matches" is displayed
  open,       \* the rows whose children have style.display 'block'
  focus,      \* the focused item
  lastKey, repeatOn

vars == <<term, shown, noMatches, open, focus, lastKey, repeatOn>>
page == <<term, shown, noMatches>>
keys == <<lastKey, repeatOn>>

-----------------------------------------------------------------------------
(* The filter. *)

\* convertToId, for one character and for a text.
Escaped(c) == IF c \in Plain THEN <<c>> ELSE <<"_">> \o Hex[c]
ConvertToId(t) == FlattenSeq([i \in DOMAIN t |-> Escaped(t[i])])

\* Without the blanks at both ends.
Trim(t) ==
  LET inner == {i \in DOMAIN t : t[i] # Blank}
  IN  IF inner = {} THEN <<>> ELSE SubSeq(t, Min(inner), Max(inner))

ToLower(t) == [i \in DOMAIN t |-> Lower[t[i]]]

\* The ids of the pages are made of the labels in the same way.
ASSUME IdAssumption ==
  \A e \in DOMAIN Entries : Entries[e].id = ConvertToId(ToLower(Entries[e].label))

Row == DOMAIN Entries

\* Mutant of Found: the term is compared as it was typed.
FoundTyped(t) == {e \in Row : IsPrefix(ToLower(Trim(t)), Entries[e].id)}

\* Search: the rows whose id starts with the id of the term.
Found(t) == {e \in Row : IsPrefix(ConvertToId(ToLower(Trim(t))), Entries[e].id)}

-----------------------------------------------------------------------------
(* The items. *)

\* createResults gives a row with more than one target a child for each.
Kids(e) == IF Entries[e].targets = 1 THEN 0 ELSE Entries[e].targets
Item == UNION {{e} \X (0..Kids(e)) : e \in Row}

Visible(x) == x \in Item /\ x[1] \in shown /\ (x[2] = 0 \/ x[1] \in open)

\* getElementById: the first of the rows that have the id of row e.
ById(e) == Min({i \in Row : Entries[i].id = Entries[e].id})

\* FindChildElement finds a block of children for row e, and it is displayed.
HasChildren(e) == Kids(ById(e)) > 0
Expanded(e) == HasChildren(e) /\ ById(e) \in open

\* NavNext, NavPrev: the first row shown from e on, or from e back.
Onward(e) == {i \in shown : i >= e}
Backward(e) == {i \in shown : i <= e}
NavNext(e) == IF Onward(e) = {} THEN NoItem ELSE <<Min(Onward(e)), 0>>
NavPrev(e) == IF Backward(e) = {} THEN NoItem ELSE <<Max(Backward(e)), 0>>

\* elem.focus(): the browser does not focus what is not displayed.
FocusOn(x) == focus' = IF Visible(x) THEN x ELSE focus

-----------------------------------------------------------------------------
(* The keys: one event on the focused item. *)

\* Mutant of LastChild: only the first of the children is looked for.
LastChildFirst(e, x) == IF Kids(e) > 0 THEN <<e, 1>> ELSE x

\* The last 'Item<e>_c<n>' there is, else x.
LastChild(e, x) == IF Kids(e) > 0 THEN <<e, Kids(e)>> ELSE x

\* Nav, Up: to the row before, or to its last child.  The children looked for
\* are those of row e-1, whichever row NavPrev has found.
UpFromRow(e) ==
  LET p == NavPrev(e - 1)
  IN  IF p = NoItem
      THEN focus' = NoItem                \* back to the search field
      ELSE FocusOn(IF Expanded(p[1]) THEN LastChild(e - 1, p) ELSE p)

\* Nav, Down: to the first child, or to the next row if there is one.
DownFromRow(e) ==
  LET n == IF Expanded(e) /\ Kids(e) > 0 THEN <<e, 1>> ELSE NavNext(e + 1)
  IN  IF n = NoItem THEN UNCHANGED focus ELSE FocusOn(n)

UpFromChild(e, c) == FocusOn(<<e, c - 1>>)

DownFromChild(e, c) ==
  LET n == IF c < Kids(e) THEN <<e, c + 1>> ELSE NavNext(e + 1)
  IN  IF n = NoItem THEN UNCHANGED focus ELSE FocusOn(n)

\* Mutant of Opened: the row itself, with or without children.
OpenedAny(e) == open \cup {e}

Opened(e) == IF HasChildren(e) THEN open \cup {ById(e)} ELSE open
Closed(e) == IF HasChildren(e) THEN open \ {ById(e)} ELSE open

\* What Nav and NavChild share.  Escape closes the window and goes back to
\* the search field.
Moved(k, up, down) ==
  CASE k = "Up"   -> up
    [] k = "Down" -> down
    [] k = "Esc"  -> focus' = NoItem
    [] OTHER      -> UNCHANGED focus

Nav(e, k) ==
  /\ Moved(k, UpFromRow(e), DownFromRow(e))
  /\ open' = CASE k = "Right" -> Opened(e) [] k = "Left" -> Closed(e) [] OTHER -> open

\* Mutant of NavChild: Left closes the children here too.
NavChildLeft(e, c, k) ==
  /\ Moved(k, UpFromChild(e, c), DownFromChild(e, c))
  /\ open' = IF k = "Left" THEN Closed(e) ELSE open

NavChild(e, c, k) ==
  /\ Moved(k, UpFromChild(e, c), DownFromChild(e, c))
  /\ UNCHANGED open

Act(k) == IF focus[2] = 0 THEN Nav(focus[1], k) ELSE NavChild(focus[1], focus[2], k)

\* ProcessKeys for the three types of event.  Enter returns before it.
KeyDown(k) ==
  /\ focus # NoItem
  /\ lastKey' = k
  /\ repeatOn' = FALSE
  /\ Act(k)
  /\ UNCHANGED page

\* The first keypress after a keydown does nothing but to let the next ones,
\* which repeat the key, act.
KeyPress ==
  /\ focus # NoItem
  /\ IF repeatOn
     THEN Act(lastKey) /\ UNCHANGED repeatOn
     ELSE repeatOn' = (lastKey # NoKey) /\ UNCHANGED <<focus, open>>
  /\ UNCHANGED <<page, lastKey>>

KeyUp ==
  /\ focus # NoItem
  /\ lastKey' = NoKey
  /\ repeatOn' = FALSE
  /\ UNCHANGED <<page, open, focus>>

-----------------------------------------------------------------------------
(* The mouse, the search field and the frame. *)

\* Toggle, by a click on the link of row e or by Enter: the link is focused.
Toggle(e) ==
  /\ Visible(<<e, 0>>)
  /\ Kids(e) > 0
  /\ open' = IF Expanded(e) THEN Closed(e) ELSE Opened(e)
  /\ focus' = <<e, 0>>
  /\ UNCHANGED <<page, keys>>

\* Down or Enter in the search field: NavNext(0).focus().
FromField ==
  /\ focus = NoItem
  /\ NavNext(1) # NoItem
  /\ FocusOn(NavNext(1))
  /\ UNCHANGED <<page, open, keys>>

\* Tab or the mouse takes the focus to another item, or away.
Visit(x) == focus' = x /\ UNCHANGED <<page, open, keys>>

\* The document as its scripts leave it: createResults, then Search.
Document(t) ==
  [term |-> t, shown |-> Found(t), noMatches |-> Found(t) = {}, open |-> {}]

\* The search box sends the frame to the page anew.
Load(t) ==
  /\ term' = t
  /\ shown' = Document(t).shown
  /\ noMatches' = Document(t).noMatches
  /\ open' = Document(t).open
  /\ focus' = NoItem
  /\ lastKey' = NoKey
  /\ repeatOn' = FALSE

Init ==
  /\ term \in Terms
  /\ shown = Document(term).shown
  /\ noMatches = Document(term).noMatches
  /\ open = Document(term).open
  /\ focus = NoItem
  /\ lastKey = NoKey
  /\ repeatOn = FALSE

Next ==
  \/ \E k \in Key : KeyDown(k)
  \/ KeyPress
  \/ KeyUp
  \/ \E e \in Row : Toggle(e)
  \/ FromField
  \/ \E x \in {y \in Item : Visible(y)} \cup {NoItem} : Visit(x)
  \/ \E t \in Terms : Load(t)

Spec == Init /\ [][Next]_vars

-----------------------------------------------------------------------------
(* Properties. *)

Displayed == {x \in Item : Visible(x)}

\* The variables hold values of their types; only rows with several targets
\* are ever opened.
TypeOK ==
  /\ term \in Terms
  /\ shown \subseteq Row
  /\ noMatches \in BOOLEAN
  /\ open \subseteq {e \in Row : Kids(e) > 0}
  /\ focus \in Item \cup {NoItem}
  /\ lastKey \in Key \cup {NoKey}
  /\ repeatOn \in BOOLEAN

\* The rows shown are those whose label starts with the term, whatever their
\* case and the blanks around the term, although Search compares ids, in
\* which an underscore or a blank is three characters of which each could be
\* typed (convertToId, SearchResults.Search).
FilterExact ==
  /\ shown = {e \in Row : IsPrefix(ToLower(Trim(term)), ToLower(Entries[e].label))}
  /\ noMatches <=> shown = {}

\* The item that has the focus is on display: no key and no click hides it,
\* neither by a new filter nor by closing the children it is one of (Nav,
\* NavChild, Toggle).
FocusDisplayed == focus # NoItem => Visible(focus)

\* The order of the items on the page, and neighbours on display.
Before(x, y) == x[1] < y[1] \/ (x[1] = y[1] /\ x[2] < y[2])
Adjacent(x, y) ==
  /\ Before(x, y)
  /\ \A z \in Displayed : ~(Before(x, z) /\ Before(z, y))

Stroke(k) == KeyDown(k) \/ (KeyPress /\ repeatOn /\ lastKey = k)

\* The row before a row is filtered out, and the row displayed before it is
\* open: Nav takes the children of the one for those of the other.
Misled(x) ==
  LET p == NavPrev(x[1] - 1)
  IN  x[2] = 0 /\ p # NoItem /\ p[1] # x[1] - 1 /\ Expanded(p[1])

\* Down goes to the next item on display and stays on the last, Up goes to
\* the one before and from the first to the search field: neither skips a
\* child, stops at a row that is filtered out, or gets stuck (Nav, NavChild).
\* Except where Nav is misled: Up is stuck there, or skips the children of the
\* row displayed before, and what it reaches is on display all the same.
DownStep ==
  Stroke("Down") =>
    IF \E y \in Displayed : Before(focus, y)
    THEN focus' \in Displayed /\ Adjacent(focus, focus')
    ELSE focus' = focus
UpStep ==
  Stroke("Up") =>
    IF \E y \in Displayed : Before(y, focus)
    THEN \/ focus' \in Displayed /\ Adjacent(focus', focus)
         \/ Misled(focus) /\ focus' \in {focus, NavPrev(focus[1] - 1)}
    ELSE focus' = NoItem
KeysFollowOrder == [][DownStep /\ UpStep]_vars

=============================================================================
