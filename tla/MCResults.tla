----------------------------- MODULE MCResults -----------------------------
(***************************************************************************)
(* A page for SearchResults.  The rows that the term `f` shows do not      *)
(* stand together, as those of `cl` in all_3.js: below row 1 Up gets stuck *)
(* when its children are open, and below row 3 it skips them.              *)
(***************************************************************************)
EXTENDS SearchResults

Entry(id, label, targets) == [id |-> id, label |-> label, targets |-> targets]

MCPlain == {"f", "5", "0", "2"}
MCHex   == [c \in {"_", " "} |-> IF c = "_" THEN <<"5", "f">> ELSE <<"2", "0">>]
MCLower == [c \in {"f", "F", "5", "_", " "} |-> IF c = "F" THEN "f" ELSE c]
MCKeys  == {"Up", "Down", "Left", "Right", "Esc", "Other"}
MCTerms ==
  {<<>>, <<"f">>, <<"F">>, <<"_">>, <<"5">>, <<" ">>, <<"f", "_">>, <<"_", "f">>,
   <<"_", "5">>, <<"5", "f">>, <<"F", " ">>, <<" ", "F">>, <<"F", "F">>,
   <<"f", " ", "f">>}

\* Two files of one name, labels that start with an underscore or hold one.
MCEntries ==
  << Entry(<<"f">>, <<"f">>, 2),
     Entry(<<"5">>, <<"5">>, 2),
     Entry(<<"f", "f">>, <<"F", "f">>, 3),
     Entry(<<"_", "5", "f", "f">>, <<"_", "F">>, 1),
     Entry(<<"f", "_", "5", "f">>, <<"f", "_">>, 1),
     Entry(<<"f", "_", "5", "f">>, <<"f", "_">>, 1) >>

=============================================================================
