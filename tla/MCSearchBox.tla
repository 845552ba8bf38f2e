---------------------------- MODULE MCSearchBox ----------------------------
(***************************************************************************)
(* The instance of SearchBox that TLC checks: "s" is the label, "a" and    *)
(* "aa" are found in one section and not in the other, and there are texts *)
(* with blanks before, after and between.                                  *)
(***************************************************************************)
EXTENDS SearchBox

MCLabel == <<"s">>
MCText ==
  {<<>>, <<" ">>, <<"a">>, <<" ", "a">>, <<"a", "a">>, <<"a", " ", "a">>, MCLabel}
MCContent == << <<"a", "s">>, <<"s">> >>

=============================================================================
