---------------------------- MODULE MCRosterPage ----------------------------
(* Instances of RosterPage for TLC. *)
EXTENDS RosterPage, TLC

CONSTANTS a1, a2, a3, old, new, f1, f2

Case(kinds, others) == [clicks |-> kinds, edits |-> others]

(* Searches that overtake each other, and an editor under the edits of      *)
(* other clients, with everything that reads current while another request  *)
(* is on its way.                                                           *)
RosterScenarios ==
    {Case(<<"filter", "next", "filter", "previous", "next">>, 0),
     Case(<<"open", "submit", "back", "open", None>>, 0),
     Case(<<"open", "photo", "back", "open", "submit">>, 0),
     Case(<<"open", "submit", "cancel", None, None>>, 1),
     Case(<<"open", "photo", "submit", None, None>>, 1),
     Case(<<"add", "open", "submit", None, None>>, 1),
     Case(<<"add", "family", "submit", None, None>>, 1)}
=============================================================================
