--------------------------- MODULE MCConversation ---------------------------
(* Three questions, replies of one token, two loads and two sessions, up to *)
(* the first accident.  Of the states with a second load, those without a   *)
(* menu or dialog in the first session only; of those with a third          *)
(* question, those where an edited question waits or waited for that load;  *)
(* of those with a reply that was stopped before it began, those of the     *)
(* first session without a menu, a dialog or a second load.                 *)
EXTENDS Conversation

UpToFirstAccident == accidents = {}
StoppedEarly ==
    (\E g \in DOMAIN gens : At(g, "local", "unheard") \/ (At(g, "local", "queued") /\ ~gens[g].active))
        => sessions = 1 /\ Free /\ Len(loads) < 2
SecondLoad == Len(loads) = 2 => sessions = 1 /\ Free
ThirdQuestion ==
    asked = 3 =>
        /\ sessions = 1 /\ Free /\ Len(loads) = 2 /\ loads[1].step = "done"
        /\ loads[2].next = "regenerate" \/ (loads[2].step = "done" /\ Generating)
=============================================================================
