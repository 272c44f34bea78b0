--------------------------- MODULE ExternalEffect ---------------------------
(* What the publication services promise about one irreversible effect (a   *)
(* post on X, a post on Patreon): it is begun only under authority, never   *)
(* begun again while an earlier try may have happened, and never after it   *)
(* is known to have happened.                                               *)

VARIABLES
    authorized,   \* an operator's approval is in force and the guard is enabled
    effect        \* "clear", "inDoubt" (it may have happened) or "done"

vars == <<authorized, effect>>

Init == authorized = FALSE /\ effect = "clear"

\* Approvals are granted, withdrawn, used up or expire at any time.
Authority == authorized' \in BOOLEAN /\ UNCHANGED effect

Begin == /\ authorized
         /\ effect = "clear"
         /\ effect' = "inDoubt"
         /\ authorized' \in BOOLEAN

\* The provider, or an operator who looked, says that nothing was posted.
RuleOut == effect = "inDoubt" /\ effect' = "clear" /\ authorized' \in BOOLEAN

\* The provider or an operator says that the post exists. The operator may
\* also have posted by hand what the program never tried to post.
Confirm == effect # "done" /\ effect' = "done" /\ authorized' \in BOOLEAN

Next == Authority \/ Begin \/ RuleOut \/ Confirm

Spec == Init /\ [][Next]_vars
=============================================================================
