-------------------------------- MODULE Sale --------------------------------
(***************************************************************************)
(* What the marketplace promises about one-of-a-kind goods, with nothing   *)
(* about how: a listing is held for at most one buyer at a time, only the  *)
(* buyer who holds it can be charged for it, and a charge is final.        *)
(***************************************************************************)
CONSTANTS Listings, Users

VARIABLES
    held,    \* pairs <<listing, buyer>>: checked out, not yet paid for
    charged  \* pairs <<listing, buyer>>: paid for

Init == held = {} /\ charged = {}

Hold(l, b) ==
    /\ \A c \in Users : <<l, c>> \notin held \cup charged
    /\ held' = held \cup {<<l, b>>}
    /\ UNCHANGED charged

Release(l, b) ==
    /\ <<l, b>> \in held
    /\ held' = held \ {<<l, b>>}
    /\ UNCHANGED charged

Charge(l, b) ==
    /\ <<l, b>> \in held
    /\ held' = held \ {<<l, b>>}
    /\ charged' = charged \cup {<<l, b>>}

Next == \E l \in Listings, b \in Users : Hold(l, b) \/ Release(l, b) \/ Charge(l, b)

Spec == Init /\ [][Next]_<<held, charged>>
=============================================================================
