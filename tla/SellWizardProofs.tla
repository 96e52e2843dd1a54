-------------------------- MODULE SellWizardProofs --------------------------
(***************************************************************************)
(* Proofs about SellWizard, for any number of photos.                      *)
(***************************************************************************)
EXTENDS SellWizard, TLAPS

\* Photos wait for a draft, the draft for the details, the details for a photo.
Stuck ==
    /\ step = 0 /\ maxReached = 0
    /\ draft = None /\ images = 0 /\ stored = 0 /\ busy = None

LEMMA StuckStays ==
    ASSUME Stuck, [Next]_vars
    PROVE  Stuck'
<1>1. ASSUME NEW i \in 0..3, GoStep(i)
      PROVE  Stuck'
  BY <1>1 DEF GoStep, Stuck
<1>2. CASE AddFiles
  BY <1>2 DEF AddFiles, Stuck, form
<1>3. CASE Type \/ Continue \/ Save \/ Submit \/ DeletePhoto
  BY <1>3 DEF Type, Continue, ContinuePhotos, ContinueDetails, ContinuePreview, Save, Submit,
     DeletePhoto, Stuck
<1>4. CASE Succeeds \/ Fails
  BY <1>4 DEF Succeeds, Fails, Stuck
<1>5. CASE UNCHANGED vars
  BY <1>5 DEF vars, Stuck
<1> QED
  BY <1>1, <1>2, <1>3, <1>4, <1>5 DEF Next

LEMMA StuckAlways == Spec => []Stuck
<1>1. Init => Stuck
  BY DEF Init, Stuck
<1>2. Stuck /\ [Next]_vars => Stuck'
  BY StuckStays
<1> QED
  BY <1>1, <1>2, PTL DEF Spec

\* Nothing is ever sent for a new listing: no draft is saved and no photo is stored, whatever
\* the seller clicks, because each of the first two steps of Sell.jsx waits for the other.
THEOREM NothingIsSent == Spec => [](busy = None /\ draft = None /\ stored = 0)
<1>1. Stuck => busy = None /\ draft = None /\ stored = 0
  BY DEF Stuck
<1> QED
  BY <1>1, StuckAlways, PTL

\* The run shows one seller who never gets to the details; this is so for every seller and for
\* any number of photos: Sell.jsx never shows its second step for a new listing.
THEOREM DetailsUnreachable == Spec => ~SellerReachesDetails
<1>1. Stuck => ~(step = 1)
  BY DEF Stuck
<1> QED
  BY <1>1, StuckAlways, PTL DEF SellerReachesDetails
=============================================================================
