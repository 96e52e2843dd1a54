----------------------------- MODULE SellWizard -----------------------------
(***************************************************************************)
(* The "Sell Item" wizard (pages/Sell.jsx): Photos, Details, Preview,      *)
(* Publish.  One request is under way at a time (runGuarded); photos       *)
(* attach to a saved draft, and the wizard saves it when Details is left.  *)
(* CANCEL forgets everything: a behaviour is one opening of the wizard.    *)
(***************************************************************************)
EXTENDS Naturals

CONSTANTS MaxPhotos, None

VARIABLES
    step, maxReached,   \* the step on the screen and the last one that was reached
    details,            \* the details are valid (detailsErrors is empty)
    draft,              \* the status of the saved listing
    images,             \* the number of photos on the screen
    stored,             \* the number of photos that the API keeps for the draft
    busy,               \* what runGuarded is running
    banner

vars == <<step, maxReached, details, draft, images, stored, busy, banner>>
form == <<step, maxReached, details>>

Init ==
    /\ step = 0 /\ maxReached = 0 /\ details = FALSE
    /\ draft = None /\ images = 0 /\ stored = 0
    /\ busy = None /\ banner = None

Advance(next) ==
    /\ step' = next
    /\ maxReached' = IF next > maxReached THEN next ELSE maxReached

\* The stepper, the Back buttons and "Add your details first".
GoStep(i) ==
    /\ i # step /\ i <= maxReached
    /\ step' = i
    /\ UNCHANGED <<maxReached, details, draft, images, stored, busy, banner>>

Type ==
    /\ step = 1
    /\ details' \in BOOLEAN
    /\ UNCHANGED <<step, maxReached, draft, images, stored, busy, banner>>

Run(key) ==
    /\ busy = None
    /\ busy' = key /\ banner' = None
    /\ UNCHANGED <<step, maxReached, details, draft, images, stored>>

\* NEXT, with the conditions that disable the button.
ContinuePhotos ==
    /\ step = 0 /\ images > 0 /\ busy = None
    /\ Advance(1)
    /\ UNCHANGED <<details, draft, images, stored, busy, banner>>

ContinueDetails == step = 1 /\ details /\ Run("draft")

ContinuePreview ==
    /\ step = 2 /\ busy = None
    /\ IF images = 0
       THEN banner' = "error" /\ UNCHANGED <<step, maxReached>>
       ELSE Advance(3) /\ UNCHANGED banner
    /\ UNCHANGED <<details, draft, images, stored, busy>>

Continue == ContinuePhotos \/ ContinueDetails \/ ContinuePreview

Save == step \in {2, 3} /\ Run("save")
Submit == (step = 2 \/ (step = 3 /\ details /\ images > 0)) /\ Run("submit")

AddFiles ==
    /\ step = 0 /\ busy = None
    /\ IF draft = None \/ images >= MaxPhotos
       THEN banner' = "error" /\ UNCHANGED <<form, draft, images, stored, busy>>
       ELSE Run("upload")

DeletePhoto == step = 0 /\ draft # None /\ images > 0 /\ Run("delete")

\* reloadImages shows nothing when it fails.
Reload == images' \in {0, stored'}

\* ensureDraft creates or updates; details that are no longer valid throw.  Another call may fail after it.
Saved == details /\ draft' = (IF draft = None THEN "DRAFT" ELSE draft)

Succeeds ==
    /\ busy # None /\ busy' = None
    /\ CASE busy = "draft"  -> Saved /\ Reload /\ Advance(2) /\ UNCHANGED <<details, stored, banner>>
         [] busy = "save"   -> Saved /\ Reload /\ banner' = "ok" /\ UNCHANGED <<form, stored>>
         [] busy = "submit" -> /\ details /\ draft' = "ACTIVE" /\ banner' = "ok"
                               /\ UNCHANGED <<form, images, stored>>
         [] busy = "upload" -> stored' = stored + 1 /\ Reload /\ UNCHANGED <<form, draft, banner>>
         [] busy = "delete" -> stored' = stored - 1 /\ Reload /\ UNCHANGED <<form, draft, banner>>

\* Any call may be the one that fails: nothing was done, or the draft was saved.
Fails ==
    /\ busy # None /\ busy' = None /\ banner' = "error"
    /\ UNCHANGED draft \/ (busy \in {"draft", "save", "submit"} /\ Saved)
    /\ UNCHANGED <<form, images, stored>>

Next ==
    \/ \E i \in 0..3 : GoStep(i)
    \/ Type \/ Continue \/ Save \/ Submit \/ AddFiles \/ DeletePhoto
    \/ Succeeds \/ Fails

\* A seller who does not give up: fills in the details, adds photos, clicks NEXT, follows the link.
Spec ==
    /\ Init /\ [][Next]_vars
    /\ WF_vars(Continue) /\ WF_vars(AddFiles) /\ WF_vars(GoStep(1)) /\ WF_vars(Type)
    /\ WF_vars(Succeeds \/ Fails)

-----------------------------------------------------------------------------
\* A seller who keeps clicking gets from the photos to the details: "Photos needs no validation".
SellerReachesDetails == <>(step = 1)

=============================================================================
