-------------------------- MODULE OfferBookProofs --------------------------
(***************************************************************************)
(* Proofs about OfferBook for any number of offers, listings, users and    *)
(* overlapping requests.                                                   *)
(***************************************************************************)
EXTENDS OfferBook, TLAPS

-----------------------------------------------------------------------------
(* The lock discipline.                                                    *)

\* A request is about an offer that exists, and has it locked from its guards to its
\* commit; only a reader goes the way of the expiry.
SessionsSane ==
    \A p \in Slots : session[p] # Idle =>
        /\ offer[session[p].offer] # Absent
        /\ session[p].pc # "expire" => session[p].op # "read"
        /\ session[p].pc \in {"siblings", "commit"} => lock[session[p].offer] = p

\* Whatever is locked is still unanswered, and its holder is on the way to a commit.
LocksHeld ==
    \A x \in OfferIds : lock[x] # Free =>
        /\ offer[x].status = "PENDING"
        /\ session[lock[x]].pc \in {"siblings", "commit"}

Discipline == SessionsSane /\ LocksHeld

\* A reader is on its way to write EXPIRED.
ReadBy(x) == \E p \in Slots : session[p].pc = "expire" /\ session[p].offer = x

\* Readers went on only with an offer whose time was up.
ReadersLate == \A x \in OfferIds : ReadBy(x) => x \in due

\* What may become of a row that exists: it stays, it is answered or expired while it
\* is PENDING, or a reader expires it.
Settles(y) ==
    \/ offer'[y] = offer[y]
    \/ /\ offer[y] \in OfferRow /\ offer'[y] \in OfferRow
       /\ offer'[y].listing = offer[y].listing /\ offer'[y].buyer = offer[y].buyer
       /\ offer'[y].status \in {"ACCEPTED", "REJECTED", "CANCELLED", "WITHDRAWN", "EXPIRED"}
       /\ offer[y].status = "PENDING" \/ (offer'[y].status = "EXPIRED" /\ ReadBy(y))

LEMMA RowFacts ==
    /\ \A r \in OfferRow : r # Absent /\ r.status # "NONE" /\ r.status \in OfferStatus
    /\ \A c \in Session : c # Idle
BY DEF OfferRow, OfferStatus, Absent, Session, Idle

\* Setting the status of a row that exists.
LEMMA StatusSet ==
    ASSUME NEW r \in OfferRow, NEW s \in OfferStatus
    PROVE  /\ [r EXCEPT !.status = s] \in OfferRow
           /\ [r EXCEPT !.status = s].status = s
           /\ [r EXCEPT !.status = s].listing = r.listing
           /\ [r EXCEPT !.status = s].buyer = r.buyer
BY DEF OfferRow

LEMMA BusySession ==
    ASSUME TypeOK, Discipline, NEW p \in Slots, session[p] # Idle
    PROVE  /\ session[p] \in Session
           /\ session[p].offer \in OfferIds
           /\ offer[session[p].offer] \in OfferRow
<1>1. session[p] \in Session
  BY DEF TypeOK
<1>2. session[p].offer \in OfferIds
  BY <1>1 DEF Session
<1>3. QED
  BY <1>1, <1>2 DEF TypeOK, Discipline, SessionsSane

LEMMA StepIsBusy ==
    ASSUME NEW p \in Slots, Step(p)
    PROVE  session[p] # Idle
BY DEF Step, CommitExpiry, LockOffer, LockSiblings, CommitAnswer, Idle

\* A step of a request answers or expires what it holds and touches nothing else.
LEMMA StepSettles ==
    ASSUME OfferAssumption, TypeOK, Discipline, NEW p \in Slots, Step(p)
    PROVE  \A y \in OfferIds : Settles(y)
<1> DEFINE x == session[p].offer
<1>1. /\ session[p] \in Session /\ x \in OfferIds /\ offer[x] \in OfferRow
      /\ session[p] # Idle
  BY StepIsBusy, BusySession
<1>2. ASSUME offer' = [offer EXCEPT ![x].status = "EXPIRED"],
             offer[x].status = "PENDING" \/ ReadBy(x)
      PROVE  \A y \in OfferIds : Settles(y)
  <2>1. /\ offer'[x] = [offer[x] EXCEPT !.status = "EXPIRED"]
        /\ \A y \in OfferIds \ {x} : offer'[y] = offer[y]
    BY <1>1, <1>2 DEF TypeOK
  <2>2. "EXPIRED" \in OfferStatus
    BY DEF OfferStatus
  <2>3. /\ offer'[x] \in OfferRow /\ offer'[x].status = "EXPIRED"
        /\ offer'[x].listing = offer[x].listing /\ offer'[x].buyer = offer[x].buyer
    BY <1>1, <2>1, <2>2, StatusSet
  <2>4. QED
    BY <1>1, <1>2, <2>1, <2>3 DEF Settles
<1>3. CASE CommitExpiry(p)
  BY <1>2, <1>3 DEF CommitExpiry, ReadBy
<1>4. CASE LockOffer(p)
  <2>1. \/ offer' = offer
        \/ offer' = [offer EXCEPT ![x].status = "EXPIRED"] /\ offer[x].status = "PENDING"
    BY <1>4 DEF LockOffer, Refuse, Expired
  <2>2. CASE offer' = offer
    BY <2>2 DEF Settles
  <2>3. QED
    BY <1>2, <2>1, <2>2
<1>5. CASE LockSiblings(p)
  BY <1>5 DEF LockSiblings, Settles
<1>6. CASE CommitAnswer(p)
  <2>1. /\ session[p].pc = "commit"
        /\ \A y \in OfferIds : offer'[y] =
              IF y = x THEN [offer[y] EXCEPT !.status = Decision[session[p].op]]
              ELSE IF lock[y] = p THEN [offer[y] EXCEPT !.status = "REJECTED"]
              ELSE offer[y]
    BY <1>6 DEF CommitAnswer
  <2>2. session[p].op # "read" /\ lock[x] = p
    BY <1>1, <2>1 DEF Discipline, SessionsSane
  <2>3. Decision[session[p].op] \in {"ACCEPTED", "REJECTED", "CANCELLED", "WITHDRAWN"}
    <3>1. session[p].op \in {"accept", "reject", "cancel", "withdraw"}
      BY <1>1, <2>2 DEF OfferAssumption, Session
    <3>2. QED
      BY <3>1 DEF Decision
  <2>4. \A y \in OfferIds : lock[y] = p => offer[y].status = "PENDING"
    BY DEF Discipline, LocksHeld, OfferAssumption
  <2>5. \A y \in OfferIds : lock[y] = p => offer[y] \in OfferRow
    BY <2>4 DEF TypeOK, Absent
  <2>6. ASSUME NEW y \in OfferIds, lock[y] = p
        PROVE  Settles(y)
    <3>1. PICK s \in {"ACCEPTED", "REJECTED", "CANCELLED", "WITHDRAWN"} :
             offer'[y] = [offer[y] EXCEPT !.status = s]
      BY <2>1, <2>3, <2>6
    <3>2. s \in OfferStatus
      BY DEF OfferStatus
    <3>3. /\ offer'[y] \in OfferRow /\ offer'[y].status = s
          /\ offer'[y].listing = offer[y].listing /\ offer'[y].buyer = offer[y].buyer
      BY <2>5, <2>6, <3>1, <3>2, StatusSet
    <3>4. QED
      BY <2>4, <2>5, <2>6, <3>3 DEF Settles
  <2>7. ASSUME NEW y \in OfferIds, lock[y] # p
        PROVE  Settles(y)
    BY <2>1, <2>2, <2>7 DEF Settles
  <2>8. QED
    BY <2>6, <2>7
<1>7. QED
  BY <1>3, <1>4, <1>5, <1>6 DEF Step

\* The other steps leave the offers alone, but for a new one.
LEMMA OthersSettle ==
    ASSUME TypeOK,
           \/ \E p \in Slots, op \in Ops, x \in OfferIds : Begin(p, op, x)
           \/ \E p \in Slots : Abort(p)
           \/ \E x \in OfferIds : CheckoutOffer(x) \/ Elapse(x)
           \/ \E l \in Listings : ListingMoves(l)
           \/ UNCHANGED vars
    PROVE  offer' = offer
BY DEF Begin, Abort, Refuse, CheckoutOffer, Elapse, ListingMoves, vars

LEMMA NewOffer ==
    ASSUME TypeOK, NEW x \in OfferIds, NEW l \in Listings, NEW b \in Users, CreateOffer(x, l, b)
    PROVE  /\ offer[x] = Absent
           /\ offer'[x] = [status |-> "PENDING", listing |-> l, buyer |-> b]
           /\ offer'[x] \in OfferRow
           /\ \A y \in OfferIds \ {x} : offer'[y] = offer[y]
           /\ offer' \in [OfferIds -> OfferRow \cup {Absent}]
<1>1. [status |-> "PENDING", listing |-> l, buyer |-> b] \in OfferRow
  BY DEF OfferRow, OfferStatus
<1>2. QED
  BY <1>1 DEF CreateOffer, TypeOK

-----------------------------------------------------------------------------
(* Type correctness.                                                       *)

LEMMA MoveType ==
    ASSUME CatalogTypeOK, NEW l \in Listings, NEW from, NEW to \in ListingStatus,
           Move(l, from, to)
    PROVE  CatalogTypeOK'
BY DEF CatalogTypeOK, Move

LEMMA UnlockType ==
    ASSUME TypeOK, NEW p \in Slots, Close(p)
    PROVE  /\ lock' \in [OfferIds -> Slots \cup {Free}]
           /\ session' \in [Slots -> Session \cup {Idle}]
           /\ session'[p] = Idle
           /\ \A q \in Slots \ {p} : session'[q] = session[q]
           /\ \A x \in OfferIds : lock'[x] = IF lock[x] = p THEN Free ELSE lock[x]
BY DEF Close, Unlock, TypeOK

LEMMA StepType ==
    ASSUME OfferAssumption, TypeOK, Discipline, NEW p \in Slots, Step(p)
    PROVE  TypeOK'
<1>1. offer' \in [OfferIds -> OfferRow \cup {Absent}]
  <2>1. offer' = [y \in OfferIds |-> offer'[y]]
    BY DEF Step, CommitExpiry, LockOffer, LockSiblings, CommitAnswer, Refuse, TypeOK
  <2>2. \A y \in OfferIds : offer'[y] \in OfferRow \cup {Absent}
    BY StepSettles DEF Settles, TypeOK
  <2>3. QED
    BY <2>1, <2>2
<1>2. UNCHANGED <<listing, due, ordered>>
  BY DEF Step, CommitExpiry, LockOffer, LockSiblings, CommitAnswer, Refuse
<1>3. /\ lock' \in [OfferIds -> Slots \cup {Free}]
      /\ session' \in [Slots -> Session \cup {Idle}]
  <2>1. session[p] \in Session
    BY StepIsBusy, BusySession
  <2>2. CASE Close(p)
    BY <2>2, UnlockType
  <2>3. ASSUME NEW pc \in {"siblings", "commit"}, session' = [session EXCEPT ![p].pc = pc]
        PROVE  session' \in [Slots -> Session \cup {Idle}]
    <3>1. [session[p] EXCEPT !.pc = pc] \in Session
      BY <2>1 DEF Session
    <3>2. QED
      BY <2>3, <3>1 DEF TypeOK
  <2>4. CASE lock' = [lock EXCEPT ![session[p].offer] = p]
             /\ session' = [session EXCEPT ![p].pc =
                              IF session[p].op = "accept" THEN "siblings" ELSE "commit"]
    BY <2>3, <2>4 DEF TypeOK
  <2>5. CASE LockSiblings(p)
    BY <2>3, <2>5 DEF LockSiblings, TypeOK
  <2>6. QED
    BY <2>2, <2>4, <2>5 DEF Step, CommitExpiry, LockOffer, CommitAnswer, Refuse
<1>4. QED
  BY <1>1, <1>2, <1>3 DEF TypeOK, CatalogTypeOK

LEMMA NextType ==
    OfferAssumption /\ CatalogAssumption /\ TypeOK /\ Discipline /\ [Next]_vars => TypeOK'
<1> SUFFICES ASSUME OfferAssumption, CatalogAssumption, TypeOK, Discipline, [Next]_vars
             PROVE  TypeOK'
  OBVIOUS
<1>1. ASSUME NEW x \in OfferIds, NEW l \in Listings, NEW b \in Users, CreateOffer(x, l, b)
      PROVE  TypeOK'
  BY <1>1, NewOffer DEF CreateOffer, TypeOK, CatalogTypeOK
<1>2. ASSUME NEW p \in Slots, NEW op \in Ops, NEW x \in OfferIds, Begin(p, op, x)
      PROVE  TypeOK'
  BY <1>2 DEF Begin, TypeOK, CatalogTypeOK, Session
<1>3. ASSUME NEW p \in Slots, Step(p)
      PROVE  TypeOK'
  BY <1>3, StepType
<1>4. ASSUME NEW p \in Slots, Abort(p)
      PROVE  TypeOK'
  BY <1>4, UnlockType DEF Abort, Refuse, TypeOK, CatalogTypeOK
<1>5. ASSUME NEW x \in OfferIds, CheckoutOffer(x)
      PROVE  TypeOK'
  BY <1>5 DEF CheckoutOffer, TypeOK, CatalogTypeOK, ListingStatus
<1>6. ASSUME NEW x \in OfferIds, Elapse(x)
      PROVE  TypeOK'
  BY <1>6 DEF Elapse, TypeOK, CatalogTypeOK
<1>7. ASSUME NEW l \in Listings, ListingMoves(l)
      PROVE  TypeOK'
  <2>1. {"ACTIVE", "RESERVED", "SOLD", "REMOVED"} \subseteq ListingStatus
    BY DEF ListingStatus
  <2>2. CatalogTypeOK'
    BY <1>7, <2>1, MoveType DEF ListingMoves, RemoveListing, RestoreListing, TypeOK
  <2>3. QED
    BY <1>7, <2>2 DEF ListingMoves, TypeOK
<1>8. CASE UNCHANGED vars
  BY <1>8 DEF vars, TypeOK, CatalogTypeOK
<1>9. QED
  BY <1>1, <1>2, <1>3, <1>4, <1>5, <1>6, <1>7, <1>8 DEF Next

-----------------------------------------------------------------------------
(* The discipline is kept.                                                 *)

\* A session that ends, by whatever step, drops its locks; the rest keep theirs, since
\* nobody writes a row that is locked.
LEMMA CloseDiscipline ==
    ASSUME OfferAssumption, TypeOK, Discipline, NEW p \in Slots, Close(p),
           \A y \in OfferIds : offer[y] # Absent => offer'[y] # Absent,
           \A y \in OfferIds : lock[y] \notin {p, Free} => offer'[y] = offer[y]
    PROVE  Discipline'
<1>1. /\ session'[p] = Idle
      /\ \A q \in Slots \ {p} : session'[q] = session[q]
      /\ \A x \in OfferIds : lock'[x] = IF lock[x] = p THEN Free ELSE lock[x]
      /\ Free \notin Slots /\ lock \in [OfferIds -> Slots \cup {Free}]
  BY UnlockType DEF OfferAssumption, TypeOK
<1>2. SessionsSane'
  <2> SUFFICES ASSUME NEW q \in Slots, session'[q] # Idle
               PROVE  /\ offer'[session'[q].offer] # Absent
                      /\ session'[q].pc # "expire" => session'[q].op # "read"
                      /\ session'[q].pc \in {"siblings", "commit"}
                           => lock'[session'[q].offer] = q
    BY DEF SessionsSane
  <2>1. q # p /\ session'[q] = session[q] /\ session[q] # Idle
    BY <1>1
  <2>2. session[q].offer \in OfferIds
    BY <2>1, BusySession
  <2>3. /\ offer[session[q].offer] # Absent
        /\ session[q].pc # "expire" => session[q].op # "read"
        /\ session[q].pc \in {"siblings", "commit"} => lock[session[q].offer] = q
    BY <2>1 DEF Discipline, SessionsSane
  <2>4. QED
    BY <1>1, <2>1, <2>2, <2>3
<1>3. LocksHeld'
  <2> SUFFICES ASSUME NEW x \in OfferIds, lock'[x] # Free
               PROVE  /\ offer'[x].status = "PENDING"
                      /\ session'[lock'[x]].pc \in {"siblings", "commit"}
    BY DEF LocksHeld
  <2>1. lock'[x] = lock[x] /\ lock[x] \in Slots \ {p}
    BY <1>1
  <2>2. offer'[x] = offer[x]
    BY <2>1, <1>1
  <2>3. offer[x].status = "PENDING" /\ session[lock[x]].pc \in {"siblings", "commit"}
    BY <1>1, <2>1 DEF Discipline, LocksHeld
  <2>4. QED
    BY <1>1, <2>1, <2>2, <2>3
<1>4. QED
  BY <1>2, <1>3 DEF Discipline

LEMMA LockDiscipline ==
    ASSUME OfferAssumption, TypeOK, Discipline, NEW p \in Slots, session[p] # Idle,
           UNCHANGED offer, NEW taken \in SUBSET OfferIds,
           \A y \in taken : lock[y] = Free /\ offer[y].status = "PENDING",
           session[p].offer \in taken \/ lock[session[p].offer] = p,
           lock' = [y \in OfferIds |-> IF y \in taken THEN p ELSE lock[y]],
           session[p].pc # "expire",
           NEW pc \in {"siblings", "commit"}, session' = [session EXCEPT ![p].pc = pc]
    PROVE  Discipline'
<1>1. session[p] \in Session /\ session[p].offer \in OfferIds
  BY BusySession
<1>2. /\ session'[p].pc = pc /\ session'[p].op = session[p].op
      /\ session'[p].offer = session[p].offer
      /\ \A q \in Slots \ {p} : session'[q] = session[q]
  BY <1>1 DEF Session, TypeOK
<1>3. /\ \A y \in OfferIds : lock'[y] = IF y \in taken THEN p ELSE lock[y]
      /\ Free \notin Slots /\ lock \in [OfferIds -> Slots \cup {Free}]
  BY DEF OfferAssumption, TypeOK
<1>4. SessionsSane'
  <2> SUFFICES ASSUME NEW q \in Slots, session'[q] # Idle
               PROVE  /\ offer'[session'[q].offer] # Absent
                      /\ session'[q].pc # "expire" => session'[q].op # "read"
                      /\ session'[q].pc \in {"siblings", "commit"}
                           => lock'[session'[q].offer] = q
    BY DEF SessionsSane
  <2>1. CASE q = p
    <3>1. offer[session[p].offer] # Absent /\ session[p].op # "read"
      BY DEF Discipline, SessionsSane
    <3>2. lock'[session[p].offer] = p
      BY <1>1, <1>3
    <3>3. QED
      BY <1>2, <2>1, <3>1, <3>2
  <2>2. CASE q # p
    <3>1. session'[q] = session[q] /\ session[q] # Idle /\ session[q].offer \in OfferIds
      BY <1>2, <2>2, BusySession
    <3>2. /\ offer[session[q].offer] # Absent
          /\ session[q].pc # "expire" => session[q].op # "read"
          /\ session[q].pc \in {"siblings", "commit"} => lock[session[q].offer] = q
      BY <3>1 DEF Discipline, SessionsSane
    <3>3. QED
      BY <1>3, <3>1, <3>2
  <2>3. QED
    BY <2>1, <2>2
<1>5. LocksHeld'
  <2> SUFFICES ASSUME NEW x \in OfferIds, lock'[x] # Free
               PROVE  /\ offer'[x].status = "PENDING"
                      /\ session'[lock'[x]].pc \in {"siblings", "commit"}
    BY DEF LocksHeld
  <2>1. CASE x \in taken
    BY <1>2, <1>3, <2>1
  <2>2. CASE x \notin taken
    <3>1. lock'[x] = lock[x] /\ lock[x] \in Slots
      BY <1>3, <2>2
    <3>2. offer[x].status = "PENDING" /\ session[lock[x]].pc \in {"siblings", "commit"}
      BY <3>1, <1>3 DEF Discipline, LocksHeld
    <3>3. QED
      BY <1>2, <3>1, <3>2
  <2>3. QED
    BY <2>1, <2>2
<1>6. QED
  BY <1>4, <1>5 DEF Discipline

LEMMA StepDiscipline ==
    ASSUME OfferAssumption, TypeOK, TypeOK', Discipline, NEW p \in Slots, Step(p)
    PROVE  Discipline'
<1> DEFINE x == session[p].offer
<1>1. /\ session[p] \in Session /\ x \in OfferIds /\ offer[x] \in OfferRow
      /\ session[p] # Idle
  BY StepIsBusy, BusySession
<1>2. Free \notin Slots /\ lock \in [OfferIds -> Slots \cup {Free}]
  BY DEF OfferAssumption, TypeOK
<1>3. \A y \in OfferIds : offer[y] # Absent => offer'[y] # Absent
  BY StepSettles, RowFacts DEF Settles
<1>4. ASSUME Close(p), lock[x] \in {Free, p},
             \A y \in OfferIds \ {x} : lock[y] # p => offer'[y] = offer[y]
      PROVE  Discipline'
  BY <1>3, <1>4, CloseDiscipline
<1>5. CASE CommitExpiry(p)
  <2>1. \A y \in OfferIds \ {x} : offer'[y] = offer[y]
    BY <1>5 DEF CommitExpiry, TypeOK
  <2>2. QED
    BY <1>4, <1>5, <2>1 DEF CommitExpiry, Available
<1>6. CASE LockOffer(p)
  <2>1. lock[x] = Free /\ session[p].pc = "lock"
    BY <1>6 DEF LockOffer, Available
  <2>2. CASE Close(p)
    <3>1. \A y \in OfferIds \ {x} : offer'[y] = offer[y]
      BY <1>6 DEF LockOffer, Refuse, TypeOK
    <3>2. QED
      BY <1>4, <2>1, <2>2, <3>1
  <2>3. CASE ~Close(p)
    <3>1. /\ Answerable(p, x)
          /\ lock' = [lock EXCEPT ![x] = p]
          /\ UNCHANGED offer
          /\ session' = [session EXCEPT ![p].pc =
                           IF session[p].op = "accept" THEN "siblings" ELSE "commit"]
      BY <1>6, <2>3 DEF LockOffer, Refuse
    <3>2. offer[x].status = "PENDING"
      BY <3>1 DEF Answerable
    <3>3. lock' = [y \in OfferIds |-> IF y \in {x} THEN p ELSE lock[y]]
      BY <1>2, <3>1
    <3>4. PICK pc \in {"siblings", "commit"} : session' = [session EXCEPT ![p].pc = pc]
      BY <3>1
    <3>5. PICK taken \in SUBSET OfferIds : taken = {x}
      BY <1>1
    <3>6. /\ \A y \in taken : lock[y] = Free /\ offer[y].status = "PENDING"
          /\ x \in taken
          /\ lock' = [y \in OfferIds |-> IF y \in taken THEN p ELSE lock[y]]
          /\ session[p].pc # "expire"
      BY <2>1, <3>2, <3>3, <3>5
    <3>7. QED
      BY <1>1, <3>1, <3>4, <3>6, LockDiscipline
  <2>4. QED
    BY <2>2, <2>3
<1>7. CASE LockSiblings(p)
  <2> DEFINE taken == {y \in (With("PENDING") \cap On(offer[x].listing)) \ {x} : lock[y] = Free}
  <2>1. lock' = [y \in OfferIds |-> IF y \in taken THEN p ELSE lock[y]]
    BY <1>7 DEF LockSiblings, Available
  <2>2. taken \in SUBSET OfferIds /\ \A y \in taken : lock[y] = Free /\ offer[y].status = "PENDING"
    BY DEF With
  <2>3. /\ session[p].pc = "siblings" /\ UNCHANGED offer
        /\ session' = [session EXCEPT ![p].pc = "commit"]
    BY <1>7 DEF LockSiblings
  <2>4. lock[x] = p
    BY <1>1, <2>3 DEF Discipline, SessionsSane
  <2>5. QED
    <3> HIDE DEF taken
    <3>1. QED
      BY <1>1, <2>1, <2>2, <2>3, <2>4, LockDiscipline
<1>8. CASE CommitAnswer(p)
  <2>1. session[p].pc = "commit"
        /\ \A y \in OfferIds \ {x} : lock[y] # p => offer'[y] = offer[y]
    BY <1>8 DEF CommitAnswer
  <2>2. lock[x] = p
    BY <1>1, <2>1 DEF Discipline, SessionsSane
  <2>3. QED
    BY <1>4, <1>8, <2>1, <2>2 DEF CommitAnswer
<1>9. QED
  BY <1>5, <1>6, <1>7, <1>8 DEF Step

LEMMA NextDiscipline ==
    OfferAssumption /\ TypeOK /\ TypeOK' /\ Discipline /\ [Next]_vars => Discipline'
<1> SUFFICES ASSUME OfferAssumption, TypeOK, TypeOK', Discipline, [Next]_vars
             PROVE  Discipline'
  OBVIOUS
<1>1. ASSUME NEW x \in OfferIds, NEW l \in Listings, NEW b \in Users, CreateOffer(x, l, b)
      PROVE  Discipline'
  <2>1. /\ offer[x] = Absent /\ offer'[x] \in OfferRow
        /\ \A y \in OfferIds \ {x} : offer'[y] = offer[y]
        /\ UNCHANGED <<lock, session>>
    BY <1>1, NewOffer DEF CreateOffer
  <2>2. lock[x] = Free
    BY <2>1 DEF Discipline, LocksHeld, Absent
  <2>3. LocksHeld'
    BY <2>1, <2>2 DEF Discipline, LocksHeld
  <2>4. \A p \in Slots : session[p] # Idle => offer'[session[p].offer] # Absent
    BY <2>1, RowFacts, BusySession DEF Discipline, SessionsSane
  <2>5. SessionsSane'
    BY <2>1, <2>4 DEF Discipline, SessionsSane
  <2>6. QED
    BY <2>3, <2>5 DEF Discipline
<1>2. ASSUME NEW p \in Slots, NEW op \in Ops, NEW x \in OfferIds, Begin(p, op, x)
      PROVE  Discipline'
  <2>1. /\ session[p] = Idle /\ offer[x] # Absent /\ UNCHANGED <<offer, lock>>
        /\ \A q \in Slots \ {p} : session'[q] = session[q]
    BY <1>2 DEF Begin, TypeOK
  <2>2. /\ session'[p].offer = x /\ session'[p].op = op
        /\ session'[p].pc = IF op = "read" THEN "expire" ELSE "lock"
    BY <1>2 DEF Begin, TypeOK
  <2>3. SessionsSane'
    BY <2>1, <2>2 DEF Discipline, SessionsSane
  <2>4. \A y \in OfferIds : lock[y] # p
    BY <2>1 DEF Discipline, LocksHeld, Idle, OfferAssumption
  <2>5. LocksHeld'
    BY <2>1, <2>4 DEF Discipline, LocksHeld, TypeOK
  <2>6. QED
    BY <2>3, <2>5 DEF Discipline
<1>3. ASSUME NEW p \in Slots, Step(p)
      PROVE  Discipline'
  BY <1>3, StepDiscipline
<1>4. ASSUME NEW p \in Slots, Abort(p)
      PROVE  Discipline'
  BY <1>4, CloseDiscipline DEF Abort, Refuse
<1>5. ASSUME NEW x \in OfferIds, Elapse(x) \/ CheckoutOffer(x)
      PROVE  Discipline'
  BY <1>5 DEF Elapse, CheckoutOffer, Discipline, SessionsSane, LocksHeld
<1>6. CASE (\E l \in Listings : ListingMoves(l)) \/ UNCHANGED vars
  BY <1>6 DEF ListingMoves, vars, Discipline, SessionsSane, LocksHeld
<1>7. QED
  BY <1>1, <1>2, <1>3, <1>4, <1>5, <1>6 DEF Next

\* Offers, their row locks and the requests of offers.py stay within their domains.
THEOREM TypeCorrect == Spec => []TypeOK
<1>1. Init => TypeOK /\ Discipline
  BY DEF Init, TypeOK, CatalogTypeOK, ListingStatus, Discipline, SessionsSane, LocksHeld
<1>2. TypeOK /\ Discipline /\ [Next]_vars => TypeOK'
  BY NextType, OfferAssumption, CatalogAssumption
<1>3. TypeOK /\ TypeOK' /\ Discipline /\ [Next]_vars => Discipline'
  BY NextDiscipline, OfferAssumption
<1>4. QED
  BY <1>1, <1>2, <1>3, PTL DEF Spec

\* Whoever answers an offer holds its row from the check to the commit, and every row
\* that is held is still unanswered, the siblings of an acceptance included.
THEOREM DisciplineKept == Spec => []Discipline
<1>1. Init => TypeOK /\ Discipline
  BY DEF Init, TypeOK, CatalogTypeOK, ListingStatus, Discipline, SessionsSane, LocksHeld
<1>2. TypeOK /\ TypeOK' /\ Discipline /\ [Next]_vars => Discipline'
  BY NextDiscipline, OfferAssumption
<1>3. QED
  BY <1>1, <1>2, TypeCorrect, PTL DEF Spec

-----------------------------------------------------------------------------
(* What buyers and sellers rely on.                                        *)

\* A reader goes on with an offer only when it finds it past due, which it stays.
LEMMA ReadersLateKept == Spec => []ReadersLate
<1>1. Init => ReadersLate
  BY DEF Init, ReadersLate, ReadBy, Idle
<1>2. TypeOK /\ Discipline /\ ReadersLate /\ [Next]_vars => ReadersLate'
  <2> SUFFICES ASSUME TypeOK, Discipline, ReadersLate, [Next]_vars, NEW x \in OfferIds, ReadBy(x)'
               PROVE  x \in due'
    BY DEF ReadersLate
  <2>1. due \subseteq due'
    BY DEF Next, CreateOffer, Begin, Step, CommitExpiry, LockOffer, LockSiblings,
           CommitAnswer, Abort, Refuse, CheckoutOffer, Elapse, ListingMoves, vars
  <2>2. PICK p \in Slots : session'[p].pc = "expire" /\ session'[p].offer = x
    BY DEF ReadBy
  <2>3. CASE session'[p] = session[p]
    BY <2>1, <2>2, <2>3 DEF ReadersLate, ReadBy
  <2>4. ASSUME NEW q \in Slots, NEW op \in Ops, NEW y \in OfferIds, Begin(q, op, y)
        PROVE  x \in due'
    <3>1. CASE q = p
      BY <2>1, <2>2, <2>4, <3>1 DEF Begin, Expired, TypeOK
    <3>2. CASE q # p
      BY <2>3, <2>4, <3>2 DEF Begin, TypeOK
    <3>3. QED
      BY <3>1, <3>2
  <2>5. ASSUME NEW q \in Slots, Step(q) \/ Abort(q)
        PROVE  x \in due'
    <3>1. CASE q # p
      BY <2>3, <2>5, <3>1 DEF Step, CommitExpiry, LockOffer, LockSiblings, CommitAnswer, Abort, Refuse,
         Close, TypeOK
    <3>2. CASE q = p
      <4>1. session[p] # Idle
        BY <2>5, <3>2, StepIsBusy DEF Abort
      <4>2. session[p] \in Session
        BY <4>1, BusySession
      <4>3. session'[p].pc # "expire"
        BY <2>5, <3>2, <4>2 DEF Step, CommitExpiry, LockOffer, LockSiblings, CommitAnswer, Abort,
           Refuse, Close, TypeOK, Idle, Session
      <4>4. QED
        BY <2>2, <4>3
    <3>3. QED
      BY <3>1, <3>2
  <2>6. QED
    BY <2>3, <2>4, <2>5 DEF Next, CreateOffer, CheckoutOffer, Elapse, ListingMoves, vars
<1>3. QED
  BY <1>1, <1>2, TypeCorrect, DisciplineKept, PTL DEF Spec

\* A row that is not PENDING stays as it is, or a late reader expires it.
LEMMA AnsweredSettles ==
    ASSUME OfferAssumption, TypeOK, Discipline, ReadersLate, [Next]_vars,
           NEW x \in OfferIds, offer[x].status \notin {"NONE", "PENDING"}
    PROVE  offer'[x].status = offer[x].status \/ (offer'[x].status = "EXPIRED" /\ LateReader(x))
<1>1. ASSUME NEW y \in OfferIds, NEW l \in Listings, NEW b \in Users, CreateOffer(y, l, b)
      PROVE  offer'[x] = offer[x]
  <2>1. offer[y] = Absent /\ \A z \in OfferIds \ {y} : offer'[z] = offer[z]
    BY <1>1, NewOffer, Zenon
  <2>2. QED
    BY <2>1 DEF Absent
<1>2. ASSUME NEW p \in Slots, Step(p)
      PROVE  Settles(x)
  BY <1>2, StepSettles
<1>3. offer'[x] = offer[x] \/ Settles(x)
  BY <1>1, <1>2, OthersSettle DEF Next
<1>4. ReadBy(x) => LateReader(x)
  BY DEF ReadersLate, ReadBy, LateReader
<1>5. QED
  BY <1>3, <1>4 DEF Settles

\* An offer is answered once: what respond_to_offer and withdraw_offer decided under
\* the row lock is not decided again.  A GET that loaded the offer before, with its time
\* up, does write EXPIRED over the answer, and nothing else does.
THEOREM AnswerCorrect == Spec => AnswerStands
<1>1. TypeOK /\ Discipline /\ ReadersLate /\ [Next]_vars
          => [\A x \in OfferIds : offer[x].status \notin {"NONE", "PENDING"} =>
                 \/ offer'[x].status = offer[x].status
                 \/ offer'[x].status = "EXPIRED" /\ LateReader(x)]_vars
  BY AnsweredSettles, OfferAssumption
<1>2. QED
  BY <1>1, TypeCorrect, DisciplineKept, ReadersLateKept, PTL DEF Spec, AnswerStands

\* An order (checkout of an accepted offer) never loses the offer it rests on, except to
\* a GET that loaded the offer past due and writes EXPIRED late.
THEOREM OrderedCorrect == Spec => []OrderedIsAccepted
<1>1. Init => OrderedIsAccepted
  BY DEF Init, OrderedIsAccepted
<1>2. TypeOK /\ Discipline /\ ReadersLate /\ OrderedIsAccepted /\ [Next]_vars => OrderedIsAccepted'
  <2> SUFFICES ASSUME TypeOK, Discipline, ReadersLate, OrderedIsAccepted, [Next]_vars,
                      NEW x \in ordered'
               PROVE  \/ offer'[x].status = "ACCEPTED"
                      \/ offer'[x].status = "EXPIRED" /\ x \in due'
    BY DEF OrderedIsAccepted
  <2>1. CASE \E y \in OfferIds : CheckoutOffer(y)
    BY <2>1 DEF CheckoutOffer, OrderedIsAccepted
  <2>2. CASE ordered' = ordered
    <3>1. x \in OfferIds /\ offer[x].status \notin {"NONE", "PENDING"}
      BY <2>2 DEF TypeOK, OrderedIsAccepted
    <3>2. offer'[x].status = offer[x].status \/ (offer'[x].status = "EXPIRED" /\ LateReader(x))
      BY <3>1, AnsweredSettles, OfferAssumption
    <3>3. due \subseteq due'
      BY DEF Next, CreateOffer, Begin, Step, CommitExpiry, LockOffer, LockSiblings,
             CommitAnswer, Abort, Refuse, CheckoutOffer, Elapse, ListingMoves, vars
    <3>4. QED
      BY <2>2, <3>1, <3>2, <3>3 DEF LateReader, OrderedIsAccepted
  <2>3. ordered' = ordered \/ \E y \in OfferIds : CheckoutOffer(y)
    BY DEF Next, CreateOffer, Begin, Step, CommitExpiry, LockOffer, LockSiblings,
           CommitAnswer, Abort, Refuse, Elapse, ListingMoves, vars
  <2>4. QED
    BY <2>1, <2>2, <2>3
<1>3. QED
  BY <1>1, <1>2, TypeCorrect, DisciplineKept, ReadersLateKept, PTL DEF Spec

-----------------------------------------------------------------------------
(* Who waits for whom.                                                     *)

\* The row a request wants to lock or write next is held by somebody; an acceptance
\* would wait at its second select as well, if that did not pass over held rows.
Waits(p) ==
    /\ session[p] # Idle
    /\ \/ session[p].pc \in {"lock", "expire"} /\ ~Available(session[p].offer)
       \/ /\ session[p].pc = "siblings"
          /\ ~PassOver(p, (With("PENDING") \cap On(offer[session[p].offer].listing))
                              \ {session[p].offer})

\* The safety half of RequestsEnd: nobody who holds a row of the offers table waits for
\* another one, although an acceptance locks a whole set of rows in no fixed order.  A
\* wait is for a request that can go on, so there is no cycle and no queue behind a queue.
THEOREM HoldersNeverWait == Spec => [](\A x \in OfferIds : lock[x] # Free => ~Waits(lock[x]))
<1>1. Discipline => \A x \in OfferIds : lock[x] # Free => ~Waits(lock[x])
  BY DEF Discipline, LocksHeld, Waits, PassOver
<1>2. QED
  BY <1>1, DisciplineKept, PTL
=============================================================================
