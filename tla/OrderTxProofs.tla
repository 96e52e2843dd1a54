---------------------------- MODULE OrderTxProofs ----------------------------
(***************************************************************************)
(* Proofs about OrderTx, for any number of requests, orders, listings and  *)
(* payment keys: what requests of every kind preserve, who waits for whom, *)
(* and what requests that all lock preserve besides.                       *)
(***************************************************************************)
EXTENDS OrderTx, OrdersProofs

-----------------------------------------------------------------------------
(* The inductive invariant of the row locks.                               *)

\* What a session has a right to: whoever decides on a payment or a cancellation has
\* the order locked, and nobody can take the order of a payment out of its hands.
Disciplined(p) ==
    LET s == session[p]
    IN  /\ s.act \in {task[p].op, "cancel"}
        /\ s.pc = "begin" => s.act = task[p].op /\ s.order = task[p].order
        /\ (s.pc \in {"readListing", "commit"} /\ s.act \in {"pay", "decline", "cancel"})
              => lock[s.order] = p
        /\ (s.pc \in {"readListing", "commit"} /\ s.act \in {"pay", "decline"})
              => order[s.order].status \in Unpaid
        /\ (s.pc \in {"lockOrder", "readListing"} \/ (s.pc = "commit" /\ s.act # "archive"))
              => order[s.order].status # "NONE"
        /\ (s.pc = "commit" /\ s.act \in {"ship", "deliver"}) => Charged(s.order)

SoldIsCharged == \A o \in OrderIds : order[o].status \in Sold => Charged(o)

TxInv ==
    /\ TxTypeOK
    /\ OneLiveOrder
    /\ SoldIsCharged
    /\ \A p \in Requests : Disciplined(p)

-----------------------------------------------------------------------------
LEMMA SessionFacts ==
    ASSUME TxInv, NEW p \in Requests
    PROVE  /\ session[p] \in Session
           /\ session[p].order \in OrderIds
           /\ task[p] \in Task
           /\ task[p].order \in OrderIds /\ task[p].listing \in Listings
           /\ task[p].buyer \in Users /\ task[p].key \in Keys
           /\ Disciplined(p)
BY DEF TxInv, TxTypeOK, Session, Task

\* One session moves.
LEMMA SessionMoves ==
    ASSUME TxInv, NEW p \in Requests, NEW s \in Session, session' = [session EXCEPT ![p] = s]
    PROVE  /\ session' \in [Requests -> Session]
           /\ session'[p] = s
           /\ \A q \in Requests \ {p} : session'[q] = session[q]
BY DEF TxInv, TxTypeOK

LEMMA DropLocksMeans ==
    ASSUME TxInv, NEW p \in Requests, DropLocks(p)
    PROVE  /\ lock' \in [OrderIds \cup Listings -> Requests \cup {Free}]
           /\ \A x \in OrderIds \cup Listings : lock[x] \in Requests \ {p} => lock'[x] = lock[x]
BY DEF TxInv, TxTypeOK, DropLocks

LEMMA AcquireMeans ==
    ASSUME TxInv, OrderTxAssumption, NEW p \in Requests, NEW x \in OrderIds \cup Listings, Acquire(p, x)
    PROVE  /\ lock' \in [OrderIds \cup Listings -> Requests \cup {Free}]
           /\ lock'[x] = p
           /\ \A y \in OrderIds \cup Listings : lock[y] \in Requests => lock'[y] = lock[y]
<1>1. lock[x] \in {Free, p} /\ Free \notin Requests
  BY DEF Acquire, Available, OrderTxAssumption, Free
<1> QED
  BY <1>1 DEF TxInv, TxTypeOK, Acquire

\* The other sessions keep what they have when their locks are respected, orders and
\* charges do not vanish, and an unpaid order stays unpaid while they hold it.
LEMMA OthersKept ==
    ASSUME TxInv, NEW p \in Requests, UNCHANGED task,
           \A q \in Requests \ {p} : session'[q] = session[q],
           \A x \in OrderIds \cup Listings : lock[x] \in Requests \ {p} => lock'[x] = lock[x],
           \A o \in OrderIds : order[o].status # "NONE" => order'[o].status # "NONE",
           \A o \in OrderIds : Charged(o) => Charged(o)',
           \A o \in OrderIds : (lock[o] \in Requests \ {p} /\ order[o].status \in Unpaid)
                                  => order'[o].status \in Unpaid
    PROVE  \A q \in Requests \ {p} : Disciplined(q)'
<1> SUFFICES ASSUME NEW q \in Requests \ {p}
             PROVE  Disciplined(q)'
  OBVIOUS
<1>1. /\ session'[q] = session[q] /\ task'[q] = task[q]
      /\ session[q].order \in OrderIds /\ Disciplined(q)
  BY SessionFacts
<1>2. Charged(session[q].order) => Charged(session[q].order)'
  BY <1>1 DEF Charged
<1>3. lock[session[q].order] = q => lock'[session[q].order] = q
  BY <1>1
<1>4. lock[session[q].order] = q /\ order[session[q].order].status \in Unpaid
        => order'[session[q].order].status \in Unpaid
  BY <1>1
<1>5. order[session[q].order].status # "NONE" => order'[session[q].order].status # "NONE"
  BY <1>1
<1> QED
  BY <1>1, <1>2, <1>3, <1>4, <1>5 DEF Disciplined, Charged

\* A step that reads, waits for a lock or gives up: no row changes.
LEMMA LocalStep ==
    ASSUME TxInv, NEW p \in Requests, UNCHANGED <<vars, task>>,
           NEW s \in Session, session' = [session EXCEPT ![p] = s],
           lock' \in [OrderIds \cup Listings -> Requests \cup {Free}],
           \A x \in OrderIds \cup Listings : lock[x] \in Requests \ {p} => lock'[x] = lock[x],
           Disciplined(p)'
    PROVE  TxInv'
<1>1. session' \in [Requests -> Session] /\ \A q \in Requests \ {p} : session'[q] = session[q]
  BY SessionMoves
<1>2. UNCHANGED <<order, payment>> /\ \A o \in OrderIds : Charged(o)' <=> Charged(o)
  BY DEF vars, Charged
<1>3. \A q \in Requests \ {p} : Disciplined(q)'
  BY <1>1, <1>2, OthersKept
<1>4. \A q \in Requests : Disciplined(q)'
  BY <1>3
<1>5. TypeOK'
  BY DEF TxInv, TxTypeOK, TypeOK, CatalogTypeOK, vars
<1>6. TxTypeOK'
  BY <1>1, <1>5 DEF TxTypeOK, TxInv
<1>7. OneLiveOrder' /\ SoldIsCharged'
  BY <1>2 DEF TxInv, OneLiveOrder, Live, SoldIsCharged
<1> QED
  BY <1>4, <1>6, <1>7 DEF TxInv

\* A request that is answered has nothing to defend.
LEMMA DoneIsDisciplined ==
    ASSUME TxInv, NEW p \in Requests, UNCHANGED task, session'[p].pc = "done",
           session'[p].act = session[p].act
    PROVE  Disciplined(p)'
BY SessionFacts DEF Disciplined

LEMMA AnswerMeans ==
    ASSUME TxInv, NEW p \in Requests, Answer(p)
    PROVE  /\ session' = [session EXCEPT ![p] = [session[p] EXCEPT !.pc = "done"]]
           /\ [session[p] EXCEPT !.pc = "done"] \in Session
           /\ session'[p].pc = "done" /\ session'[p].act = session[p].act
           /\ \A q \in Requests \ {p} : session'[q] = session[q]
           /\ session' \in [Requests -> Session]
           /\ lock' \in [OrderIds \cup Listings -> Requests \cup {Free}]
           /\ \A x \in OrderIds \cup Listings : lock[x] \in Requests \ {p} => lock'[x] = lock[x]
<1>1. session[p] \in Session /\ session \in [Requests -> Session]
  BY SessionFacts DEF TxInv, TxTypeOK
<1>2. session' = [session EXCEPT ![p] = [session[p] EXCEPT !.pc = "done"]]
  BY <1>1 DEF Answer, Goto
<1>3. [session[p] EXCEPT !.pc = "done"] \in Session
  BY <1>1 DEF Session
<1>4. session'[p] = [session[p] EXCEPT !.pc = "done"]
  BY <1>1, <1>2
<1>5. session'[p].pc = "done" /\ session'[p].act = session[p].act
  BY <1>1, <1>4 DEF Session
<1> QED
  BY <1>2, <1>3, <1>5, SessionMoves, DropLocksMeans DEF Answer

LEMMA RefuseKeeps ==
    ASSUME TxInv, NEW p \in Requests, Refuse(p)
    PROVE  TxInv'
<1>1. Answer(p) /\ UNCHANGED <<vars, task>>
  BY DEF Refuse
<1>2. Disciplined(p)'
  BY <1>1, AnswerMeans, DoneIsDisciplined
<1> QED
  BY <1>1, <1>2, AnswerMeans, LocalStep

-----------------------------------------------------------------------------
(* First reads, and the locks.                                             *)

LEMMA KeepsLocks ==
    ASSUME TxInv, UNCHANGED lock
    PROVE  lock' \in [OrderIds \cup Listings -> Requests \cup {Free}]
BY DEF TxInv, TxTypeOK

\* A status that is one of the enum's belongs to an order that exists.
LEMMA OrderExists ==
    ASSUME TxInv, NEW o \in OrderIds, order[o].status # "NONE"
    PROVE  /\ order[o] \in OrderRow
           /\ order[o].status \in OrderStatus
           /\ order[o].listing \in Listings
BY DEF TxInv, TxTypeOK, TypeOK, OrderRow, Absent

LEMMA LoadOrderStep ==
    ASSUME TxInv, NEW p \in Requests, LoadOrder(p)
    PROVE  TxInv'
<1> DEFINE o == task[p].order
           reading == task[p].op = "read"
           s == [session[p] EXCEPT !.pc = IF reading THEN "lockOrder" ELSE "commit",
                                   !.act = IF reading THEN "cancel" ELSE task[p].op,
                                   !.seen = order[o].status]
<1>1. /\ session[p] \in Session /\ Disciplined(p) /\ o \in OrderIds /\ task[p] \in Task
      /\ session[p].pc = "begin" /\ session[p].act \in {"read", "ship", "deliver"}
      /\ session[p].act = task[p].op /\ session[p].order = o
  BY SessionFacts DEF LoadOrder, At, Disciplined
<1>2. CASE Actionable(p, o)
  <2>1. /\ order[o].status \in OrderStatus
        /\ order[o].status # "NONE"
        /\ ~reading => order[o].status \in Sold
    BY <1>1, <1>2 DEF Actionable, Unpaid, Sold, OrderStatus
  <2>2. session' = [session EXCEPT ![p] = s] /\ UNCHANGED <<vars, task, lock>>
    BY <1>1, <1>2 DEF LoadOrder, TxInv, TxTypeOK
  <2>3. /\ s \in Session
        /\ s.pc = (IF reading THEN "lockOrder" ELSE "commit")
        /\ s.act = (IF reading THEN "cancel" ELSE task[p].op)
        /\ s.order = o
    BY <1>1, <2>1 DEF Session, Ops
  <2> HIDE DEF s
  <2>4. session'[p] = s
    BY <2>2, <2>3, SessionMoves
  <2>5. ~reading => Charged(o)
    BY <2>1, <1>1 DEF TxInv, SoldIsCharged
  <2>6. UNCHANGED <<order, payment, task>>
    BY <2>2 DEF vars
  <2>7. Disciplined(p)'
    BY <1>1, <2>1, <2>3, <2>4, <2>5, <2>6 DEF Disciplined, Charged
  <2>8. QED
    BY <2>2, <2>3, <2>7, KeepsLocks, LocalStep
<1>3. CASE ~Actionable(p, o)
  BY <1>3, RefuseKeeps DEF LoadOrder
<1>4. QED
  BY <1>2, <1>3

LEMMA LockOrderStep ==
    ASSUME TxInv, OrderTxAssumption, NEW p \in Requests, LockOrder(p)
    PROVE  TxInv'
<1> DEFINE o == task[p].order
<1>1. /\ session[p] \in Session /\ Disciplined(p) /\ o \in OrderIds
      /\ session[p].pc = "begin" /\ session[p].act = task[p].op /\ session[p].order = o
  BY SessionFacts DEF LockOrder, At, Disciplined
<1>2. CASE Refuse(p)
  BY <1>2, RefuseKeeps
<1>3. ASSUME NEW act \in Decisions(p, o), Acquire(p, o),
             session' = [session EXCEPT ![p] =
                 [@ EXCEPT !.pc = "readListing", !.act = act, !.seen = order[o].status]],
             UNCHANGED <<vars, task>>
      PROVE  TxInv'
  <2> DEFINE s == [session[p] EXCEPT !.pc = "readListing", !.act = act, !.seen = order[o].status]
  <2>1. /\ act \in {"pay", "decline", "cancel"} /\ act \in {task[p].op, "cancel"}
        /\ order[o].status \in Unpaid
    BY DEF Decisions, Cancellable
  <2>2. order[o].status \in OrderStatus /\ order[o].status # "NONE"
    BY <2>1 DEF Unpaid, OrderStatus
  <2>3. session' = [session EXCEPT ![p] = s]
    BY <1>1, <1>3 DEF TxInv, TxTypeOK
  <2>4. s \in Session /\ s.pc = "readListing" /\ s.act = act /\ s.order = o
    BY <1>1, <2>1, <2>2 DEF Session, Ops
  <2> HIDE DEF s
  <2>5. session'[p] = s
    BY <2>3, <2>4, SessionMoves
  <2>6. /\ lock' \in [OrderIds \cup Listings -> Requests \cup {Free}] /\ lock'[o] = p
        /\ \A x \in OrderIds \cup Listings : lock[x] \in Requests => lock'[x] = lock[x]
    BY <1>1, <1>3, AcquireMeans
  <2>7. UNCHANGED <<order, payment, task>>
    BY <1>3 DEF vars
  <2>8. Disciplined(p)'
    BY <2>1, <2>2, <2>4, <2>5, <2>6, <2>7 DEF Disciplined
  <2>9. QED
    BY <1>3, <2>3, <2>4, <2>6, <2>8, LocalStep
<1>4. QED
  BY <1>2, <1>3 DEF LockOrder

LEMMA RelockOrderStep ==
    ASSUME TxInv, OrderTxAssumption, NEW p \in Requests, RelockOrder(p)
    PROVE  TxInv'
<1> DEFINE to == IF task[p].op = "checkout" THEN "commit" ELSE "readListing"
           s == [session[p] EXCEPT !.pc = to]
<1>1. /\ session[p] \in Session /\ Disciplined(p) /\ session[p].order \in OrderIds
      /\ session[p].pc = "lockOrder" /\ session[p].act = "cancel"
      /\ order[session[p].order].status # "NONE"
  BY SessionFacts DEF RelockOrder, At, Disciplined
<1>2. s \in Session /\ s.pc = to /\ s.act = "cancel" /\ s.order = session[p].order
  BY <1>1 DEF Session
<1>3. session' = [session EXCEPT ![p] = s] /\ UNCHANGED <<vars, task>>
  BY DEF RelockOrder, Goto, TxInv, TxTypeOK
<1> HIDE DEF s
<1>4. session'[p] = s
  BY <1>2, <1>3, SessionMoves
<1>5. /\ lock' \in [OrderIds \cup Listings -> Requests \cup {Free}] /\ lock'[session[p].order] = p
      /\ \A x \in OrderIds \cup Listings : lock[x] \in Requests => lock'[x] = lock[x]
  BY <1>1, AcquireMeans DEF RelockOrder
<1>6. UNCHANGED <<order, payment, task>>
  BY <1>3 DEF vars
<1>7. Disciplined(p)'
  BY <1>1, <1>2, <1>4, <1>5, <1>6 DEF Disciplined
<1>8. QED
  BY <1>2, <1>3, <1>5, <1>7, LocalStep

\* Whatever the session is about, the listing it looks at exists.
LEMMA ShelfExists ==
    ASSUME TxInv, NEW p \in Requests,
           \/ task[p].op \in {"checkout", "archive", "remove", "restore"}
           \/ order[session[p].order].status # "NONE"
    PROVE  Shelf(p) \in Listings /\ listing[Shelf(p)] \in ListingStatus
<1>1. Shelf(p) \in Listings
  BY SessionFacts, OrderExists DEF Shelf
<1>2. QED
  BY <1>1 DEF TxInv, TxTypeOK, TypeOK, CatalogTypeOK

LEMMA ReadListingStep ==
    ASSUME TxInv, NEW p \in Requests, ReadListing(p)
    PROVE  TxInv'
<1> DEFINE s == [session[p] EXCEPT !.pc = "commit", !.shelf = listing[Shelf(p)]]
<1>1. /\ session[p] \in Session /\ Disciplined(p)
      /\ session[p].pc = "readListing" /\ session[p].act \in {"pay", "decline", "cancel"}
      /\ order[session[p].order].status # "NONE"
  BY SessionFacts DEF ReadListing, At, Disciplined
<1>2. CASE Refuse(p)
  BY <1>2, RefuseKeeps
<1>3. CASE session' = [session EXCEPT ![p] = s] /\ UNCHANGED <<vars, task, lock>>
  <2>1. s \in Session /\ s.pc = "commit" /\ s.act = session[p].act /\ s.order = session[p].order
    BY <1>1, ShelfExists DEF Session
  <2> HIDE DEF s
  <2>2. session'[p] = s
    BY <1>3, <2>1, SessionMoves
  <2>3. UNCHANGED <<order, payment, task, lock>>
    BY <1>3 DEF vars
  <2>4. Disciplined(p)'
    BY <1>1, <2>1, <2>2, <2>3 DEF Disciplined, Unpaid
  <2>5. QED
    BY <1>3, <2>1, <2>4, KeepsLocks, LocalStep
<1>4. QED
  BY <1>2, <1>3 DEF ReadListing, TxInv, TxTypeOK

LEMMA LoadListingStep ==
    ASSUME TxInv, NEW p \in Requests, LoadListing(p)
    PROVE  TxInv'
<1> DEFINE s == [session[p] EXCEPT !.pc = "commit", !.shelf = "ACTIVE"]
<1>1. /\ session[p] \in Session /\ Disciplined(p)
      /\ session[p].pc = "begin" /\ session[p].act = "archive"
  BY SessionFacts DEF LoadListing, At
<1>2. CASE Refuse(p)
  BY <1>2, RefuseKeeps
<1>3. CASE session' = [session EXCEPT ![p] = s] /\ UNCHANGED <<vars, task, lock>>
  <2>1. s \in Session /\ s.pc = "commit" /\ s.act = "archive"
    BY <1>1 DEF Session, ListingStatus
  <2> HIDE DEF s
  <2>2. session'[p] = s
    BY <1>3, <2>1, SessionMoves
  <2>3. Disciplined(p)'
    BY <1>1, <1>3, <2>1, <2>2 DEF Disciplined
  <2>4. QED
    BY <1>3, <2>1, <2>3, KeepsLocks, LocalStep
<1>4. QED
  BY <1>2, <1>3 DEF LoadListing, TxInv, TxTypeOK

LEMMA LockListingStep ==
    ASSUME TxInv, OrderTxAssumption, NEW p \in Requests, LockListing(p)
    PROVE  TxInv'
<1> DEFINE to == IF listing[Shelf(p)] = "ACTIVE" THEN "insert" ELSE "findAbandoned"
           s == [session[p] EXCEPT !.pc = to, !.shelf = listing[Shelf(p)]]
<1>1. /\ session[p] \in Session /\ Disciplined(p)
      /\ session[p].pc = "begin" /\ session[p].act = "checkout" /\ task[p].op = "checkout"
  BY SessionFacts DEF LockListing, At, Disciplined
<1>2. s \in Session /\ s.pc \in {"insert", "findAbandoned"} /\ s.act = "checkout"
  BY <1>1, ShelfExists DEF Session
<1>3. session' = [session EXCEPT ![p] = s] /\ UNCHANGED <<vars, task>>
  BY DEF LockListing, TxInv, TxTypeOK
<1> HIDE DEF s
<1>4. session'[p] = s
  BY <1>2, <1>3, SessionMoves
<1>5. /\ lock' \in [OrderIds \cup Listings -> Requests \cup {Free}]
      /\ \A x \in OrderIds \cup Listings : lock[x] \in Requests => lock'[x] = lock[x]
  BY <1>1, ShelfExists, AcquireMeans DEF LockListing
<1>6. Disciplined(p)'
  BY <1>1, <1>2, <1>3, <1>4 DEF Disciplined
<1>7. QED
  BY <1>2, <1>3, <1>5, <1>6, LocalStep

LEMMA FindAbandonedStep ==
    ASSUME TxInv, NEW p \in Requests, FindAbandoned(p)
    PROVE  TxInv'
<1>1. /\ session[p] \in Session /\ Disciplined(p)
      /\ session[p].pc = "findAbandoned" /\ session[p].act = "checkout"
  BY SessionFacts DEF FindAbandoned, At
<1>2. CASE Refuse(p)
  BY <1>2, RefuseKeeps
<1>3. ASSUME NEW o \in OrderIds, order[o].status = "PENDING_PAYMENT",
             session' = [session EXCEPT ![p] =
                 [@ EXCEPT !.pc = "lockOrder", !.act = "cancel", !.order = o,
                           !.seen = "PENDING_PAYMENT"]],
             UNCHANGED <<vars, task, lock>>
      PROVE  TxInv'
  <2> DEFINE s == [session[p] EXCEPT !.pc = "lockOrder", !.act = "cancel", !.order = o,
                                     !.seen = "PENDING_PAYMENT"]
  <2>1. s \in Session /\ s.pc = "lockOrder" /\ s.act = "cancel" /\ s.order = o
    BY <1>1 DEF Session, Ops, OrderStatus
  <2>2. session' = [session EXCEPT ![p] = s]
    BY <1>3 DEF TxInv, TxTypeOK
  <2> HIDE DEF s
  <2>3. session'[p] = s
    BY <2>1, <2>2, SessionMoves
  <2>4. UNCHANGED <<order, task>>
    BY <1>3 DEF vars
  <2>5. Disciplined(p)'
    BY <1>3, <2>1, <2>3, <2>4 DEF Disciplined
  <2>6. QED
    BY <1>3, <2>1, <2>2, <2>5, KeepsLocks, LocalStep
<1>4. QED
  BY <1>2, <1>3 DEF FindAbandoned, LiveOrders

LEMMA RefreshListingStep ==
    ASSUME TxInv, NEW p \in Requests, RefreshListing(p)
    PROVE  TxInv'
<1> DEFINE s == [session[p] EXCEPT !.pc = "insert", !.shelf = "ACTIVE"]
<1>1. /\ session[p] \in Session /\ Disciplined(p)
      /\ session[p].pc = "refresh" /\ session[p].act = "checkout"
  BY SessionFacts DEF RefreshListing, At
<1>2. CASE Refuse(p)
  BY <1>2, RefuseKeeps
<1>3. CASE session' = [session EXCEPT ![p] = s] /\ UNCHANGED <<vars, task, lock>>
  <2>1. s \in Session /\ s.pc = "insert" /\ s.act = "checkout"
    BY <1>1 DEF Session, ListingStatus
  <2> HIDE DEF s
  <2>2. session'[p] = s
    BY <1>3, <2>1, SessionMoves
  <2>3. Disciplined(p)'
    BY <1>1, <1>3, <2>1, <2>2 DEF Disciplined
  <2>4. QED
    BY <1>3, <2>1, <2>3, KeepsLocks, LocalStep
<1>4. QED
  BY <1>2, <1>3 DEF RefreshListing, TxInv, TxTypeOK

-----------------------------------------------------------------------------
(* Commits.                                                                *)

LEMMA TablesTyped ==
    ASSUME TypeOK, UNCHANGED <<result, auction, late>>,
           listing' \in [Listings -> ListingStatus],
           order' \in [OrderIds -> OrderRow \cup {Absent}],
           payment' \in [Keys -> PaymentRow \cup {Absent}],
           shipment' \in [OrderIds -> Seq({"SHIPPED", "DELIVERED"})],
           history' \in [OrderIds -> Trail]
    PROVE  TypeOK'
BY DEF TypeOK, CatalogTypeOK

\* What is left to show of a commit.
LEMMA CommitStep ==
    ASSUME TxInv, NEW p \in Requests, UNCHANGED task,
           session' \in [Requests -> Session],
           \A q \in Requests \ {p} : session'[q] = session[q],
           lock' \in [OrderIds \cup Listings -> Requests \cup {Free}],
           \A x \in OrderIds \cup Listings : lock[x] \in Requests \ {p} => lock'[x] = lock[x],
           TypeOK', OneLiveOrder', SoldIsCharged',
           \A o \in OrderIds : order[o].status # "NONE" => order'[o].status # "NONE",
           \A o \in OrderIds : Charged(o) => Charged(o)',
           \A o \in OrderIds : (lock[o] \in Requests \ {p} /\ order[o].status \in Unpaid)
                                  => order'[o].status \in Unpaid,
           Disciplined(p)'
    PROVE  TxInv'
<1>1. \A q \in Requests \ {p} : Disciplined(q)'
  BY OthersKept
<1>2. \A q \in Requests : Disciplined(q)'
  BY <1>1
<1>3. TxTypeOK'
  BY DEF TxInv, TxTypeOK
<1>4. QED
  BY <1>2, <1>3 DEF TxInv

LEMMA CommitCheckoutStep ==
    ASSUME TxInv, NEW p \in Requests, CommitCheckout(p)
    PROVE  TxInv'
<1> DEFINE o == task[p].order
           l == task[p].listing
           row == [status |-> "PENDING_PAYMENT", listing |-> l, buyer |-> task[p].buyer,
                   source |-> "FIXED_PRICE"]
<1>1. /\ task[p] \in Task /\ o \in OrderIds /\ l \in Listings /\ task[p].buyer \in Users
      /\ session[p].act = "checkout" /\ Disciplined(p) /\ TypeOK /\ Shelf(p) = l
  <2>1. session[p].act = "checkout" /\ Disciplined(p)
    BY SessionFacts DEF CommitCheckout, At
  <2>2. task[p].op = "checkout"
    BY <2>1 DEF Disciplined
  <2>3. QED
    BY <2>1, <2>2, SessionFacts DEF TxInv, TxTypeOK, Shelf
<1>2. CASE Refuse(p)
  BY <1>2, RefuseKeeps
<1>3. ASSUME Insertable(l, "FIXED_PRICE"), order' = [order EXCEPT ![o] = row],
             listing' = [listing EXCEPT ![l] = "RESERVED"],
             Record(o, {<<"NONE", "PENDING_PAYMENT">>}),
             UNCHANGED <<payment, result, auction, shipment, late, task>>, Answer(p)
      PROVE  TxInv'
  <2>1. row \in OrderRow /\ row.status = "PENDING_PAYMENT" /\ row.listing = l
    BY <1>1 DEF OrderRow, OrderStatus, Sources
  <2> HIDE DEF row
  <2>2. /\ order' \in [OrderIds -> OrderRow \cup {Absent}]
        /\ order'[o] = row /\ \A x \in OrderIds \ {o} : order'[x] = order[x]
    BY <1>1, <1>3, <2>1 DEF TypeOK
  <2>3. history' \in [OrderIds -> Trail]
    BY <1>1, <1>3, RecordType DEF TypeOK
  <2>4. listing' \in [Listings -> ListingStatus]
    BY <1>1, <1>3 DEF TypeOK, CatalogTypeOK, ListingStatus
  <2>5. TypeOK'
    BY <1>1, <1>3, <2>2, <2>3, <2>4, TablesTyped DEF TypeOK
  <2>6. OneLiveOrder'
    BY <1>3, <2>1, <2>2 DEF TxInv, OneLiveOrder, Live, Insertable, LiveOrders
  <2>7. \A x \in OrderIds : Charged(x)' <=> Charged(x)
    BY <1>3 DEF Charged
  <2>8. SoldIsCharged'
    BY <2>1, <2>2, <2>7 DEF TxInv, SoldIsCharged, Sold
  <2>9. \A x \in OrderIds : /\ order[x].status # "NONE" => order'[x].status # "NONE"
                            /\ order[x].status \in Unpaid => order'[x].status \in Unpaid
    BY <2>1, <2>2 DEF Unpaid
  <2>10. Disciplined(p)'
    BY <1>3, AnswerMeans, DoneIsDisciplined
  <2>11. QED
    BY <1>3, <2>5, <2>6, <2>7, <2>8, <2>9, <2>10, AnswerMeans, CommitStep
<1>4. QED
  BY <1>1, <1>2, <1>3 DEF CommitCheckout

\* The order of a session that writes a status exists, and keeps its other columns.
LEMMA CommitCancelStep ==
    ASSUME TxInv, OrderTxAssumption, NEW p \in Requests, CommitCancel(p)
    PROVE  TxInv'
<1> DEFINE o == session[p].order
           s == IF task[p].op = "checkout"
                THEN [session[p] EXCEPT !.pc = "refresh", !.act = "checkout"]
                ELSE [session[p] EXCEPT !.pc = "done"]
<1>1. /\ session[p] \in Session /\ o \in OrderIds /\ Disciplined(p) /\ TypeOK
      /\ session[p].pc = "commit" /\ session[p].act = "cancel"
      /\ order[o].status # "NONE" /\ lock[o] = p
      /\ SetStatus(o, "CANCELLED") /\ "CANCELLED" \in OrderStatus /\ UNCHANGED payment
  BY SessionFacts DEF CommitCancel, At, Disciplined, TxInv, TxTypeOK, OrderStatus
<1>2. /\ order' \in [OrderIds -> OrderRow \cup {Absent}]
      /\ order[o].listing \in Listings
      /\ order'[o].status = "CANCELLED" /\ order'[o].listing = order[o].listing
      /\ \A x \in OrderIds \ {o} : order'[x] = order[x]
  BY <1>1, StatusUpdate DEF OrderRow
<1>3. history' \in [OrderIds -> Trail]
  <2>1. history \in [OrderIds -> Trail] /\ Record(o, {<<session[p].seen, "CANCELLED">>})
    BY <1>1 DEF TypeOK, CommitCancel
  <2>2. QED
    BY <1>1, <2>1, RecordType
<1>4. listing' \in [Listings -> ListingStatus]
  BY <1>1, <1>2 DEF CommitCancel, TypeOK, CatalogTypeOK, ListingStatus
<1>5. TypeOK'
  BY <1>1, <1>2, <1>3, <1>4, TablesTyped DEF TypeOK, CommitCancel
<1>6. OneLiveOrder'
  BY <1>2 DEF TxInv, OneLiveOrder, Live, Unpaid, Sold
<1>7. \A x \in OrderIds : Charged(x)' <=> Charged(x)
  BY <1>1 DEF Charged
<1>8. SoldIsCharged'
  BY <1>2, <1>7 DEF TxInv, SoldIsCharged, Sold
<1>9. s \in Session /\ s.pc \in {"refresh", "done"} /\ s.act \in {task[p].op, "cancel"}
  BY <1>1 DEF Session, Ops
<1>10. session' = [session EXCEPT ![p] = s]
  BY DEF CommitCancel, TxInv, TxTypeOK
<1> HIDE DEF s
<1>11. /\ session' \in [Requests -> Session] /\ session'[p] = s
       /\ \A q \in Requests \ {p} : session'[q] = session[q]
  BY <1>9, <1>10, SessionMoves
<1>12. DropLocks(p) /\ UNCHANGED task
  BY DEF CommitCancel
<1>13. Disciplined(p)'
  BY <1>9, <1>11, <1>12 DEF Disciplined
<1>14. \A x \in OrderIds :
          /\ order[x].status # "NONE" => order'[x].status # "NONE"
          /\ (lock[x] \in Requests \ {p} /\ order[x].status \in Unpaid) => order'[x].status \in Unpaid
  BY <1>1, <1>2
<1>15. QED
  BY <1>5, <1>6, <1>7, <1>8, <1>11, <1>12, <1>13, <1>14, DropLocksMeans, CommitStep

LEMMA CommitPaymentStep ==
    ASSUME TxInv, OrderTxAssumption, NEW p \in Requests, CommitPayment(p)
    PROVE  TxInv'
<1> DEFINE o == session[p].order
           k == task[p].key
           ok == session[p].act = "pay"
           to == IF ok THEN "PAID" ELSE "PAYMENT_FAILED"
           outcome == IF ok THEN "SUCCEEDED" ELSE "FAILED"
<1>1. /\ session[p] \in Session /\ o \in OrderIds /\ k \in Keys /\ Disciplined(p) /\ TypeOK
      /\ session[p].pc = "commit" /\ session[p].act \in {"pay", "decline"}
      /\ order[o].status \in Unpaid /\ order[o].status # "NONE" /\ lock[o] = p
  BY SessionFacts DEF CommitPayment, At, Disciplined, TxInv, TxTypeOK, Unpaid
<1>2. CASE Refuse(p)
  BY <1>2, RefuseKeeps
<1>3. CASE /\ PaymentFits(k, o, ok)
           /\ Pay(k, o, outcome)
           /\ SetStatus(o, to)
           /\ listing' \in {listing, [listing EXCEPT ![order[o].listing] = IF ok THEN "SOLD" ELSE "ACTIVE"]}
           /\ Record(o, AttemptRows(p, to))
           /\ UNCHANGED <<result, auction, shipment, late, task>>
           /\ Answer(p)
  <2>1. to \in OrderStatus /\ outcome \in {"SUCCEEDED", "FAILED"}
    BY DEF OrderStatus
  <2>2. /\ order' \in [OrderIds -> OrderRow \cup {Absent}]
        /\ order[o].listing \in Listings
        /\ order'[o].status = to /\ order'[o].listing = order[o].listing
        /\ \A x \in OrderIds \ {o} : order'[x] = order[x]
    BY <1>1, <1>3, <2>1, StatusUpdate DEF OrderRow
  <2>3. history' \in [OrderIds -> Trail]
    BY <1>1, <1>3, RecordType DEF TypeOK
  <2>4. listing' \in [Listings -> ListingStatus]
    BY <1>1, <1>3, <2>2 DEF TypeOK, CatalogTypeOK, ListingStatus
  <2>5. /\ payment' \in [Keys -> PaymentRow \cup {Absent}]
        /\ payment'[k] = [order |-> o, status |-> outcome]
        /\ \A j \in Keys \ {k} : payment'[j] = payment[j]
        /\ payment[k] = Absent
    BY <1>1, <1>3, <2>1 DEF TypeOK, Pay, PaymentRow, PaymentFits
  <2>6. TypeOK'
    BY <1>1, <1>3, <2>2, <2>3, <2>4, <2>5, TablesTyped DEF TypeOK
  <2>7. OneLiveOrder'
    BY <1>1, <2>2 DEF TxInv, OneLiveOrder, Live, Unpaid, Sold
  <2>8. \A x \in OrderIds : Charged(x) => Charged(x)'
    <3>1. \A x \in OrderIds, j \in Keys :
             (payment[j].status = "SUCCEEDED" /\ payment[j].order = x) => j # k
      BY <2>5 DEF Absent
    <3>2. QED
      BY <2>5, <3>1 DEF Charged
  <2>9. ASSUME NEW x \in OrderIds, order'[x].status \in Sold
        PROVE  Charged(x)'
    <3>1. CASE x = o
      <4>1. payment'[k].status = "SUCCEEDED" /\ payment'[k].order = x
        BY <2>2, <2>5, <2>9, <3>1 DEF Sold
      <4>2. \E j \in Keys : payment'[j].status = "SUCCEEDED" /\ payment'[j].order = x
        BY <1>1, <4>1
      <4>3. QED
        BY <4>2 DEF Charged
    <3>2. CASE x # o
      BY <2>2, <2>8, <2>9, <3>2 DEF TxInv, SoldIsCharged
    <3>3. QED
      BY <3>1, <3>2
  <2>10. SoldIsCharged'
    BY <2>9 DEF SoldIsCharged
  <2>11. \A x \in OrderIds :
            /\ order[x].status # "NONE" => order'[x].status # "NONE"
            /\ (lock[x] \in Requests \ {p} /\ order[x].status \in Unpaid) => order'[x].status \in Unpaid
    BY <1>1, <2>2
  <2>12. Disciplined(p)'
    BY <1>3, AnswerMeans, DoneIsDisciplined
  <2>13. QED
    BY <1>3, <2>6, <2>7, <2>8, <2>10, <2>11, <2>12, AnswerMeans, CommitStep
<1>4. QED
  BY <1>2, <1>3, Zenon DEF CommitPayment

\* Whoever may take an order without waiting shares it with nobody who pays for it.
LEMMA NobodyPays ==
    ASSUME TxInv, OrderTxAssumption, NEW p \in Requests, NEW o \in OrderIds, Available(p, o)
    PROVE  lock[o] \notin Requests \ {p}
BY DEF Available, Free, OrderTxAssumption

LEMMA CommitFulfilmentStep ==
    ASSUME TxInv, OrderTxAssumption, NEW p \in Requests, CommitFulfilment(p)
    PROVE  TxInv'
<1> DEFINE o == session[p].order
           shipping == session[p].act = "ship"
           to == IF shipping THEN "SHIPPED" ELSE "DELIVERED"
<1>1. /\ session[p] \in Session /\ o \in OrderIds /\ Disciplined(p) /\ TypeOK
      /\ session[p].pc = "commit" /\ session[p].act \in {"ship", "deliver"}
      /\ order[o].status # "NONE" /\ Charged(o)
  BY SessionFacts DEF CommitFulfilment, At, Disciplined, TxInv, TxTypeOK
<1>2. CASE Refuse(p)
  BY <1>2, RefuseKeeps
<1>3. CASE /\ Revivable(o) /\ Available(p, o)
           /\ SetStatus(o, to)
           /\ shipment' = [shipment EXCEPT ![o] =
                             IF shipping THEN Append(@, "SHIPPED") ELSE LatestDelivered(@)]
           /\ Record(o, {<<session[p].seen, to>>})
           /\ UNCHANGED <<listing, payment, result, auction, late, task>>
           /\ Answer(p)
  <2>1. to \in OrderStatus /\ to \in Sold /\ session[p].seen \in OrderStatus \cup {"NONE"}
    BY <1>1 DEF OrderStatus, Sold, Session
  <2>2. /\ order' \in [OrderIds -> OrderRow \cup {Absent}]
        /\ order[o].listing \in Listings
        /\ order'[o].status = to /\ order'[o].listing = order[o].listing
        /\ \A x \in OrderIds \ {o} : order'[x] = order[x]
    BY <1>1, <1>3, <2>1, StatusUpdate DEF OrderRow
  <2>3. history' \in [OrderIds -> Trail]
    BY <1>1, <1>3, RecordType DEF TypeOK
  <2>4. shipment' \in [OrderIds -> Seq({"SHIPPED", "DELIVERED"})]
    <3>1. shipment \in [OrderIds -> Seq({"SHIPPED", "DELIVERED"})]
      BY <1>1 DEF TypeOK
    <3>2. LatestDelivered(shipment[o]) \in Seq({"SHIPPED", "DELIVERED"})
      BY <1>1, <3>1, LatestDeliveredType
    <3>3. Append(shipment[o], "SHIPPED") \in Seq({"SHIPPED", "DELIVERED"})
      BY <1>1, <3>1
    <3>4. QED
      BY <1>1, <1>3, <3>1, <3>2, <3>3
  <2>5. TypeOK'
    BY <1>1, <1>3, <2>2, <2>3, <2>4, TablesTyped DEF TypeOK, CatalogTypeOK
  <2>6. OneLiveOrder'
    BY <1>3, <2>2 DEF TxInv, OneLiveOrder, Revivable, LiveOrders, Live
  <2>7. \A x \in OrderIds : Charged(x)' <=> Charged(x)
    BY <1>3 DEF Charged
  <2>8. SoldIsCharged'
    BY <1>1, <2>2, <2>7 DEF TxInv, SoldIsCharged
  <2>9. \A x \in OrderIds :
            /\ order[x].status # "NONE" => order'[x].status # "NONE"
            /\ (lock[x] \in Requests \ {p} /\ order[x].status \in Unpaid) => order'[x].status \in Unpaid
    BY <1>1, <1>3, <2>1, <2>2, NobodyPays
  <2>10. Disciplined(p)'
    BY <1>3, AnswerMeans, DoneIsDisciplined
  <2>11. QED
    BY <1>3, <2>5, <2>6, <2>7, <2>8, <2>9, <2>10, AnswerMeans, CommitStep
<1>4. QED
  BY <1>2, <1>3, Zenon DEF CommitFulfilment

\* Archiving and moderation touch a listing only.
LEMMA ShelfStep ==
    ASSUME TxInv, NEW p \in Requests, Answer(p), listing' \in [Listings -> ListingStatus],
           UNCHANGED <<order, payment, result, auction, shipment, history, late, task>>
    PROVE  TxInv'
<1>1. TypeOK'
  BY TablesTyped DEF TxInv, TxTypeOK, TypeOK
<1>2. /\ OneLiveOrder' /\ SoldIsCharged'
      /\ \A x \in OrderIds : Charged(x)' <=> Charged(x)
  BY DEF TxInv, OneLiveOrder, SoldIsCharged, Live, Charged
<1>3. Disciplined(p)'
  BY AnswerMeans, DoneIsDisciplined
<1>4. QED
  BY <1>1, <1>2, <1>3, AnswerMeans, CommitStep

LEMMA CommitArchiveStep ==
    ASSUME TxInv, NEW p \in Requests, CommitArchive(p)
    PROVE  TxInv'
<1>1. listing' \in [Listings -> ListingStatus]
  BY DEF CommitArchive, TxInv, TxTypeOK, TypeOK, CatalogTypeOK, ListingStatus
<1>2. QED
  BY <1>1, ShelfStep DEF CommitArchive

LEMMA ModerateStep ==
    ASSUME TxInv, NEW p \in Requests, Moderate(p)
    PROVE  TxInv'
<1>1. CASE Refuse(p)
  BY <1>1, RefuseKeeps
<1>2. ASSUME RemoveListing(Shelf(p)) \/ RestoreListing(Shelf(p)), Answer(p),
             UNCHANGED <<order, payment, result, auction, shipment, history, late, task>>
      PROVE  TxInv'
  <2>1. listing \in [Listings -> ListingStatus]
    BY DEF TxInv, TxTypeOK, TypeOK, CatalogTypeOK
  <2>2. listing' \in [Listings -> ListingStatus]
    BY <1>2, <2>1 DEF RemoveListing, RestoreListing, Move, ListingStatus
  <2>3. QED
    BY <1>2, <2>2, ShelfStep
<1>3. QED
  BY <1>1, <1>2, Zenon DEF Moderate

-----------------------------------------------------------------------------
(* All steps of all requests.                                              *)

LEMMA StepKeeps ==
    ASSUME TxInv, OrderTxAssumption, NEW p \in Requests, Step(p)
    PROVE  TxInv'
BY LoadOrderStep, LockOrderStep, RelockOrderStep, ReadListingStep, LoadListingStep,
   LockListingStep, FindAbandonedStep, RefreshListingStep, CommitCheckoutStep,
   CommitCancelStep, CommitPaymentStep, CommitFulfilmentStep, CommitArchiveStep,
   ModerateStep, Zenon DEF Step

\* The clock and a stuttering step move no request.
LEMMA IdleStep ==
    ASSUME TxInv, UNCHANGED <<listing, order, payment, result, auction, shipment, history,
                              task, session, lock>>,
           late' \in SUBSET (OrderIds \cup Results)
    PROVE  TxInv'
<1>1. \A q \in Requests : Disciplined(q)'
  BY DEF TxInv, Disciplined, Charged
<1>2. TxTypeOK'
  BY DEF TxInv, TxTypeOK, TypeOK, CatalogTypeOK
<1>3. OneLiveOrder' /\ SoldIsCharged'
  BY DEF TxInv, OneLiveOrder, SoldIsCharged, Live, Charged
<1>4. QED
  BY <1>1, <1>2, <1>3 DEF TxInv

LEMMA TxNextKeeps ==
    ASSUME TxInv, OrderTxAssumption, [TxNext]_txVars
    PROVE  TxInv'
<1>1. CASE \E p \in Requests : Step(p)
  BY <1>1, StepKeeps
<1>2. CASE \E p \in Requests : Refuse(p)
  BY <1>2, RefuseKeeps
<1>3. ASSUME NEW o \in Expiring, Elapse(o)
      PROVE  TxInv'
  <2>1. late' = late \cup {o} /\ o \in OrderIds
    BY <1>3 DEF Elapse, DeadlinePasses, OrderTxAssumption
  <2>2. late' \in SUBSET (OrderIds \cup Results)
    BY <2>1 DEF TxInv, TxTypeOK, TypeOK
  <2>3. QED
    BY <1>3, <2>2, IdleStep DEF Elapse, DeadlinePasses
<1>4. CASE UNCHANGED txVars
  BY <1>4, IdleStep DEF txVars, vars, TxInv, TxTypeOK, TypeOK
<1>5. QED
  BY <1>1, <1>2, <1>3, <1>4, Zenon DEF TxNext, Abort, BreakDeadlock

LEMMA TxInitKeeps ==
    ASSUME OrderTxAssumption, OrdersAssumption, TxInit
    PROVE  TxInv
<1>1. order[FirstOrder] \in OrderRow /\ order \in [OrderIds -> OrderRow \cup {Absent}]
  BY DEF TxInit, OrderTxAssumption, OrderRow, OrderStatus, Sources
<1>2. history \in [OrderIds -> Trail]
  <2>1. NoRows \in Trail /\ WithRows(NoRows, {<<"NONE", "PENDING_PAYMENT">>}) \in Trail
    BY DEF NoRows, WithRows, Trail
  <2>2. QED
    BY <2>1 DEF TxInit
<1>3. shipment \in [OrderIds -> Seq({"SHIPPED", "DELIVERED"})]
  BY EmptySeq, Zenon DEF TxInit
<1>4. TypeOK
  BY <1>1, <1>2, <1>3 DEF TxInit, TypeOK, CatalogTypeOK, ListingStatus, PaymentRow
<1>5. task \in [Requests -> Task]
  BY DEF TxInit, OrderTxAssumption
<1>6. \A p \in Requests : session[p] \in Session
  BY <1>5 DEF TxInit, Session, Task
<1>7. TxTypeOK
  BY <1>4, <1>5, <1>6 DEF TxInit, TxTypeOK
<1>8. OneLiveOrder /\ SoldIsCharged
  BY DEF TxInit, OneLiveOrder, Live, Unpaid, Sold, Absent, SoldIsCharged
<1>9. \A p \in Requests : Disciplined(p)
  BY DEF TxInit, Disciplined
<1>10. QED
  BY <1>7, <1>8, <1>9 DEF TxInv

LEMMA TxAlways == TxSpec => []TxInv
<1>1. TxInit => TxInv
  BY TxInitKeeps, OrderTxAssumption, OrdersAssumption
<1>2. TxInv /\ [TxNext]_txVars => TxInv'
  BY TxNextKeeps, OrderTxAssumption
<1>3. QED
  BY <1>1, <1>2, PTL DEF TxSpec

-----------------------------------------------------------------------------
(* What follows of requests of every kind.                                 *)

\* The rows and the copies that the sessions hold of them keep their types, however many
\* requests of checkout.py, orders.py, catalog.py and admin.py overlap.
THEOREM TxTypeCorrect == TxSpec => []TxTypeOK
<1>1. TxInv => TxTypeOK
  BY DEF TxInv
<1>2. QED
  BY <1>1, TxAlways, PTL

\* However many requests overlap, a listing has one live order at a time: the partial
\* unique index uq_orders_listing_id covers even the writers that take no row lock.
THEOREM OneLiveCorrect == TxSpec => []OneLiveOrder
<1>1. TxInv => OneLiveOrder
  BY DEF TxInv
<1>2. QED
  BY <1>1, TxAlways, PTL

\* However stale the copy on which ship_order and deliver_order decide, and whoever
\* cancels the order meanwhile, what they mark as shipped has been charged.
THEOREM ShippedCorrect == TxSpec => []ShippedIsCharged
<1>1. TxInv => ShippedIsCharged
  BY DEF TxInv, SoldIsCharged, ShippedIsCharged, Sold
<1>2. QED
  BY <1>1, TxAlways, PTL

\* A step that adds a payment is the commit of pay_order.
LEMMA PaymentsAreCommitted ==
    ASSUME [TxNext]_txVars, payment' # payment
    PROVE  \E p \in Requests : CommitPayment(p)
<1>1. ASSUME NEW p \in Requests, Step(p), ~CommitPayment(p)
      PROVE  payment' = payment
  BY <1>1 DEF Step, LoadOrder, LockOrder, RelockOrder, ReadListing, LoadListing,
     LockListing, FindAbandoned, RefreshListing, CommitCheckout, CommitCancel,
     CommitFulfilment, CommitArchive, Moderate, Refuse, vars
<1>2. QED
  BY <1>1 DEF TxNext, Abort, BreakDeadlock, Refuse, Elapse, DeadlinePasses, txVars, vars

LEMMA ChargeStep ==
    ASSUME TxInv, [TxNext]_txVars, NEW j \in Keys,
           payment[j] = Absent, payment'[j].status = "SUCCEEDED"
    PROVE  order[payment'[j].order].status \in Unpaid /\ order'[payment'[j].order].status = "PAID"
<1>1. PICK p \in Requests : CommitPayment(p)
  BY PaymentsAreCommitted DEF Absent
<1> DEFINE o == session[p].order
           ok == session[p].act = "pay"
<1>2. /\ session[p] \in Session /\ o \in OrderIds /\ TypeOK
      /\ session[p].pc = "commit" /\ session[p].act \in {"pay", "decline"}
      /\ order[o].status \in Unpaid /\ order[o].status # "NONE"
  BY <1>1, SessionFacts DEF CommitPayment, At, Disciplined, TxInv, TxTypeOK, Unpaid
<1>3. /\ payment' = [payment EXCEPT ![task[p].key] =
                        [order |-> o, status |-> IF ok THEN "SUCCEEDED" ELSE "FAILED"]]
      /\ SetStatus(o, IF ok THEN "PAID" ELSE "PAYMENT_FAILED")
  BY <1>1, <1>2 DEF CommitPayment, Refuse, vars, Pay, Absent
<1>4. j = task[p].key /\ ok /\ payment'[j].order = o
  BY <1>2, <1>3 DEF TypeOK, Absent
<1>5. order'[o].status = "PAID"
  BY <1>2, <1>3, <1>4, StatusUpdate DEF OrderStatus
<1>6. QED
  BY <1>2, <1>4, <1>5

\* Whatever unlocked writers did since pay_order looked, the order it charges is unpaid
\* at that moment and PAID after it: its row lock covers the decision.
THEOREM ChargeCorrect == TxSpec => ChargedWhileUnpaid
<1>1. TxInv /\ [TxNext]_txVars =>
        [\A k \in Keys :
            payment[k] = Absent /\ payment'[k].status = "SUCCEEDED"
            => LET o == payment'[k].order
               IN  order[o].status \in Unpaid /\ order'[o].status = "PAID"]_txVars
  BY ChargeStep
<1>2. QED
  BY <1>1, TxAlways, PTL DEF TxSpec, ChargedWhileUnpaid

-----------------------------------------------------------------------------
(* The deadline.                                                           *)

\* Request p has decided, under the row lock, to charge order o.
Paying(p, o) ==
    session[p].pc \in {"readListing", "commit"} /\ session[p].act = "pay" /\ session[p].order = o

\* What lasts of Lapsed when others take the row: no charge, and none decided.
Forgone(o) == o \in late /\ ~Charged(o) /\ \A p \in Requests : ~Paying(p, o)

LEMMA LapsedIsForgone ==
    ASSUME TxInv, OrderTxAssumption, NEW o \in OrderIds, Lapsed(o)
    PROVE  Forgone(o)
BY SessionFacts DEF Lapsed, Forgone, Paying, Disciplined, OrderTxAssumption, Free

\* The expiry gate: past the deadline no request comes to a decision to charge.
LEMMA NoNewPayer ==
    ASSUME TxInv, OrderTxAssumption, NEW o \in OrderIds, o \in late,
           NEW p \in Requests, Step(p) \/ Refuse(p), NEW q \in Requests, Paying(q, o)'
    PROVE  Paying(q, o)
<1>1. session[p] \in Session /\ session \in [Requests -> Session] /\ Disciplined(p)
  BY SessionFacts DEF TxInv, TxTypeOK
<1>2. ASSUME NEW s \in Session, session' = [session EXCEPT ![p] = s],
             (s.pc \in {"readListing", "commit"} /\ s.act = "pay" /\ s.order = o) => Paying(p, o)
      PROVE  Paying(q, o)
  BY <1>1, <1>2 DEF Paying
<1>3. CASE Answer(p)
  BY <1>2, <1>3, AnswerMeans
<1>4. CASE LockOrder(p) /\ ~Answer(p)
  <2>1. PICK act \in Decisions(p, task[p].order) :
           session' = [session EXCEPT ![p] =
               [@ EXCEPT !.pc = "readListing", !.act = act, !.seen = order[task[p].order].status]]
    BY <1>4 DEF LockOrder, Refuse
  <2> DEFINE s == [session[p] EXCEPT !.pc = "readListing", !.act = act,
                                     !.seen = order[task[p].order].status]
  <2>2. act \in {"pay", "decline", "cancel"} /\ order[task[p].order].status \in Unpaid
    BY DEF Decisions, Cancellable
  <2>3. session[p].order = task[p].order
    BY <1>1, <1>4 DEF LockOrder, At, Disciplined
  <2>4. s \in Session /\ s.order = task[p].order /\ s.act = act
    BY <1>1, <2>2, <2>3 DEF Session, Ops, Unpaid, OrderStatus
  <2>5. session' = [session EXCEPT ![p] = s]
    BY <1>1, <2>1
  <2> HIDE DEF s
  <2>6. s.order = o => s.act = "cancel"
    BY <2>4 DEF Decisions
  <2>7. QED
    BY <1>2, <2>4, <2>5, <2>6
<1>5. CASE LoadOrder(p) /\ ~Answer(p)
  <2> DEFINE reading == task[p].op = "read"
             s == [session[p] EXCEPT !.pc = IF reading THEN "lockOrder" ELSE "commit",
                                     !.act = IF reading THEN "cancel" ELSE task[p].op,
                                     !.seen = order[task[p].order].status]
  <2>1. session' = [session EXCEPT ![p] = s] /\ Actionable(p, task[p].order)
    BY <1>1, <1>5 DEF LoadOrder, Refuse
  <2>2. task[p].op \in {"read", "ship", "deliver"}
    BY <1>1, <1>5 DEF LoadOrder, At, Disciplined
  <2>3. order[task[p].order].status \in OrderStatus
    BY <2>1 DEF Actionable, Unpaid, OrderStatus
  <2>4. s \in Session /\ s.act # "pay"
    BY <1>1, <2>2, <2>3 DEF Session, Ops
  <2> HIDE DEF s
  <2>5. QED
    BY <1>2, <2>1, <2>4
<1>6. CASE (ReadListing(p) \/ LoadListing(p)) /\ ~Answer(p)
  <2>1. PICK shelf \in ListingStatus :
           session' = [session EXCEPT ![p] = [@ EXCEPT !.pc = "commit", !.shelf = shelf]]
    <3>1. Shelf(p) \in Listings
      BY <1>6, SessionFacts, OrderExists DEF Shelf, Disciplined, ReadListing, LoadListing, At
    <3>2. QED
      BY <1>6, <3>1 DEF ReadListing, LoadListing, Refuse, TxInv, TxTypeOK, TypeOK, CatalogTypeOK,
         ListingStatus
  <2> DEFINE s == [session[p] EXCEPT !.pc = "commit", !.shelf = shelf]
  <2>2. session[p].pc = "readListing" \/ session[p].act = "archive"
    BY <1>6 DEF ReadListing, LoadListing, At
  <2>3. s \in Session /\ s.act = session[p].act /\ s.order = session[p].order
    BY <1>1 DEF Session
  <2>4. session' = [session EXCEPT ![p] = s]
    BY <1>1, <2>1
  <2> HIDE DEF s
  <2>5. QED
    BY <1>2, <2>2, <2>3, <2>4 DEF Paying
<1>7. CASE /\ RelockOrder(p) \/ LockListing(p) \/ FindAbandoned(p) \/ RefreshListing(p) \/ CommitCancel(p)
           /\ ~Answer(p)
  <2>1. session'[p].act \in {"cancel", "checkout"}
    <3> session[p] \in [pc : {"begin", "lockOrder", "readListing", "commit", "findAbandoned",
                               "refresh", "insert", "done"},
                         act : Ops, order : OrderIds,
                         seen : OrderStatus \cup {"NONE"}, shelf : ListingStatus \cup {"NONE"}]
      BY <1>1 DEF Session
    <3>1. CASE RelockOrder(p)
      BY <1>1, <3>1 DEF RelockOrder, At, Goto
    <3>2. CASE LockListing(p)
      BY <1>1, <3>2 DEF LockListing, At
    <3>3. CASE FindAbandoned(p) /\ ~Answer(p)
      <4>1. ~Refuse(p)
        BY <3>3 DEF Refuse
      <4>2. \E x \in OrderIds : session' = [session EXCEPT ![p] =
                [@ EXCEPT !.pc = "lockOrder", !.act = "cancel", !.order = x, !.seen = "PENDING_PAYMENT"]]
        BY <3>3, <4>1, Zenon DEF FindAbandoned, LiveOrders
      <4>3. QED
        BY <1>1, <4>2
    <3>4. CASE RefreshListing(p) /\ ~Answer(p)
      <4>1. ~Refuse(p)
        BY <3>4 DEF Refuse
      <4>2. session' = [session EXCEPT ![p] = [@ EXCEPT !.pc = "insert", !.shelf = "ACTIVE"]]
        BY <3>4, <4>1, Zenon DEF RefreshListing
      <4>3. session[p].act = "checkout"
        BY <3>4 DEF RefreshListing, At
      <4>4. QED
        BY <1>1, <4>2, <4>3
    <3>5. CASE CommitCancel(p)
      BY <1>1, <3>5 DEF CommitCancel, At
    <3>6. QED
      BY <1>7, <3>1, <3>2, <3>3, <3>4, <3>5
  <2>2. \A r \in Requests \ {p} : session'[r] = session[r]
    BY <1>1, <1>7 DEF RelockOrder, LockListing, FindAbandoned, RefreshListing, CommitCancel, Goto,
       Refuse
  <2>3. QED
    BY <2>1, <2>2 DEF Paying
<1>8. QED
  BY <1>3, <1>4, <1>5, <1>6, <1>7 DEF Step, Refuse, CommitCheckout, CommitPayment, CommitFulfilment,
     CommitArchive, Moderate

\* Only a request that decided to charge an order does so.
LEMMA ChargesByPayer ==
    ASSUME TxInv, [TxNext]_txVars, NEW o \in OrderIds, ~Charged(o), Charged(o)'
    PROVE  \E p \in Requests : Paying(p, o)
<1>1. PICK k \in Keys : payment'[k].status = "SUCCEEDED" /\ payment'[k].order = o
  BY DEF Charged
<1>2. payment'[k] # payment[k]
  BY <1>1 DEF Charged
<1>3. PICK p \in Requests : CommitPayment(p)
  BY <1>2, PaymentsAreCommitted
<1>4. /\ payment' = [payment EXCEPT ![task[p].key] =
                        [order |-> session[p].order,
                         status |-> IF session[p].act = "pay" THEN "SUCCEEDED" ELSE "FAILED"]]
      /\ session[p].pc = "commit"
  BY <1>2, <1>3 DEF CommitPayment, Refuse, vars, Pay, At
<1>5. session[p].act = "pay" /\ session[p].order = o
  BY <1>1, <1>2, <1>4 DEF TxInv, TxTypeOK, TypeOK
<1>6. QED
  BY <1>4, <1>5 DEF Paying

LEMMA ForgoneStays ==
    ASSUME TxInv, OrderTxAssumption, [TxNext]_txVars, NEW o \in OrderIds, Forgone(o)
    PROVE  Forgone(o)'
<1>1. ~Charged(o)'
  BY ChargesByPayer DEF Forgone
<1>2. late \subseteq late'
  <2>1. ASSUME NEW p \in Requests, Step(p)
        PROVE  UNCHANGED late
    BY <2>1 DEF Step, LoadOrder, LockOrder, RelockOrder, ReadListing, LoadListing, LockListing,
       FindAbandoned, RefreshListing, CommitCheckout, CommitCancel, CommitPayment, CommitFulfilment,
       CommitArchive, Moderate, Refuse, vars
  <2>2. QED
    BY <2>1 DEF TxNext, Abort, BreakDeadlock, Refuse, Elapse, DeadlinePasses, txVars, vars
<1>3. ASSUME NEW q \in Requests, Paying(q, o)'
      PROVE  Paying(q, o)
  <2>1. CASE UNCHANGED session
    BY <1>3, <2>1 DEF Paying
  <2>2. CASE \E p \in Requests : Step(p) \/ Refuse(p)
    BY <1>3, <2>2, NoNewPayer DEF Forgone
  <2>3. QED
    BY <2>1, <2>2 DEF TxNext, Abort, BreakDeadlock, Elapse, txVars
<1>4. QED
  BY <1>1, <1>2, <1>3 DEF Forgone

\* An order whose window closes while nobody holds its row is never charged again, by however
\* many requests that wait for it or come later: pay_order looks at the clock under the lock.
THEOREM LapsedCorrect == TxSpec => LapsedIsFinal
<1>1. ASSUME NEW o \in Expiring
      PROVE  TxSpec => [](Lapsed(o) => []~Charged(o))
  <2>1. o \in OrderIds
    BY OrderTxAssumption DEF OrderTxAssumption
  <2>2. TxInv /\ Lapsed(o) => Forgone(o)
    BY <2>1, LapsedIsForgone, OrderTxAssumption
  <2>3. TxInv /\ Forgone(o) /\ [TxNext]_txVars => Forgone(o)'
    BY <2>1, ForgoneStays, OrderTxAssumption
  <2>4. Forgone(o) => ~Charged(o)
    BY DEF Forgone
  <2>5. QED
    BY <2>2, <2>3, <2>4, TxAlways, PTL DEF TxSpec
<1>2. QED
  BY <1>1 DEF LapsedIsFinal

-----------------------------------------------------------------------------
(* Who waits for whom.                                                     *)

\* The rows that a request has to have locked, or free to be written, to take its next step.
Wanted(p) ==
    LET s == session[p]
        cancels == s.act = "cancel" /\ s.shelf = "RESERVED"
        pays == \/ s.act = "pay" /\ s.shelf # "SOLD"
                \/ s.act \in {"pay", "decline"} /\ (s.seen = "PAYMENT_FAILED" \/ s.shelf = "RESERVED")
    IN  IF \/ At(p, "begin", {"pay", "decline", "cancel"})
           \/ s.pc = "lockOrder"
           \/ At(p, "commit", {"ship", "deliver"})
        THEN {s.order}
        ELSE IF \/ At(p, "begin", {"checkout", "remove", "restore"})
                \/ s.pc = "insert"
                \/ At(p, "commit", {"archive"})
        THEN {Shelf(p)}
        ELSE IF s.pc = "commit" /\ (cancels \/ pays)
        THEN {order[s.order].listing}
        ELSE {}

WaitsFor(p, q) == p # q /\ \E x \in Wanted(p) : lock[x] = q

Blocked(p) == \E q \in Requests : WaitsFor(p, q)

\* A line of waiting requests ends, after three of them at the latest, with one that can go on, or
\* with two that wait for each other: a payment or cancellation and a checkout that releases its order.
Untangled ==
    \A p, q, r, s \in Requests :
        WaitsFor(p, q) /\ WaitsFor(q, r) /\ WaitsFor(r, s)
            => Deadlocked(r, q) \/ Deadlocked(s, r) \/ ~Blocked(s)

\* What a request that holds a row is about to do: whoever holds an order goes on to its listing;
\* whoever holds a listing is a checkout, and the order it goes on to lies on that listing.
Lined(p) ==
    LET s == session[p]
        t == task[p]
    IN  /\ t \in Tasks[p]
        /\ (t.op = "checkout" /\ s.pc # "done") => order[t.order] = Absent
        /\ \A o \in OrderIds : lock[o] = p =>
              /\ s.order = o
              /\ s.pc \in {"readListing", "commit"} /\ s.act \in {"pay", "decline", "cancel"}
        /\ \A l \in Listings : lock[l] = p =>
              /\ t.op = "checkout" /\ t.listing = l
              /\ s.pc \in {"insert", "findAbandoned", "lockOrder", "commit"}
        /\ (t.op = "checkout" /\ s.pc \in {"lockOrder", "commit"}) =>
              s.act = "cancel" /\ lock[t.listing] = p /\ order[s.order].listing = t.listing
        /\ t.op = "checkout" => s.pc # "readListing"
        /\ s.pc = "findAbandoned" => t.op = "checkout" /\ lock[t.listing] = p
        /\ s.pc \in {"insert", "refresh"} => t.op = "checkout"

WaitInv == \A p \in Requests : Lined(p)

\* Nobody steps over a lock.
LEMMA StepRespectsLocks ==
    ASSUME TxInv, NEW p \in Requests, Step(p)
    PROVE  \A x \in Wanted(p) : Available(p, x)
<1>1. Disciplined(p)
  BY SessionFacts
<1>2. CASE session[p].pc = "begin"
  BY <1>1, <1>2 DEF Step, LoadOrder, LockOrder, RelockOrder, ReadListing, LoadListing, LockListing,
     FindAbandoned, RefreshListing, CommitCheckout, CommitCancel, CommitPayment, CommitFulfilment,
     CommitArchive, Moderate, At, Wanted, Acquire, Disciplined
<1>3. CASE session[p].pc \in {"lockOrder", "insert", "commit"}
  <2>1. \/ RelockOrder(p) \/ CommitCheckout(p) \/ CommitCancel(p) \/ CommitPayment(p)
        \/ CommitFulfilment(p) \/ CommitArchive(p)
    BY <1>3 DEF Step, LoadOrder, LockOrder, ReadListing, LoadListing, LockListing,
       FindAbandoned, RefreshListing, Moderate, At
  <2>2. CASE RelockOrder(p)
    BY <2>2 DEF RelockOrder, At, Wanted, Acquire
  <2>3. CASE CommitCheckout(p)
    BY <2>3 DEF CommitCheckout, At, Wanted
  <2>4. CASE CommitCancel(p)
    BY <2>4 DEF CommitCancel, At, Wanted
  <2>5. CASE CommitPayment(p)
    BY <2>5 DEF CommitPayment, At, Wanted
  <2>6. CASE CommitFulfilment(p)
    BY <2>6 DEF CommitFulfilment, At, Wanted
  <2>7. CASE CommitArchive(p)
    BY <2>7 DEF CommitArchive, At, Wanted
  <2> QED BY <2>1, <2>2, <2>3, <2>4, <2>5, <2>6, <2>7
<1>4. CASE session[p].pc \notin {"begin", "lockOrder", "insert", "commit"}
  BY <1>4 DEF Wanted, At
<1> QED
  BY <1>2, <1>3, <1>4

LEMMA WaitFacts ==
    ASSUME TxInv, WaitInv, NEW p \in Requests
    PROVE  /\ Lined(p) /\ Disciplined(p)
           /\ session[p] \in Session /\ session[p].order \in OrderIds
           /\ task[p].order \in OrderIds /\ task[p].listing \in Listings /\ task[p].op \in Ops
BY SessionFacts DEF WaitInv, Task

\* The wait of somebody who holds a row.
LEMMA HolderOfOrder ==
    ASSUME TxInv, WaitInv, NEW p \in Requests, NEW o \in OrderIds, lock[o] = p, Blocked(p)
    PROVE  /\ session[p].pc = "commit" /\ session[p].act \in {"pay", "decline", "cancel"}
           /\ session[p].order = o
           /\ Wanted(p) = {order[o].listing}
<1>1. /\ session[p].order = o
      /\ session[p].pc \in {"readListing", "commit"} /\ session[p].act \in {"pay", "decline", "cancel"}
  BY WaitFacts DEF Lined
<1>2. Wanted(p) # {}
  BY DEF Blocked, WaitsFor
<1> QED
  BY <1>1, <1>2 DEF Wanted, At

LEMMA HolderOfListing ==
    ASSUME TxInv, WaitInv, NEW p \in Requests, NEW l \in Listings, lock[l] = p, Blocked(p)
    PROVE  /\ session[p].pc = "lockOrder" /\ task[p].op = "checkout" /\ task[p].listing = l
           /\ Wanted(p) = {session[p].order}
           /\ order[session[p].order].listing = l
<1>1. /\ task[p].op = "checkout" /\ task[p].listing = l /\ Shelf(p) = l
      /\ session[p].pc \in {"insert", "findAbandoned", "lockOrder", "commit"}
      /\ session[p].pc \in {"lockOrder", "commit"} =>
            session[p].act = "cancel" /\ order[session[p].order].listing = l
  BY WaitFacts DEF Lined, Shelf
<1>2. PICK x \in Wanted(p) : lock[x] # p
  BY DEF Blocked, WaitsFor
<1>3. CASE session[p].pc = "insert"
  BY <1>1, <1>2, <1>3 DEF Wanted, At
<1>4. CASE session[p].pc = "findAbandoned"
  BY <1>1, <1>2, <1>4 DEF Wanted, At
<1>5. CASE session[p].pc = "commit"
  BY <1>1, <1>2, <1>5 DEF Wanted, At
<1>6. CASE session[p].pc = "lockOrder"
  BY <1>1, <1>6 DEF Wanted, At
<1> QED
  BY <1>1, <1>3, <1>4, <1>5, <1>6

\* Every row somebody waits for is an order or a listing.
LEMMA WantedRows ==
    ASSUME TxInv, WaitInv, NEW p \in Requests
    PROVE  Wanted(p) \subseteq OrderIds \cup Listings
<1>1. /\ session[p] \in Session /\ session[p].order \in OrderIds /\ task[p].listing \in Listings
      /\ Lined(p) /\ Disciplined(p)
  BY WaitFacts
<1>2. CASE At(p, "begin", {"checkout", "remove", "restore"}) \/ session[p].pc = "insert"
           \/ At(p, "commit", {"archive"})
  <2>1. task[p].op \in {"checkout", "archive", "remove", "restore"}
    BY <1>1, <1>2 DEF At, Lined, Disciplined
  <2> QED BY <1>1, <1>2, <2>1 DEF Wanted, Shelf, At
<1>3. CASE session[p].pc = "commit" /\ session[p].act \in {"pay", "decline", "cancel"}
  <2>1. order[session[p].order].listing \in Listings
    BY <1>1, <1>3, OrderExists DEF Disciplined
  <2> QED BY <1>1, <1>3, <2>1 DEF Wanted, At
<1> QED
  BY <1>1, <1>2, <1>3 DEF Wanted, At

LEMMA UntangledHolds ==
    ASSUME TxInv, WaitInv, OrderTxAssumption
    PROVE  Untangled
<1> SUFFICES ASSUME NEW p \in Requests, NEW q \in Requests, NEW r \in Requests, NEW s \in Requests,
                    WaitsFor(p, q), WaitsFor(q, r), WaitsFor(r, s), Blocked(s)
             PROVE  Deadlocked(r, q) \/ Deadlocked(s, r)
  BY DEF Untangled
<1>1. Blocked(q) /\ Blocked(r)
  BY DEF Blocked
<1>2. PICK x \in Wanted(p) : lock[x] = q
  BY DEF WaitsFor
<1>3. CASE x \in Listings
  <2>1. /\ session[q].pc = "lockOrder" /\ Wanted(q) = {session[q].order}
        /\ order[session[q].order].listing = x /\ session[q].order \in OrderIds
    BY <1>1, <1>2, <1>3, HolderOfListing, WaitFacts
  <2>2. lock[session[q].order] = r
    BY <2>1 DEF WaitsFor
  <2>3. /\ session[r].pc = "commit" /\ session[r].act \in {"pay", "decline", "cancel"}
        /\ session[r].order = session[q].order
    BY <1>1, <2>1, <2>2, HolderOfOrder
  <2> QED BY <1>2, <2>1, <2>2, <2>3 DEF Deadlocked
<1>4. CASE x \in OrderIds
  <2>1. Wanted(q) = {order[x].listing} /\ order[x].listing \in Listings
    <3>1. session[q].pc = "commit" /\ session[q].act \in {"pay", "decline", "cancel"} /\ session[q].order = x
          /\ Wanted(q) = {order[x].listing}
      BY <1>1, <1>2, <1>4, HolderOfOrder
    <3>2. order[x].status # "NONE"
      BY <3>1, WaitFacts DEF Disciplined
    <3> QED BY <1>4, <3>1, <3>2, OrderExists
  <2>2. lock[order[x].listing] = r
    BY <2>1 DEF WaitsFor
  <2>3. /\ session[r].pc = "lockOrder" /\ Wanted(r) = {session[r].order} /\ session[r].order \in OrderIds
        /\ order[session[r].order].listing = order[x].listing
    BY <1>1, <2>1, <2>2, HolderOfListing, WaitFacts
  <2>4. lock[session[r].order] = s
    BY <2>3 DEF WaitsFor
  <2>5. /\ session[s].pc = "commit" /\ session[s].act \in {"pay", "decline", "cancel"}
        /\ session[s].order = session[r].order
    BY <2>3, <2>4, HolderOfOrder
  <2> QED BY <2>2, <2>3, <2>4, <2>5 DEF Deadlocked
<1> QED
  BY <1>2, <1>3, <1>4, WantedRows

-----------------------------------------------------------------------------
(* The lines are kept.                                                     *)

\* What p does to its own locks and rows, the others do not notice.
LEMMA OthersLined ==
    ASSUME TxInv, WaitInv, NEW p \in Requests, UNCHANGED task,
           \A q \in Requests \ {p} : session'[q] = session[q],
           \A x \in OrderIds \cup Listings, q \in Requests \ {p} : lock'[x] = q <=> lock[x] = q,
           \A o \in OrderIds : order[o].status # "NONE" => order'[o].listing = order[o].listing,
           \A q \in Requests \ {p} :
              (task[q].op = "checkout" /\ order[task[q].order] = Absent)
                 => order'[task[q].order] = Absent
    PROVE  \A q \in Requests \ {p} : Lined(q)'
<1> SUFFICES ASSUME NEW q \in Requests \ {p}
             PROVE  Lined(q)'
  OBVIOUS
<1>1. /\ Lined(q) /\ Disciplined(q) /\ session'[q] = session[q] /\ task'[q] = task[q]
      /\ session[q].order \in OrderIds /\ task[q].listing \in Listings
  BY WaitFacts
<1>2. (task[q].op = "checkout" /\ session[q].pc # "done") => order'[task[q].order] = Absent
  BY <1>1 DEF Lined
<1>3. (task[q].op = "checkout" /\ session[q].pc \in {"lockOrder", "commit"}) =>
          session[q].act = "cancel" /\ lock'[task[q].listing] = q /\ order'[session[q].order].listing = task[q].listing
  BY <1>1 DEF Lined, Disciplined
<1>4. session[q].pc = "findAbandoned" => task[q].op = "checkout" /\ lock'[task[q].listing] = q
  BY <1>1 DEF Lined
<1> QED
  BY <1>1, <1>2, <1>3, <1>4 DEF Lined

\* A step that changes no order.
LEMMA LocalLined ==
    ASSUME TxInv, WaitInv, NEW p \in Requests, UNCHANGED <<order, task>>,
           \A q \in Requests \ {p} : session'[q] = session[q],
           \A x \in OrderIds \cup Listings, q \in Requests \ {p} : lock'[x] = q <=> lock[x] = q,
           Lined(p)'
    PROVE  WaitInv'
<1>1. \A q \in Requests \ {p} : Lined(q)'
  BY OthersLined
<1> QED
  BY <1>1 DEF WaitInv

LEMMA DropLocksLeaves ==
    ASSUME TxInv, OrderTxAssumption, NEW p \in Requests, DropLocks(p)
    PROVE  /\ \A x \in OrderIds \cup Listings, q \in Requests \ {p} : lock'[x] = q <=> lock[x] = q
           /\ \A x \in OrderIds \cup Listings : lock'[x] # p
BY DEF TxInv, TxTypeOK, DropLocks, OrderTxAssumption, Free

LEMMA AcquireLeaves ==
    ASSUME TxInv, OrderTxAssumption, NEW p \in Requests, NEW x \in OrderIds \cup Listings, Acquire(p, x)
    PROVE  /\ \A y \in OrderIds \cup Listings, q \in Requests \ {p} : lock'[y] = q <=> lock[y] = q
           /\ \A y \in OrderIds \cup Listings : lock'[y] = p <=> (y = x \/ lock[y] = p)
<1>1. lock[x] \in {Free, p} /\ Free \notin Requests /\ lock' = [lock EXCEPT ![x] = p]
  BY DEF Acquire, Available, OrderTxAssumption, Free
<1> QED
  BY <1>1 DEF TxInv, TxTypeOK

LEMMA DoneLined ==
    ASSUME TxInv, WaitInv, OrderTxAssumption, NEW p \in Requests, UNCHANGED task,
           session'[p].pc = "done", DropLocks(p)
    PROVE  Lined(p)'
BY WaitFacts, DropLocksLeaves DEF Lined

LEMMA RefuseLined ==
    ASSUME TxInv, WaitInv, OrderTxAssumption, NEW p \in Requests, Refuse(p)
    PROVE  WaitInv'
<1>1. Answer(p) /\ DropLocks(p) /\ UNCHANGED <<order, task>>
  BY DEF Refuse, Answer, vars
<1> QED
  BY <1>1, AnswerMeans, DropLocksLeaves, DoneLined, LocalLined

\* What is left to show of a step that moves one session and at most its locks.
LEMMA MovedLined ==
    ASSUME TxInv, WaitInv, NEW p \in Requests, NEW s \in Session,
           session' = [session EXCEPT ![p] = s], UNCHANGED <<vars, task>>,
           \A x \in OrderIds \cup Listings, q \in Requests \ {p} : lock'[x] = q <=> lock[x] = q,
           session'[p] = s => Lined(p)'
    PROVE  WaitInv'
<1>1. session'[p] = s /\ \A q \in Requests \ {p} : session'[q] = session[q]
  BY SessionMoves
<1>2. UNCHANGED <<order, task>>
  BY DEF vars
<1> QED
  BY <1>1, <1>2, LocalLined

LEMMA LoadOrderLined ==
    ASSUME TxInv, WaitInv, OrderTxAssumption, NEW p \in Requests, LoadOrder(p)
    PROVE  WaitInv'
<1> DEFINE o == task[p].order
           reading == task[p].op = "read"
           s == [session[p] EXCEPT !.pc = IF reading THEN "lockOrder" ELSE "commit",
                                   !.act = IF reading THEN "cancel" ELSE task[p].op,
                                   !.seen = order[o].status]
<1>1. /\ session[p] \in Session /\ Lined(p) /\ o \in OrderIds /\ task[p].op \in Ops
      /\ session[p].pc = "begin" /\ task[p].op \in {"read", "ship", "deliver"}
  BY WaitFacts DEF LoadOrder, At, Disciplined
<1>2. CASE Refuse(p)
  BY <1>2, RefuseLined
<1>3. CASE session' = [session EXCEPT ![p] = s] /\ UNCHANGED <<vars, task, lock>> /\ Actionable(p, o)
  <2>1. order[o].status \in OrderStatus
    BY <1>1, <1>3, OrderExists DEF Actionable, Unpaid
  <2>2. s \in Session /\ s.pc \in {"lockOrder", "commit"}
    BY <1>1, <2>1 DEF Session, Ops
  <2>3. UNCHANGED order
    BY <1>3 DEF vars
  <2>4. session'[p] = s => Lined(p)'
    BY <1>1, <1>3, <2>2, <2>3 DEF Lined
  <2> HIDE DEF s
  <2> QED BY <1>3, <2>2, <2>4, MovedLined
<1> QED
  BY <1>1, <1>2, <1>3 DEF LoadOrder, TxInv, TxTypeOK

LEMMA LockOrderLined ==
    ASSUME TxInv, WaitInv, OrderTxAssumption, NEW p \in Requests, LockOrder(p)
    PROVE  WaitInv'
<1> DEFINE o == task[p].order
<1>1. /\ session[p] \in Session /\ Lined(p) /\ o \in OrderIds
      /\ session[p].pc = "begin" /\ session[p].order = o /\ task[p].op \in {"pay", "decline", "cancel"}
  BY WaitFacts DEF LockOrder, At, Disciplined
<1>2. CASE Refuse(p)
  BY <1>2, RefuseLined
<1>3. ASSUME NEW act \in Decisions(p, o), Acquire(p, o),
             session' = [session EXCEPT ![p] =
                 [@ EXCEPT !.pc = "readListing", !.act = act, !.seen = order[o].status]],
             UNCHANGED <<vars, task>>
      PROVE  WaitInv'
  <2> DEFINE s == [session[p] EXCEPT !.pc = "readListing", !.act = act, !.seen = order[o].status]
  <2>1. act \in {"pay", "decline", "cancel"} /\ order[o].status \in Unpaid
    BY DEF Decisions, Cancellable
  <2>2. session' = [session EXCEPT ![p] = s]
    BY <1>1, <1>3 DEF TxInv, TxTypeOK
  <2>3. s \in Session /\ s.pc = "readListing" /\ s.act = act /\ s.order = o
    BY <1>1, <2>1 DEF Session, Ops, Unpaid, OrderStatus
  <2> HIDE DEF s
  <2>4. /\ \A y \in OrderIds \cup Listings, q \in Requests \ {p} : lock'[y] = q <=> lock[y] = q
        /\ \A y \in OrderIds \cup Listings : lock'[y] = p <=> (y = o \/ lock[y] = p)
    BY <1>1, <1>3, AcquireLeaves
  <2>5. UNCHANGED <<order, task>>
    BY <1>3 DEF vars
  <2>6. \A l \in Listings : lock'[l] # p
    BY <1>1, <2>4 DEF Lined, OrderTxAssumption
  <2>7. session'[p] = s => Lined(p)'
    BY <1>1, <2>1, <2>3, <2>4, <2>5, <2>6 DEF Lined
  <2> QED BY <1>3, <2>2, <2>3, <2>4, <2>7, MovedLined
<1> QED
  BY <1>2, <1>3 DEF LockOrder

LEMMA RelockOrderLined ==
    ASSUME TxInv, WaitInv, OrderTxAssumption, NEW p \in Requests, RelockOrder(p)
    PROVE  WaitInv'
<1> DEFINE o == session[p].order
           to == IF task[p].op = "checkout" THEN "commit" ELSE "readListing"
           s == [session[p] EXCEPT !.pc = to]
<1>1. /\ session[p] \in Session /\ Lined(p) /\ o \in OrderIds /\ task[p].listing \in Listings
      /\ session[p].pc = "lockOrder" /\ session[p].act = "cancel"
  BY WaitFacts DEF RelockOrder, At
<1>2. session' = [session EXCEPT ![p] = s] /\ Acquire(p, o) /\ UNCHANGED <<vars, task>>
  BY DEF RelockOrder, Goto, TxInv, TxTypeOK
<1>3. s \in Session /\ s.pc = to /\ s.act = "cancel" /\ s.order = o
  BY <1>1 DEF Session
<1> HIDE DEF s
<1>4. /\ \A y \in OrderIds \cup Listings, q \in Requests \ {p} : lock'[y] = q <=> lock[y] = q
      /\ \A y \in OrderIds \cup Listings : lock'[y] = p <=> (y = o \/ lock[y] = p)
  BY <1>1, <1>2, AcquireLeaves
<1>5. UNCHANGED <<order, task>>
  BY <1>2 DEF vars
<1>6. \A l \in Listings : lock'[l] = p <=> lock[l] = p
  BY <1>1, <1>4 DEF OrderTxAssumption
<1>7. session'[p] = s => Lined(p)'
  BY <1>1, <1>3, <1>4, <1>5, <1>6 DEF Lined
<1> QED
  BY <1>2, <1>3, <1>4, <1>7, MovedLined

LEMMA ReadListingLined ==
    ASSUME TxInv, WaitInv, OrderTxAssumption, NEW p \in Requests, ReadListing(p)
    PROVE  WaitInv'
<1> DEFINE s == [session[p] EXCEPT !.pc = "commit", !.shelf = listing[Shelf(p)]]
<1>1. /\ session[p] \in Session /\ Lined(p) /\ Disciplined(p)
      /\ session[p].pc = "readListing" /\ session[p].act \in {"pay", "decline", "cancel"}
      /\ task[p].op # "checkout" /\ order[session[p].order].status # "NONE"
  BY WaitFacts DEF ReadListing, At, Lined, Disciplined
<1>2. CASE Refuse(p)
  BY <1>2, RefuseLined
<1>3. CASE session' = [session EXCEPT ![p] = s] /\ UNCHANGED <<vars, task, lock>>
  <2>1. s \in Session /\ s.pc = "commit" /\ s.act = session[p].act /\ s.order = session[p].order
    BY <1>1, ShelfExists DEF Session
  <2> HIDE DEF s
  <2>2. UNCHANGED order
    BY <1>3 DEF vars
  <2>3. session'[p] = s => Lined(p)'
    BY <1>1, <1>3, <2>1, <2>2 DEF Lined
  <2> QED BY <1>3, <2>1, <2>3, MovedLined
<1> QED
  BY <1>2, <1>3 DEF ReadListing, TxInv, TxTypeOK

LEMMA LoadListingLined ==
    ASSUME TxInv, WaitInv, OrderTxAssumption, NEW p \in Requests, LoadListing(p)
    PROVE  WaitInv'
<1> DEFINE s == [session[p] EXCEPT !.pc = "commit", !.shelf = "ACTIVE"]
<1>1. /\ session[p] \in Session /\ Lined(p)
      /\ session[p].pc = "begin" /\ task[p].op = "archive"
  BY WaitFacts DEF LoadListing, At, Disciplined
<1>2. CASE Refuse(p)
  BY <1>2, RefuseLined
<1>3. CASE session' = [session EXCEPT ![p] = s] /\ UNCHANGED <<vars, task, lock>>
  <2>1. s \in Session /\ s.pc = "commit"
    BY <1>1 DEF Session, ListingStatus
  <2> HIDE DEF s
  <2>2. UNCHANGED order
    BY <1>3 DEF vars
  <2>3. session'[p] = s => Lined(p)'
    BY <1>1, <1>3, <2>1, <2>2 DEF Lined
  <2> QED BY <1>3, <2>1, <2>3, MovedLined
<1> QED
  BY <1>2, <1>3 DEF LoadListing, TxInv, TxTypeOK

LEMMA LockListingLined ==
    ASSUME TxInv, WaitInv, OrderTxAssumption, NEW p \in Requests, LockListing(p)
    PROVE  WaitInv'
<1> DEFINE l == task[p].listing
           to == IF listing[l] = "ACTIVE" THEN "insert" ELSE "findAbandoned"
           s == [session[p] EXCEPT !.pc = to, !.shelf = listing[l]]
<1>1. /\ session[p] \in Session /\ l \in Listings /\ Lined(p)
      /\ session[p].pc = "begin" /\ task[p].op = "checkout" /\ Shelf(p) = l
  BY WaitFacts DEF LockListing, At, Shelf, Disciplined
<1>2. session' = [session EXCEPT ![p] = s] /\ Acquire(p, l) /\ UNCHANGED <<vars, task>>
  BY <1>1 DEF LockListing, TxInv, TxTypeOK
<1>3. s \in Session /\ s.pc = to
  BY <1>1, ShelfExists DEF Session
<1> HIDE DEF s
<1>4. /\ \A y \in OrderIds \cup Listings, q \in Requests \ {p} : lock'[y] = q <=> lock[y] = q
      /\ \A y \in OrderIds \cup Listings : lock'[y] = p <=> (y = l \/ lock[y] = p)
  BY <1>1, <1>2, AcquireLeaves
<1>5. UNCHANGED <<order, task>>
  BY <1>2 DEF vars
<1>6. \A o \in OrderIds : lock'[o] # p
  BY <1>1, <1>4 DEF Lined, OrderTxAssumption
<1>7. session'[p] = s => Lined(p)'
  BY <1>1, <1>3, <1>4, <1>5, <1>6 DEF Lined
<1> QED
  BY <1>2, <1>3, <1>4, <1>7, MovedLined

LEMMA FindAbandonedLined ==
    ASSUME TxInv, WaitInv, OrderTxAssumption, NEW p \in Requests, FindAbandoned(p)
    PROVE  WaitInv'
<1>1. /\ session[p] \in Session /\ Lined(p) /\ session[p].pc = "findAbandoned"
      /\ task[p].op = "checkout" /\ task[p].listing \in Listings /\ Shelf(p) = task[p].listing
  BY WaitFacts DEF FindAbandoned, At, Shelf, Lined
<1>2. CASE Refuse(p)
  BY <1>2, RefuseLined
<1>3. ASSUME NEW o \in OrderIds, order[o].listing = task[p].listing,
             session' = [session EXCEPT ![p] =
                 [@ EXCEPT !.pc = "lockOrder", !.act = "cancel", !.order = o,
                           !.seen = "PENDING_PAYMENT"]],
             UNCHANGED <<vars, task, lock>>
      PROVE  WaitInv'
  <2> DEFINE s == [session[p] EXCEPT !.pc = "lockOrder", !.act = "cancel", !.order = o,
                                     !.seen = "PENDING_PAYMENT"]
  <2>1. s \in Session /\ s.pc = "lockOrder" /\ s.act = "cancel" /\ s.order = o
    BY <1>1 DEF Session, Ops, OrderStatus
  <2>2. session' = [session EXCEPT ![p] = s]
    BY <1>3 DEF TxInv, TxTypeOK
  <2> HIDE DEF s
  <2>3. UNCHANGED order
    BY <1>3 DEF vars
  <2>4. session'[p] = s => Lined(p)'
    BY <1>1, <1>3, <2>1, <2>3 DEF Lined
  <2> QED BY <1>3, <2>1, <2>2, <2>4, MovedLined
<1> QED
  BY <1>1, <1>2, <1>3 DEF FindAbandoned, LiveOrders

LEMMA RefreshListingLined ==
    ASSUME TxInv, WaitInv, OrderTxAssumption, NEW p \in Requests, RefreshListing(p)
    PROVE  WaitInv'
<1> DEFINE s == [session[p] EXCEPT !.pc = "insert", !.shelf = "ACTIVE"]
<1>1. /\ session[p] \in Session /\ Lined(p) /\ session[p].pc = "refresh" /\ task[p].op = "checkout"
  BY WaitFacts DEF RefreshListing, At, Lined
<1>2. CASE Refuse(p)
  BY <1>2, RefuseLined
<1>3. CASE session' = [session EXCEPT ![p] = s] /\ UNCHANGED <<vars, task, lock>>
  <2>1. s \in Session /\ s.pc = "insert"
    BY <1>1 DEF Session, ListingStatus
  <2> HIDE DEF s
  <2>2. UNCHANGED order
    BY <1>3 DEF vars
  <2>3. session'[p] = s => Lined(p)'
    BY <1>1, <1>3, <2>1, <2>2 DEF Lined
  <2> QED BY <1>3, <2>1, <2>3, MovedLined
<1> QED
  BY <1>2, <1>3 DEF RefreshListing, TxInv, TxTypeOK

\* A commit that gives an order a new status, or inserts the one that is its own.
LEMMA StatusLined ==
    ASSUME TxInv, WaitInv, OrderTxAssumption, NEW p \in Requests, UNCHANGED task,
           NEW o \in OrderIds, order[o].status # "NONE", NEW to \in OrderStatus, SetStatus(o, to),
           \A q \in Requests \ {p} : session'[q] = session[q], DropLocks(p)
    PROVE  \A q \in Requests \ {p} : Lined(q)'
<1>1. TypeOK
  BY DEF TxInv, TxTypeOK
<1>2. order'[o].listing = order[o].listing /\ \A x \in OrderIds \ {o} : order'[x] = order[x]
  BY <1>1, StatusUpdate
<1>3. order[o] # Absent
  BY DEF Absent
<1>4. \A q \in Requests : task[q].order \in OrderIds
  BY WaitFacts
<1> QED
  BY <1>2, <1>3, <1>4, DropLocksLeaves, OthersLined

LEMMA CommitCheckoutLined ==
    ASSUME TxInv, WaitInv, OrderTxAssumption, NEW p \in Requests, CommitCheckout(p)
    PROVE  WaitInv'
<1> DEFINE o == task[p].order
           row == [status |-> "PENDING_PAYMENT", listing |-> task[p].listing,
                   buyer |-> task[p].buyer, source |-> "FIXED_PRICE"]
<1>1. /\ o \in OrderIds /\ Lined(p) /\ session[p].pc = "insert" /\ task[p].op = "checkout"
      /\ Shelf(p) = task[p].listing /\ task[p] \in Tasks[p]
  BY WaitFacts DEF CommitCheckout, At, Lined, Shelf
<1>2. CASE Refuse(p)
  BY <1>2, RefuseLined
<1>3. CASE order' = [order EXCEPT ![o] = row] /\ UNCHANGED task /\ Answer(p)
  <2>1. order[o] = Absent /\ order[o].status = "NONE"
    BY <1>1 DEF Lined, Absent
  <2>2. \A x \in OrderIds \ {o} : order'[x] = order[x]
    BY <1>3 DEF TxInv, TxTypeOK, TypeOK
  <2> HIDE DEF row
  <2>3. ASSUME NEW q \in Requests \ {p}, task[q].op = "checkout"
        PROVE  task[q].order # o
    BY <1>1, <2>3 DEF OrderTxAssumption, WaitInv, Lined
  <2>4. \A q \in Requests : task[q].order \in OrderIds
    BY WaitFacts
  <2>5. DropLocks(p) /\ session'[p].pc = "done" /\ \A q \in Requests \ {p} : session'[q] = session[q]
    BY <1>3, AnswerMeans DEF Answer
  <2>6. \A q \in Requests \ {p} : Lined(q)'
    BY <1>3, <2>1, <2>2, <2>3, <2>4, <2>5, DropLocksLeaves, OthersLined
  <2> QED BY <1>3, <2>5, <2>6, DoneLined DEF WaitInv
<1> QED
  BY <1>1, <1>2, <1>3 DEF CommitCheckout

LEMMA CommitCancelLined ==
    ASSUME TxInv, WaitInv, OrderTxAssumption, NEW p \in Requests, CommitCancel(p)
    PROVE  WaitInv'
<1> DEFINE o == session[p].order
           s == IF task[p].op = "checkout"
                THEN [session[p] EXCEPT !.pc = "refresh", !.act = "checkout"]
                ELSE [session[p] EXCEPT !.pc = "done"]
<1>1. /\ session[p] \in Session /\ o \in OrderIds /\ Lined(p)
      /\ session[p].pc = "commit" /\ order[o].status # "NONE"
      /\ SetStatus(o, "CANCELLED") /\ "CANCELLED" \in OrderStatus /\ UNCHANGED task /\ DropLocks(p)
  BY WaitFacts DEF CommitCancel, At, Disciplined, OrderStatus
<1>2. s \in Session /\ s.pc = IF task[p].op = "checkout" THEN "refresh" ELSE "done"
  BY <1>1 DEF Session, Ops
<1>3. session' = [session EXCEPT ![p] = s]
  BY DEF CommitCancel, TxInv, TxTypeOK
<1> HIDE DEF s
<1>4. session'[p] = s /\ \A q \in Requests \ {p} : session'[q] = session[q]
  BY <1>2, <1>3, SessionMoves
<1>5. \A q \in Requests \ {p} : Lined(q)'
  BY <1>1, <1>4, StatusLined
<1>6. task[p].op = "checkout" => order'[task[p].order] = Absent
  <2>1. TypeOK /\ order[o] # Absent /\ task[p].order \in OrderIds
    BY <1>1, WaitFacts DEF TxInv, TxTypeOK, Absent
  <2>2. \A x \in OrderIds \ {o} : order'[x] = order[x]
    BY <1>1, <2>1, StatusUpdate
  <2> QED BY <1>1, <2>1, <2>2 DEF Lined
<1>7. Lined(p)'
  BY <1>1, <1>2, <1>4, <1>6, DropLocksLeaves DEF Lined
<1> QED
  BY <1>5, <1>7 DEF WaitInv

LEMMA CommitPaymentLined ==
    ASSUME TxInv, WaitInv, OrderTxAssumption, NEW p \in Requests, CommitPayment(p)
    PROVE  WaitInv'
<1> DEFINE o == session[p].order
           to == IF session[p].act = "pay" THEN "PAID" ELSE "PAYMENT_FAILED"
<1>1. /\ o \in OrderIds /\ order[o].status # "NONE" /\ to \in OrderStatus
  BY WaitFacts DEF CommitPayment, At, Disciplined, OrderStatus
<1>2. CASE Refuse(p)
  BY <1>2, RefuseLined
<1>3. CASE SetStatus(o, to) /\ UNCHANGED task /\ Answer(p)
  <2>1. DropLocks(p) /\ session'[p].pc = "done" /\ \A q \in Requests \ {p} : session'[q] = session[q]
    BY <1>3, AnswerMeans DEF Answer
  <2>2. \A q \in Requests \ {p} : Lined(q)'
    BY <1>1, <1>3, <2>1, StatusLined
  <2> QED BY <1>3, <2>1, <2>2, DoneLined DEF WaitInv
<1> QED
  BY <1>2, <1>3 DEF CommitPayment

LEMMA CommitFulfilmentLined ==
    ASSUME TxInv, WaitInv, OrderTxAssumption, NEW p \in Requests, CommitFulfilment(p)
    PROVE  WaitInv'
<1> DEFINE o == session[p].order
           to == IF session[p].act = "ship" THEN "SHIPPED" ELSE "DELIVERED"
<1>1. /\ o \in OrderIds /\ order[o].status # "NONE" /\ to \in OrderStatus
  BY WaitFacts DEF CommitFulfilment, At, Disciplined, OrderStatus
<1>2. CASE Refuse(p)
  BY <1>2, RefuseLined
<1>3. CASE SetStatus(o, to) /\ UNCHANGED task /\ Answer(p)
  <2>1. DropLocks(p) /\ session'[p].pc = "done" /\ \A q \in Requests \ {p} : session'[q] = session[q]
    BY <1>3, AnswerMeans DEF Answer
  <2>2. \A q \in Requests \ {p} : Lined(q)'
    BY <1>1, <1>3, <2>1, StatusLined
  <2> QED BY <1>3, <2>1, <2>2, DoneLined DEF WaitInv
<1> QED
  BY <1>2, <1>3 DEF CommitFulfilment

\* Archiving and moderation change a listing and answer.
LEMMA ShelfLined ==
    ASSUME TxInv, WaitInv, OrderTxAssumption, NEW p \in Requests,
           CommitArchive(p) \/ Moderate(p)
    PROVE  WaitInv'
<1>1. CASE Refuse(p)
  BY <1>1, RefuseLined
<1>2. CASE Answer(p) /\ UNCHANGED <<order, task>>
  <2>1. DropLocks(p) /\ session'[p].pc = "done" /\ \A q \in Requests \ {p} : session'[q] = session[q]
    BY <1>2, AnswerMeans DEF Answer
  <2> QED BY <1>2, <2>1, DropLocksLeaves, DoneLined, LocalLined
<1> QED
  BY <1>1, <1>2 DEF CommitArchive, Moderate

LEMMA NextLined ==
    ASSUME TxInv, WaitInv, OrderTxAssumption, [TxNext]_txVars
    PROVE  WaitInv'
<1>1. ASSUME NEW p \in Requests, Step(p)
      PROVE  WaitInv'
  BY <1>1, LoadOrderLined, LockOrderLined, RelockOrderLined, ReadListingLined, LoadListingLined,
     LockListingLined, FindAbandonedLined, RefreshListingLined, CommitCheckoutLined,
     CommitCancelLined, CommitPaymentLined, CommitFulfilmentLined, ShelfLined, Zenon DEF Step
<1>2. ASSUME NEW p \in Requests, Refuse(p)
      PROVE  WaitInv'
  BY <1>2, RefuseLined
<1>3. CASE UNCHANGED <<order, task, session, lock>>
  BY <1>3 DEF WaitInv, Lined
<1> QED
  BY <1>1, <1>2, <1>3, Zenon DEF TxNext, Abort, BreakDeadlock, Elapse, DeadlinePasses, txVars, vars

LEMMA InitLined ==
    ASSUME OrderTxAssumption, TxInit
    PROVE  WaitInv
<1> SUFFICES ASSUME NEW p \in Requests
             PROVE  Lined(p)
  BY DEF WaitInv
<1>1. task[p] \in Tasks[p] /\ session[p].pc = "begin"
  BY DEF TxInit
<1>2. task[p].op = "checkout" => task[p].order \in OrderIds /\ task[p].order # FirstOrder
  BY <1>1 DEF OrderTxAssumption, Task
<1>3. task[p].op = "checkout" => order[task[p].order] = Absent
  BY <1>2 DEF TxInit
<1>4. \A x \in OrderIds \cup Listings : lock[x] # p
  BY DEF TxInit, Free, OrderTxAssumption
<1> QED
  BY <1>1, <1>3, <1>4 DEF Lined

\* Row locks tie up two requests at most.  pay_order, cancel_order_endpoint and the releases of
\* checkout lock an order and then write its listing, or the other way round, yet whatever they
\* and the unlocked writers do, a line of waiting requests ends with one that waits for nobody or
\* with a pair that PostgreSQL sees waiting for each other.
THEOREM UntangledCorrect == TxSpec => []Untangled
<1>1. TxInit => WaitInv
  BY InitLined, OrderTxAssumption
<1>2. TxInv /\ WaitInv /\ [TxNext]_txVars => WaitInv'
  BY NextLined, OrderTxAssumption
<1>3. TxInv /\ WaitInv => Untangled
  BY UntangledHolds, OrderTxAssumption
<1> QED
  BY <1>1, <1>2, <1>3, TxAlways, PTL DEF TxSpec

\* Wanted is what the code waits for: a request takes no step while another one holds a row of it.
\* (Only an abort, or the deadlock detector, ends such a wait from outside.)
THEOREM LocksRespected == TxSpec => [][\A p \in Requests : Step(p) => ~Blocked(p)]_txVars
<1>1. TxInv => \A p \in Requests : Step(p) => ~Blocked(p)
  <2> SUFFICES ASSUME TxInv, NEW p \in Requests, Step(p)
               PROVE  ~Blocked(p)
    OBVIOUS
  <2>1. \A x \in Wanted(p) : lock[x] \in {Free, p}
    BY StepRespectsLocks DEF Available
  <2> QED BY <2>1, OrderTxAssumption DEF Blocked, WaitsFor, Free
<1> QED
  BY <1>1, TxAlways, PTL DEF TxSpec

-----------------------------------------------------------------------------
(* Requests that all take their row locks (payment, cancellation and       *)
(* checkout) do as if they ran one after another.                          *)

\* What a session that has come so far may rely on: the copies it holds are those of the
\* rows, a checkout has its order id to itself, and in the middle of a release it has the
\* listing locked on which the abandoned order lies.
Informed(p) ==
    LET s == session[p]
        t == task[p]
    IN  /\ (t.op = "checkout" /\ s.pc # "done") => order[t.order] = Absent
        /\ s.pc \in {"readListing", "commit"} =>
              /\ s.act \in {"pay", "decline", "cancel"}
              /\ s.seen \in Unpaid /\ s.seen = order[s.order].status
        /\ s.pc = "commit" => s.shelf = IF s.seen = "PENDING_PAYMENT" THEN "RESERVED" ELSE "ACTIVE"
        /\ s.pc = "readListing" => t.op # "checkout"
        /\ s.pc = "findAbandoned" => lock[t.listing] = p /\ s.shelf = listing[t.listing]
        /\ s.pc = "lockOrder" => t.op = "checkout"
        /\ (t.op = "checkout" /\ s.pc \in {"lockOrder", "commit"}) =>
              /\ lock[t.listing] = p
              /\ order[s.order].status = "PENDING_PAYMENT" /\ order[s.order].listing = t.listing
              /\ s.act = "cancel" /\ s.seen = "PENDING_PAYMENT" /\ s.shelf = "RESERVED"

\* Nobody takes anything down, and every order is a fixed-price one.
OnSale == \A l \in Listings : listing[l] \in {"ACTIVE", "RESERVED", "SOLD"}

FixedPrice == \A o \in OrderIds : order[o].status # "NONE" => order[o].source = "FIXED_PRICE"

LockedInv ==
    /\ LedgerInv /\ ShelfInv /\ HistoryBalanced
    /\ OnSale /\ FixedPrice
    /\ \A p \in Requests : task[p] \in Tasks[p] /\ Informed(p)

-----------------------------------------------------------------------------

LEMMA LockedFacts ==
    ASSUME TxInv, AllLock, LockedInv, NEW p \in Requests
    PROVE  /\ task[p].op \in {"pay", "decline", "cancel", "checkout"}
           /\ session[p].act \in {task[p].op, "cancel"}
           /\ session[p] \in Session /\ session[p].order \in OrderIds
           /\ task[p].order \in OrderIds /\ task[p].listing \in Listings
           /\ Disciplined(p) /\ Informed(p)
BY SessionFacts DEF AllLock, LockedInv, Disciplined

\* The others' knowledge stays true when p respects their locks and the ids of their orders.
LEMMA OthersInformed ==
    ASSUME TxInv, AllLock, LockedInv, NEW p \in Requests, UNCHANGED task,
           \A q \in Requests \ {p} : session'[q] = session[q],
           \A x \in OrderIds \cup Listings : lock[x] \in Requests \ {p} => lock'[x] = lock[x],
           \A l \in Listings : lock[l] \in Requests \ {p} => listing'[l] = listing[l],
           \A o \in OrderIds :
              (order[o].status # "NONE" /\ lock[o] \in Requests \ {p}) => order'[o] = order[o],
           \A o \in OrderIds, l \in Listings :
              (order[o].status = "PENDING_PAYMENT" /\ order[o].listing = l /\ lock[l] \in Requests \ {p})
                 => order'[o] = order[o],
           \A q \in Requests \ {p} :
              (task[q].op = "checkout" /\ order[task[q].order] = Absent)
                 => order'[task[q].order] = Absent
    PROVE  \A q \in Requests \ {p} : Informed(q)'
<1> SUFFICES ASSUME NEW q \in Requests \ {p}
             PROVE  Informed(q)'
  OBVIOUS
<1> DEFINE s == session[q]
           t == task[q]
<1>1. /\ session'[q] = s /\ task'[q] = t
      /\ s.order \in OrderIds /\ t.listing \in Listings
      /\ Disciplined(q) /\ Informed(q)
  BY LockedFacts
<1>2. s.pc \in {"readListing", "commit"} => order'[s.order] = order[s.order]
  BY <1>1 DEF Disciplined, Informed, Unpaid
<1>3. (t.op = "checkout" /\ s.pc \in {"lockOrder", "commit"}) =>
         order'[s.order] = order[s.order] /\ lock'[t.listing] = q
  BY <1>1 DEF Informed
<1>4. s.pc = "findAbandoned" => lock'[t.listing] = q /\ listing'[t.listing] = listing[t.listing]
  BY <1>1 DEF Informed
<1>5. (t.op = "checkout" /\ s.pc # "done") => order'[t.order] = Absent
  BY <1>1 DEF Informed
<1> HIDE DEF s, t
<1>6. QED
  BY <1>1, <1>2, <1>3, <1>4, <1>5 DEF Informed, s, t

\* A step that changes no row but the clock's.
LEMMA LocalInformed ==
    ASSUME TxInv, AllLock, LockedInv, NEW p \in Requests,
           UNCHANGED <<listing, order, payment, history, task>>,
           \A q \in Requests \ {p} : session'[q] = session[q],
           \A x \in OrderIds \cup Listings : lock[x] \in Requests \ {p} => lock'[x] = lock[x],
           Informed(p)'
    PROVE  LockedInv'
<1>1. \A q \in Requests \ {p} : Informed(q)'
  BY OthersInformed
<1>2. \A q \in Requests : Informed(q)'
  BY <1>1
<1>3. LedgerInv'
  BY DEF LockedInv, LedgerInv, OneLiveOrder, Live, MoneyMatchesOrders, OneChargePerOrder, Charged
<1>4. ShelfInv'
  BY DEF LockedInv, ShelfInv, OrderOn
<1>5. HistoryBalanced'
  BY DEF LockedInv, HistoryBalanced, Balanced
<1>6. OnSale' /\ FixedPrice'
  BY DEF LockedInv, OnSale, FixedPrice
<1>7. \A q \in Requests : task'[q] \in Tasks[q]
  BY DEF LockedInv
<1>8. QED
  BY <1>2, <1>3, <1>4, <1>5, <1>6, <1>7 DEF LockedInv

LEMMA DoneInformed ==
    ASSUME NEW p \in Requests, session'[p].pc = "done"
    PROVE  Informed(p)'
BY DEF Informed

LEMMA RefuseInformed ==
    ASSUME TxInv, AllLock, LockedInv, NEW p \in Requests, Refuse(p)
    PROVE  LockedInv'
<1>1. Answer(p) /\ UNCHANGED <<listing, order, payment, history, task>>
  BY DEF Refuse, vars
<1>2. QED
  BY <1>1, AnswerMeans, DoneInformed, LocalInformed

-----------------------------------------------------------------------------
(* Reads and locks.                                                        *)

\* A session that has an unpaid order in hand knows the listing of that order.
LEMMA ShelfOfUnpaid ==
    ASSUME TxInv, LockedInv, NEW o \in OrderIds, order[o].status \in Unpaid
    PROVE  /\ order[o].listing \in Listings
           /\ listing[order[o].listing] =
                 IF order[o].status = "PENDING_PAYMENT" THEN "RESERVED" ELSE "ACTIVE"
<1>1. order[o].listing \in Listings
  BY OrderExists DEF Unpaid
<1>2. \A x \in OrderIds : Live(x) /\ order[x].listing = order[o].listing => x = o
  BY DEF LockedInv, LedgerInv, OneLiveOrder, Live
<1>3. ~OrderOn(order[o].listing, Sold)
  BY <1>2 DEF OrderOn, Live, Unpaid, Sold
<1>4. OrderOn(order[o].listing, {"PENDING_PAYMENT"}) <=> order[o].status = "PENDING_PAYMENT"
  BY <1>2 DEF OrderOn, Live, Unpaid
<1>5. QED
  BY <1>1, <1>3, <1>4 DEF LockedInv, ShelfInv, OnSale

LEMMA LockOrderInformed ==
    ASSUME TxInv, AllLock, LockedInv, OrderTxAssumption, NEW p \in Requests, LockOrder(p)
    PROVE  LockedInv'
<1> DEFINE o == task[p].order
<1>1. /\ session[p] \in Session /\ o \in OrderIds
      /\ session[p].act = task[p].op /\ session[p].order = o
      /\ session[p].act \in {"pay", "decline", "cancel"}
  BY LockedFacts DEF LockOrder, At, Disciplined
<1>2. CASE Refuse(p)
  BY <1>2, RefuseInformed
<1>3. ASSUME NEW act \in Decisions(p, o), Acquire(p, o),
             session' = [session EXCEPT ![p] =
                 [@ EXCEPT !.pc = "readListing", !.act = act, !.seen = order[o].status]],
             UNCHANGED <<vars, task>>
      PROVE  LockedInv'
  <2> DEFINE s == [session[p] EXCEPT !.pc = "readListing", !.act = act, !.seen = order[o].status]
  <2>1. act \in {"pay", "decline", "cancel"} /\ order[o].status \in Unpaid
    BY DEF Decisions, Cancellable
  <2>2. session' = [session EXCEPT ![p] = s]
    BY <1>1, <1>3 DEF TxInv, TxTypeOK
  <2>3. /\ s \in Session /\ s.pc = "readListing" /\ s.act = act /\ s.order = o
        /\ s.seen = order[o].status
    BY <1>1, <2>1 DEF Session, Ops, Unpaid, OrderStatus
  <2> HIDE DEF s
  <2>4. session'[p] = s /\ \A q \in Requests \ {p} : session'[q] = session[q]
    BY <2>2, <2>3, SessionMoves
  <2>5. \A x \in OrderIds \cup Listings : lock[x] \in Requests => lock'[x] = lock[x]
    BY <1>1, <1>3, AcquireMeans
  <2>6. UNCHANGED <<listing, order, payment, history, task>>
    BY <1>3 DEF vars
  <2>7. Informed(p)'
    BY <1>1, <2>1, <2>3, <2>4, <2>6 DEF Informed
  <2>8. QED
    BY <2>4, <2>5, <2>6, <2>7, LocalInformed
<1>4. QED
  BY <1>2, <1>3 DEF LockOrder

LEMMA RelockOrderInformed ==
    ASSUME TxInv, AllLock, LockedInv, OrderTxAssumption, NEW p \in Requests, RelockOrder(p)
    PROVE  LockedInv'
<1>1. /\ session[p] \in Session /\ session[p].order \in OrderIds /\ task[p].listing \in Listings
      /\ session[p].pc = "lockOrder" /\ Informed(p) /\ task[p].op = "checkout"
  BY LockedFacts DEF RelockOrder, At, Informed
<1> DEFINE s == [session[p] EXCEPT !.pc = "commit"]
<1>2. session' = [session EXCEPT ![p] = s] /\ UNCHANGED <<vars, task>>
  BY <1>1 DEF RelockOrder, Goto, TxInv, TxTypeOK
<1>3. /\ s \in Session /\ s.pc = "commit" /\ s.act = session[p].act /\ s.order = session[p].order
      /\ s.seen = session[p].seen /\ s.shelf = session[p].shelf
  BY <1>1 DEF Session
<1> HIDE DEF s
<1>4. session'[p] = s /\ \A q \in Requests \ {p} : session'[q] = session[q]
  BY <1>2, <1>3, SessionMoves
<1>5. \A x \in OrderIds \cup Listings : lock[x] \in Requests => lock'[x] = lock[x]
  BY <1>1, AcquireMeans DEF RelockOrder
<1>6. UNCHANGED <<listing, order, payment, history, task>>
  BY <1>2 DEF vars
<1>7. Informed(p)'
  BY <1>1, <1>3, <1>4, <1>5, <1>6 DEF Informed, Unpaid
<1>8. QED
  BY <1>4, <1>5, <1>6, <1>7, LocalInformed

LEMMA ReadListingInformed ==
    ASSUME TxInv, AllLock, LockedInv, NEW p \in Requests, ReadListing(p)
    PROVE  LockedInv'
<1> DEFINE o == session[p].order
<1>1. /\ session[p] \in Session /\ o \in OrderIds /\ session[p].pc = "readListing"
      /\ Informed(p) /\ task[p].op \in {"pay", "decline", "cancel"}
      /\ order[o].status \in Unpaid /\ session[p].seen = order[o].status
      /\ session[p].act \in {"pay", "decline", "cancel"}
  BY LockedFacts DEF ReadListing, At, Informed
<1>2. CASE Refuse(p)
  BY <1>2, RefuseInformed
<1>3. ASSUME session' = [session EXCEPT ![p] =
                 [@ EXCEPT !.pc = "commit", !.shelf = listing[Shelf(p)]]],
             UNCHANGED <<vars, task, lock>>
      PROVE  LockedInv'
  <2> DEFINE s == [session[p] EXCEPT !.pc = "commit", !.shelf = listing[Shelf(p)]]
  <2>1. Shelf(p) = order[o].listing
    BY <1>1 DEF Shelf
  <2>2. listing[Shelf(p)] = IF session[p].seen = "PENDING_PAYMENT" THEN "RESERVED" ELSE "ACTIVE"
    BY <1>1, <2>1, ShelfOfUnpaid
  <2>3. session' = [session EXCEPT ![p] = s]
    BY <1>1, <1>3 DEF TxInv, TxTypeOK
  <2>4. /\ s \in Session /\ s.pc = "commit" /\ s.act = session[p].act /\ s.order = o
        /\ s.seen = session[p].seen /\ s.shelf = listing[Shelf(p)]
    BY <1>1, <2>2 DEF Session, ListingStatus
  <2> HIDE DEF s
  <2>5. session'[p] = s /\ \A q \in Requests \ {p} : session'[q] = session[q]
    BY <2>3, <2>4, SessionMoves
  <2>6. UNCHANGED <<listing, order, payment, history, task, lock>>
    BY <1>3 DEF vars
  <2>7. Informed(p)'
    BY <1>1, <2>2, <2>4, <2>5, <2>6 DEF Informed
  <2>8. QED
    BY <2>5, <2>6, <2>7, LocalInformed
<1>4. QED
  BY <1>2, <1>3 DEF ReadListing

LEMMA LockListingInformed ==
    ASSUME TxInv, AllLock, LockedInv, OrderTxAssumption, NEW p \in Requests, LockListing(p)
    PROVE  LockedInv'
<1> DEFINE l == task[p].listing
           to == IF listing[l] = "ACTIVE" THEN "insert" ELSE "findAbandoned"
           s == [session[p] EXCEPT !.pc = to, !.shelf = listing[l]]
<1>1. /\ session[p] \in Session /\ l \in Listings /\ Informed(p)
      /\ session[p].pc = "begin" /\ task[p].op = "checkout" /\ Shelf(p) = l
  BY LockedFacts DEF LockListing, At, Shelf
<1>2. session' = [session EXCEPT ![p] = s] /\ UNCHANGED <<vars, task>>
  BY <1>1 DEF LockListing, TxInv, TxTypeOK
<1>3. listing[l] \in ListingStatus
  BY <1>1 DEF TxInv, TxTypeOK, TypeOK, CatalogTypeOK
<1>4. /\ s \in Session /\ s.pc = to /\ s.shelf = listing[l]
  BY <1>1, <1>3 DEF Session
<1> HIDE DEF s
<1>5. session'[p] = s /\ \A q \in Requests \ {p} : session'[q] = session[q]
  BY <1>2, <1>4, SessionMoves
<1>6. /\ lock'[l] = p
      /\ \A x \in OrderIds \cup Listings : lock[x] \in Requests => lock'[x] = lock[x]
  BY <1>1, AcquireMeans DEF LockListing
<1>7. UNCHANGED <<listing, order, payment, history, task>>
  BY <1>2 DEF vars
<1>8. Informed(p)'
  BY <1>1, <1>4, <1>5, <1>6, <1>7 DEF Informed
<1>9. QED
  BY <1>5, <1>6, <1>7, <1>8, LocalInformed

LEMMA FindAbandonedInformed ==
    ASSUME TxInv, AllLock, LockedInv, NEW p \in Requests, FindAbandoned(p)
    PROVE  LockedInv'
<1>1. /\ session[p] \in Session /\ session[p].pc = "findAbandoned" /\ session[p].act = "checkout"
      /\ Informed(p) /\ task[p].op = "checkout" /\ task[p].listing \in Listings
      /\ Shelf(p) = task[p].listing
  BY LockedFacts DEF FindAbandoned, At, Shelf
<1>2. CASE Refuse(p)
  BY <1>2, RefuseInformed
<1>3. ASSUME NEW o \in OrderIds, order[o].status = "PENDING_PAYMENT",
             order[o].listing = task[p].listing,
             session' = [session EXCEPT ![p] =
                 [@ EXCEPT !.pc = "lockOrder", !.act = "cancel", !.order = o,
                           !.seen = "PENDING_PAYMENT"]],
             UNCHANGED <<vars, task, lock>>
      PROVE  LockedInv'
  <2> DEFINE s == [session[p] EXCEPT !.pc = "lockOrder", !.act = "cancel", !.order = o,
                                     !.seen = "PENDING_PAYMENT"]
  <2>1. /\ s \in Session /\ s.pc = "lockOrder" /\ s.act = "cancel" /\ s.order = o
        /\ s.seen = "PENDING_PAYMENT" /\ s.shelf = session[p].shelf
    BY <1>1 DEF Session, Ops, OrderStatus
  <2>2. session' = [session EXCEPT ![p] = s]
    BY <1>3 DEF TxInv, TxTypeOK
  <2>3. session[p].shelf = "RESERVED" /\ lock[task[p].listing] = p
    BY <1>1, <1>3, ShelfOfUnpaid DEF Informed, Unpaid
  <2> HIDE DEF s
  <2>4. session'[p] = s /\ \A q \in Requests \ {p} : session'[q] = session[q]
    BY <2>1, <2>2, SessionMoves
  <2>5. UNCHANGED <<listing, order, payment, history, task, lock>>
    BY <1>3 DEF vars
  <2>6. Informed(p)'
    BY <1>1, <1>3, <2>1, <2>3, <2>4, <2>5 DEF Informed
  <2>7. QED
    BY <2>4, <2>5, <2>6, LocalInformed
<1>4. QED
  BY <1>1, <1>2, <1>3 DEF FindAbandoned, LiveOrders

LEMMA RefreshListingInformed ==
    ASSUME TxInv, AllLock, LockedInv, NEW p \in Requests, RefreshListing(p)
    PROVE  LockedInv'
<1>1. session[p] \in Session /\ session[p].pc = "refresh" /\ Informed(p)
  BY LockedFacts DEF RefreshListing, At
<1>2. CASE Refuse(p)
  BY <1>2, RefuseInformed
<1>3. ASSUME session' = [session EXCEPT ![p] = [@ EXCEPT !.pc = "insert", !.shelf = "ACTIVE"]],
             UNCHANGED <<vars, task, lock>>
      PROVE  LockedInv'
  <2>1. /\ session'[p].pc = "insert"
        /\ \A q \in Requests \ {p} : session'[q] = session[q]
    BY <1>1, <1>3 DEF TxInv, TxTypeOK, Session
  <2>2. UNCHANGED <<listing, order, payment, history, task, lock>>
    BY <1>3 DEF vars
  <2>3. Informed(p)'
    BY <1>1, <2>1, <2>2 DEF Informed
  <2>4. QED
    BY <2>1, <2>2, <2>3, LocalInformed
<1>4. QED
  BY <1>2, <1>3 DEF RefreshListing

-----------------------------------------------------------------------------
(* Commits: each is a step of the trade, as in Orders.                     *)

\* What is left to show of a commit.
LEMMA CommitInformed ==
    ASSUME OrdersAssumption, CatalogAssumption,
           TxInv, AllLock, LockedInv, NEW p \in Requests, UNCHANGED task,
           TradeStep, OnSale', FixedPrice',
           \A q \in Requests \ {p} : session'[q] = session[q],
           \A x \in OrderIds \cup Listings : lock[x] \in Requests \ {p} => lock'[x] = lock[x],
           \A l \in Listings : lock[l] \in Requests \ {p} => listing'[l] = listing[l],
           \A o \in OrderIds :
              (order[o].status # "NONE" /\ lock[o] \in Requests \ {p}) => order'[o] = order[o],
           \A o \in OrderIds, l \in Listings :
              (order[o].status = "PENDING_PAYMENT" /\ order[o].listing = l /\ lock[l] \in Requests \ {p})
                 => order'[o] = order[o],
           \A q \in Requests \ {p} :
              (task[q].op = "checkout" /\ order[task[q].order] = Absent)
                 => order'[task[q].order] = Absent,
           Informed(p)'
    PROVE  LockedInv'
<1>1. \A q \in Requests \ {p} : Informed(q)'
  BY OthersInformed
<1>2. \A q \in Requests : Informed(q)'
  BY <1>1
<1>3. TypeOK /\ LedgerInv /\ ShelfInv /\ HistoryBalanced /\ Transaction
  BY DEF TxInv, TxTypeOK, LockedInv, Transaction
<1>4. LedgerInv' /\ ShelfInv' /\ HistoryBalanced'
  BY <1>3, NextLedger, TradeShelf, NextBalanced
<1>5. \A q \in Requests : task'[q] \in Tasks[q]
  BY DEF LockedInv
<1>6. QED
  BY <1>2, <1>4, <1>5 DEF LockedInv

\* The insertion of a checkout that found no live order is the checkout of Orders.
LEMMA CheckoutIsTrade ==
    ASSUME OrdersAssumption, CatalogAssumption, OrderTxAssumption,
           TxInv, AllLock, LockedInv, NEW p \in Requests, CommitCheckout(p), ~Refuse(p)
    PROVE  /\ TradeStep
           /\ LockedInv'
<1> DEFINE o == task[p].order
           l == task[p].listing
           b == task[p].buyer
           row == [status |-> "PENDING_PAYMENT", listing |-> l, buyer |-> b, source |-> "FIXED_PRICE"]
<1>1. /\ o \in OrderIds /\ l \in Listings /\ b \in Users /\ TypeOK
      /\ task[p].op = "checkout" /\ session[p].pc = "insert" /\ Shelf(p) = l
      /\ order[o] = Absent
  BY LockedFacts, SessionFacts DEF CommitCheckout, At, Shelf, Informed, TxInv, TxTypeOK
<1>2. /\ Insertable(l, "FIXED_PRICE") /\ Available(p, l)
      /\ order' = [order EXCEPT ![o] = row]
      /\ listing' = [listing EXCEPT ![l] = "RESERVED"]
      /\ Record(o, {<<"NONE", "PENDING_PAYMENT">>})
      /\ UNCHANGED <<payment, result, auction, shipment, late, task>> /\ Answer(p)
  BY <1>1 DEF CommitCheckout
<1>3. listing[l] = "ACTIVE"
  <2>1. \A x \in OrderIds : Live(x) => order[x].listing # l
    BY <1>2 DEF Insertable, LiveOrders
  <2>2. ~OrderOn(l, {"PENDING_PAYMENT"}) /\ ~OrderOn(l, Sold)
    BY <2>1 DEF OrderOn, Live, Unpaid
  <2>3. QED
    BY <1>1, <2>2 DEF LockedInv, ShelfInv, OnSale
<1>4. b # SellerOf[l]
  BY <1>1 DEF OrderTxAssumption, LockedInv
<1>5. TradeStep
  <2>1. Checkout(o, l, b, "FIXED_PRICE")
    BY <1>1, <1>2, <1>3, <1>4 DEF Checkout, CreateOrder
  <2>2. "FIXED_PRICE" \in Sources
    BY DEF Sources
  <2>3. QED
    BY <1>1, <2>1, <2>2 DEF TradeStep
<1>6. /\ row.status = "PENDING_PAYMENT" /\ row.source = "FIXED_PRICE"
      /\ order'[o] = row /\ \A x \in OrderIds \ {o} : order'[x] = order[x]
      /\ listing'[l] = "RESERVED" /\ \A x \in Listings \ {l} : listing'[x] = listing[x]
  BY <1>1, <1>2 DEF TypeOK, CatalogTypeOK
<1> HIDE DEF row
<1>7. OnSale' /\ FixedPrice'
  BY <1>6 DEF LockedInv, OnSale, FixedPrice
<1>8. ASSUME NEW q \in Requests \ {p}, task[q].op = "checkout"
      PROVE  task[q].order # o
  BY <1>1, <1>8 DEF OrderTxAssumption, LockedInv
<1>9. order[o].status = "NONE"
  BY <1>1 DEF Absent
<1>10. lock[l] \notin Requests \ {p}
  BY <1>2 DEF Available, Free, OrderTxAssumption
<1>11. Informed(p)'
  BY <1>2, AnswerMeans, DoneInformed
<1>12. \A q \in Requests : task[q].order \in OrderIds
  BY SessionFacts
<1>13. \A q \in Requests \ {p} : session'[q] = session[q]
  BY <1>2, AnswerMeans
<1>14. \A x \in OrderIds \cup Listings : lock[x] \in Requests \ {p} => lock'[x] = lock[x]
  BY <1>2, AnswerMeans
<1>15. \A x \in Listings : lock[x] \in Requests \ {p} => listing'[x] = listing[x]
  BY <1>6, <1>10
<1>16. \A x \in OrderIds : order[x].status # "NONE" => order'[x] = order[x]
  BY <1>6, <1>9
<1>17. \A q \in Requests \ {p} :
          (task[q].op = "checkout" /\ order[task[q].order] = Absent)
             => order'[task[q].order] = Absent
  BY <1>6, <1>8, <1>12
<1>18. LockedInv'
  BY <1>2, <1>5, <1>7, <1>11, <1>13, <1>14, <1>15, <1>16, <1>17, CommitInformed
<1>19. QED
  BY <1>5, <1>18

\* A cancellation that holds the order writes what Orders writes.
LEMMA CancelIsTrade ==
    ASSUME OrdersAssumption, CatalogAssumption, OrderTxAssumption,
           TxInv, AllLock, LockedInv, NEW p \in Requests, CommitCancel(p)
    PROVE  /\ TradeStep
           /\ LockedInv'
<1> DEFINE o == session[p].order
           l == order[o].listing
           s == IF task[p].op = "checkout"
                THEN [session[p] EXCEPT !.pc = "refresh", !.act = "checkout"]
                ELSE [session[p] EXCEPT !.pc = "done"]
<1>1. /\ session[p] \in Session /\ o \in OrderIds /\ TypeOK /\ Informed(p)
      /\ session[p].pc = "commit" /\ lock[o] = p
      /\ session[p].seen = order[o].status /\ order[o].status \in Unpaid
      /\ session[p].shelf = IF session[p].seen = "PENDING_PAYMENT" THEN "RESERVED" ELSE "ACTIVE"
  BY LockedFacts DEF CommitCancel, At, Disciplined, Informed, TxInv, TxTypeOK
<1>2. /\ l \in Listings
      /\ listing[l] = IF order[o].status = "PENDING_PAYMENT" THEN "RESERVED" ELSE "ACTIVE"
  BY <1>1, ShelfOfUnpaid
<1>3. /\ SetStatus(o, "CANCELLED")
      /\ listing' = Restored(l)
      /\ listing[l] = "RESERVED" => Available(p, l)
      /\ Record(o, {<<order[o].status, "CANCELLED">>})
      /\ DropLocks(p) /\ UNCHANGED <<payment, result, auction, shipment, late, task>>
  BY <1>1, <1>2 DEF CommitCancel, Restored
<1>4. result' = Forfeited(order[o].source)
  <2>1. order[o].source = "FIXED_PRICE"
    BY <1>1 DEF LockedInv, FixedPrice, Unpaid
  <2>2. QED
    BY <1>3, <2>1 DEF Forfeited, OrdersAssumption
<1>5. TradeStep
  <2>1. CancelOrder(o)
    BY <1>1, <1>3, <1>4 DEF CancelOrder, Cancellable
  <2>2. QED
    BY <1>1, <2>1 DEF TradeStep
<1>6. /\ order'[o].status = "CANCELLED" /\ order'[o].source = order[o].source
      /\ \A x \in OrderIds \ {o} : order'[x] = order[x]
  BY <1>1, <1>3, StatusUpdate DEF Unpaid, OrderStatus
<1>7. /\ \A x \in Listings : listing'[x] \in {listing[x], "ACTIVE"}
      /\ \A x \in Listings \ {l} : listing'[x] = listing[x]
      /\ listing[l] # "RESERVED" => listing'[l] = listing[l]
  BY <1>1, <1>2, <1>3 DEF Restored, TypeOK, CatalogTypeOK
<1>8. OnSale' /\ FixedPrice'
  <2>1. OnSale'
    BY <1>7 DEF LockedInv, OnSale
  <2>2. FixedPrice'
    BY <1>1, <1>6 DEF LockedInv, FixedPrice, Unpaid
  <2>3. QED
    BY <2>1, <2>2
<1>9. s \in Session /\ s.pc = IF task[p].op = "checkout" THEN "refresh" ELSE "done"
  BY <1>1 DEF Session, Ops
<1>10. session' = [session EXCEPT ![p] = s]
  BY DEF CommitCancel, TxInv, TxTypeOK
<1> HIDE DEF s
<1>11. session'[p] = s /\ \A q \in Requests \ {p} : session'[q] = session[q]
  BY <1>9, <1>10, SessionMoves
<1>12. listing[l] = "RESERVED" => lock[l] \notin Requests \ {p}
  BY <1>3 DEF Available, Free, OrderTxAssumption
<1>13. \A x \in Listings : lock[x] \in Requests \ {p} => listing'[x] = listing[x]
  BY <1>7, <1>12
<1>14. \A x \in OrderIds : lock[x] \in Requests \ {p} => order'[x] = order[x]
  BY <1>1, <1>6
<1>15. \A x \in OrderIds, y \in Listings :
          (order[x].status = "PENDING_PAYMENT" /\ order[x].listing = y /\ lock[y] \in Requests \ {p})
             => order'[x] = order[x]
  BY <1>2, <1>6, <1>12
<1>16. \A q \in Requests : task[q].order \in OrderIds
  BY SessionFacts
<1>17. \A q \in Requests : order[task[q].order] = Absent => order'[task[q].order] = Absent
  <2>1. order[o] # Absent
    BY <1>1 DEF Absent, Unpaid
  <2>2. QED
    BY <1>6, <1>16, <2>1
<1>18. Informed(p)'
  BY <1>1, <1>3, <1>9, <1>11, <1>17 DEF Informed
<1>19. \A x \in OrderIds \cup Listings : lock[x] \in Requests \ {p} => lock'[x] = lock[x]
  BY <1>3, DropLocksMeans
<1>20. LockedInv'
  BY <1>3, <1>5, <1>8, <1>11, <1>13, <1>14, <1>15, <1>17, <1>18, <1>19, CommitInformed
<1>21. QED
  BY <1>5, <1>20

\* A payment attempt that holds the order writes what Orders writes.
LEMMA PaymentIsTrade ==
    ASSUME OrdersAssumption, CatalogAssumption, OrderTxAssumption,
           TxInv, AllLock, LockedInv, NEW p \in Requests, CommitPayment(p), ~Refuse(p)
    PROVE  /\ TradeStep
           /\ LockedInv'
<1> DEFINE o == session[p].order
           k == task[p].key
           l == order[o].listing
           ok == session[p].act = "pay"
           to == IF ok THEN "PAID" ELSE "PAYMENT_FAILED"
           shelved == IF ok THEN "SOLD" ELSE "ACTIVE"
<1>1. /\ session[p] \in Session /\ o \in OrderIds /\ k \in Keys /\ TypeOK
      /\ session[p].pc = "commit" /\ session[p].act \in {"pay", "decline"} /\ lock[o] = p
      /\ session[p].seen = order[o].status /\ order[o].status \in Unpaid
      /\ session[p].shelf = IF session[p].seen = "PENDING_PAYMENT" THEN "RESERVED" ELSE "ACTIVE"
  BY LockedFacts, SessionFacts DEF CommitPayment, At, Disciplined, Informed, TxInv, TxTypeOK
<1>2. /\ l \in Listings
      /\ listing[l] = IF order[o].status = "PENDING_PAYMENT" THEN "RESERVED" ELSE "ACTIVE"
  BY <1>1, ShelfOfUnpaid
<1>3. \/ ok /\ session[p].shelf # "SOLD"
      \/ session[p].seen = "PAYMENT_FAILED"
      \/ session[p].shelf = "RESERVED"
  BY <1>1 DEF Unpaid
<1>4. AttemptRows(p, to) = AttemptSteps(o, to)
  BY <1>1 DEF AttemptRows, AttemptSteps
<1>5. /\ PaymentFits(k, o, ok) /\ Available(p, l)
      /\ Pay(k, o, IF ok THEN "SUCCEEDED" ELSE "FAILED")
      /\ SetStatus(o, to)
      /\ listing' = [listing EXCEPT ![l] = shelved]
      /\ Record(o, AttemptSteps(o, to))
      /\ UNCHANGED task /\ Answer(p)
  BY <1>3, <1>4 DEF CommitPayment
<1>6. Attempt(o, k) /\ Owing(o)
  <2>1. ~Charged(o)
    BY <1>1 DEF LockedInv, LedgerInv, MoneyMatchesOrders, Unpaid, Sold
  <2>2. QED
    BY <1>1, <1>2, <1>5, <2>1 DEF Attempt, Owing, PaymentFits
<1>7. TradeStep
  <2>1. CASE ok
    <3>1. Paid(o, k)
      BY <1>5, <1>6, <2>1 DEF Paid
    <3>2. QED
      BY <1>1, <3>1 DEF TradeStep
  <2>2. CASE ~ok
    <3>1. order[o].status = "PAYMENT_FAILED" \/ listing[l] = "RESERVED"
      BY <1>1, <1>2 DEF Unpaid
    <3>2. Declined(o, k)
      BY <1>5, <1>6, <2>2, <3>1 DEF Declined
    <3>3. QED
      BY <1>1, <3>2 DEF TradeStep
  <2>3. QED
    BY <2>1, <2>2
<1>8. /\ order'[o].status # "NONE" /\ order'[o].source = order[o].source
      /\ \A x \in OrderIds \ {o} : order'[x] = order[x]
  BY <1>1, <1>5, StatusUpdate DEF Unpaid, OrderStatus
<1>9. /\ listing'[l] \in {"SOLD", "ACTIVE"}
      /\ \A x \in Listings \ {l} : listing'[x] = listing[x]
  BY <1>1, <1>2, <1>5 DEF TypeOK, CatalogTypeOK
<1>10. OnSale' /\ FixedPrice'
  <2>1. OnSale'
    BY <1>9 DEF LockedInv, OnSale
  <2>2. FixedPrice'
    BY <1>1, <1>8 DEF LockedInv, FixedPrice, Unpaid
  <2>3. QED
    BY <2>1, <2>2
<1>11. lock[l] \notin Requests \ {p}
  BY <1>5 DEF Available, Free, OrderTxAssumption
<1>12. \A x \in Listings : lock[x] \in Requests \ {p} => listing'[x] = listing[x]
  BY <1>9, <1>11
<1>13. \A x \in OrderIds : lock[x] \in Requests \ {p} => order'[x] = order[x]
  BY <1>1, <1>8
<1>14. \A x \in OrderIds, y \in Listings :
          (order[x].status = "PENDING_PAYMENT" /\ order[x].listing = y /\ lock[y] \in Requests \ {p})
             => order'[x] = order[x]
  BY <1>2, <1>8, <1>11
<1>15. \A q \in Requests : task[q].order \in OrderIds
  BY SessionFacts
<1>16. \A q \in Requests : order[task[q].order] = Absent => order'[task[q].order] = Absent
  <2>1. order[o] # Absent
    BY <1>1 DEF Absent, Unpaid
  <2>2. QED
    BY <1>8, <1>15, <2>1
<1>17. /\ Informed(p)'
       /\ \A q \in Requests \ {p} : session'[q] = session[q]
       /\ \A x \in OrderIds \cup Listings : lock[x] \in Requests \ {p} => lock'[x] = lock[x]
  BY <1>5, AnswerMeans, DoneInformed
<1>18. LockedInv'
  BY <1>5, <1>7, <1>10, <1>12, <1>13, <1>14, <1>16, <1>17, CommitInformed
<1>19. QED
  BY <1>7, <1>18

-----------------------------------------------------------------------------
(* All steps of requests that lock.                                        *)

\* Requests that lock never take the steps of those that do not.
LEMMA LockedSteps ==
    ASSUME TxInv, AllLock, LockedInv, NEW p \in Requests, Step(p)
    PROVE  \/ LockOrder(p) \/ RelockOrder(p) \/ ReadListing(p) \/ LockListing(p)
           \/ FindAbandoned(p) \/ RefreshListing(p) \/ CommitCheckout(p)
           \/ CommitCancel(p) \/ CommitPayment(p)
<1>1. session[p].act \in {"pay", "decline", "cancel", "checkout"}
  BY LockedFacts
<1>2. QED
  BY <1>1 DEF Step, LoadOrder, LoadListing, CommitFulfilment, CommitArchive, Moderate, At

LEMMA LockedStep ==
    ASSUME OrdersAssumption, CatalogAssumption, OrderTxAssumption,
           TxInv, AllLock, LockedInv, [TxNext]_txVars
    PROVE  /\ TradeStep
           /\ LockedInv'
<1>1. ASSUME NEW p \in Requests, Step(p), ~Refuse(p)
      PROVE  TradeStep /\ LockedInv'
  <2>1. CASE CommitCheckout(p) \/ CommitCancel(p) \/ CommitPayment(p)
    BY <1>1, <2>1, CheckoutIsTrade, CancelIsTrade, PaymentIsTrade
  <2>2. CASE \/ LockOrder(p) \/ RelockOrder(p) \/ ReadListing(p) \/ LockListing(p)
             \/ FindAbandoned(p) \/ RefreshListing(p)
    <3>1. UNCHANGED <<listing, order, payment, history>>
      BY <1>1, <2>2 DEF LockOrder, RelockOrder, ReadListing, LockListing, FindAbandoned,
         RefreshListing, vars
    <3>2. LockedInv'
      BY <2>2, LockOrderInformed, RelockOrderInformed, ReadListingInformed,
         LockListingInformed, FindAbandonedInformed, RefreshListingInformed
    <3>3. QED
      BY <3>1, <3>2 DEF TradeStep
  <2>3. QED
    BY <1>1, <2>1, <2>2, LockedSteps
<1>2. ASSUME NEW p \in Requests, Refuse(p)
      PROVE  TradeStep /\ LockedInv'
  <2>1. UNCHANGED <<listing, order, payment, history>>
    BY <1>2 DEF Refuse, vars
  <2>2. QED
    BY <1>2, <2>1, RefuseInformed DEF TradeStep
<1>3. CASE UNCHANGED <<listing, order, payment, history, task, session, lock>>
  <2>1. LedgerInv' /\ ShelfInv'
    BY <1>3 DEF LockedInv, LedgerInv, OneLiveOrder, Live, MoneyMatchesOrders, OneChargePerOrder,
       Charged, ShelfInv, OrderOn
  <2>2. HistoryBalanced' /\ OnSale' /\ FixedPrice'
    BY <1>3 DEF LockedInv, HistoryBalanced, Balanced, OnSale, FixedPrice
  <2>3. \A p \in Requests : task'[p] \in Tasks[p] /\ Informed(p)'
    BY <1>3 DEF LockedInv, Informed
  <2>4. QED
    BY <1>3, <2>1, <2>2, <2>3 DEF LockedInv, TradeStep
<1>4. QED
  BY <1>1, <1>2, <1>3, Zenon DEF TxNext, Abort, BreakDeadlock, Elapse, DeadlinePasses, txVars, vars

\* What a request was asked to do stays what it was.
LEMMA TaskFixed ==
    ASSUME [TxNext]_txVars
    PROVE  UNCHANGED task
<1>1. ASSUME NEW p \in Requests, Step(p)
      PROVE  UNCHANGED task
  BY <1>1 DEF Step, LoadOrder, LockOrder, RelockOrder, ReadListing, LoadListing,
     LockListing, FindAbandoned, RefreshListing, CommitCheckout, CommitCancel, CommitPayment,
     CommitFulfilment, CommitArchive, Moderate, Refuse
<1>2. QED
  BY <1>1 DEF TxNext, Abort, BreakDeadlock, Refuse, Elapse, txVars

LEMMA LockedInit ==
    ASSUME OrderTxAssumption, TxInit
    PROVE  LockedInv
<1>1. \A o \in OrderIds : order[o].status = IF o = FirstOrder THEN "PENDING_PAYMENT" ELSE "NONE"
  BY DEF TxInit, Absent
<1>2. \A o \in OrderIds : ~Charged(o)
  BY DEF TxInit, Charged, Absent
<1>3. LedgerInv
  BY <1>1, <1>2 DEF LedgerInv, OneLiveOrder, Live, Unpaid, Sold, MoneyMatchesOrders,
     OneChargePerOrder, TxInit, Absent
<1>4. order[FirstOrder].listing = FirstListing /\ order[FirstOrder].source = "FIXED_PRICE"
  BY DEF TxInit, OrderTxAssumption
<1>5. ShelfInv
  BY <1>1, <1>4 DEF ShelfInv, OrderOn, Sold, TxInit, OrderTxAssumption
<1>6. HistoryBalanced
  <2>1. Balanced(WithRows(NoRows, {<<"NONE", "PENDING_PAYMENT">>}), "PENDING_PAYMENT")
    BY DEF Balanced, WithRows, NoRows, OrderStatus
  <2>2. Balanced(NoRows, "NONE")
    BY DEF Balanced, NoRows, OrderStatus
  <2>3. QED
    BY <1>1, <2>1, <2>2 DEF HistoryBalanced, TxInit
<1>7. OnSale /\ FixedPrice
  BY <1>1, <1>4 DEF OnSale, FixedPrice, TxInit
<1>8. ASSUME NEW p \in Requests
      PROVE  task[p] \in Tasks[p] /\ Informed(p)
  <2>1. task[p] \in Tasks[p] /\ session[p].pc = "begin"
    BY DEF TxInit
  <2>2. task[p].op = "checkout" => task[p].order \in OrderIds /\ task[p].order # FirstOrder
    BY <2>1 DEF OrderTxAssumption, Task
  <2>3. task[p].op = "checkout" => order[task[p].order] = Absent
    BY <2>2 DEF TxInit
  <2>4. QED
    BY <2>1, <2>3 DEF Informed
<1>9. QED
  BY <1>3, <1>5, <1>6, <1>7, <1>8 DEF LockedInv

LEMMA LockedAlways == TxSpec => [](AllLock => LockedInv)
<1>1. TxInit => (AllLock => LockedInv)
  BY LockedInit, OrderTxAssumption
<1>2. TxInv /\ (AllLock => LockedInv) /\ [TxNext]_txVars => (AllLock => LockedInv)'
  <2> SUFFICES ASSUME TxInv, AllLock => LockedInv, [TxNext]_txVars, AllLock'
               PROVE  LockedInv'
    OBVIOUS
  <2>1. AllLock
    BY TaskFixed DEF AllLock
  <2>2. QED
    BY <2>1, LockedStep, OrdersAssumption, CatalogAssumption, OrderTxAssumption
<1>3. QED
  BY <1>1, <1>2, TxAlways, PTL DEF TxSpec

-----------------------------------------------------------------------------
(* What follows of requests that lock.                                     *)

\* While every request takes its row locks (pay_order and cancel_order_endpoint the order,
\* the checkouts the listing), any number of them leave listings, orders, payments and the
\* audit trail in agreement, however they interleave, die or break a deadlock.
THEOREM RowsAgreeCorrect == TxSpec => []LockedRowsAgree
<1>1. TxInv /\ (AllLock => LockedInv) => LockedRowsAgree
  <2> SUFFICES ASSUME TxInv, LockedInv
               PROVE  ReservationBacked /\ SoldBacked /\ MoneyMatchesOrders /\ HistoryBalanced
    BY DEF LockedRowsAgree
  <2>1. TypeOK /\ LedgerInv /\ ShelfInv /\ HistoryBalanced
    BY DEF TxInv, TxTypeOK, LockedInv
  <2>2. QED
    BY <2>1, ShelfSets DEF LedgerInv
<1>2. QED
  BY <1>1, TxAlways, LockedAlways, PTL

\* Overlapping requests that lock implement Sale step by step, as sequential ones do:
\* one holder at a time, charges only to the holder, charges final.
THEOREM SaleStepsCorrect == TxSpec => LockedSaleSteps
<1>1. /\ TxInv /\ (AllLock => LockedInv) /\ TxInv' /\ (AllLock => LockedInv)'
      /\ [TxNext]_txVars
      => [AllLock => Goods!Next]_<<HeldPairs, ChargedPairs>>
  <2> SUFFICES ASSUME TxInv, LockedInv, TxInv', (AllLock => LockedInv)', [TxNext]_txVars, AllLock
               PROVE  [Goods!Next]_<<HeldPairs, ChargedPairs>>
    OBVIOUS
  <2>1. TradeStep /\ LockedInv'
    BY LockedStep, OrdersAssumption, CatalogAssumption, OrderTxAssumption
  <2>2. TypeOK /\ LedgerInv /\ TypeOK' /\ LedgerInv' /\ Transaction
    BY <2>1 DEF TxInv, TxTypeOK, LockedInv, Transaction
  <2>3. QED
    BY <2>2, NextSale, OrdersAssumption, CatalogAssumption
<1>2. QED
  BY <1>1, TxAlways, LockedAlways, PTL DEF TxSpec, LockedSaleSteps

\* What the trade does to a paid order: it is never cancelled.
LEMMA TradeKeepsPaid ==
    ASSUME TypeOK, TradeStep, NEW o \in OrderIds, order[o].status \in Sold
    PROVE  order'[o].status # "CANCELLED"
<1>1. order[o] # Absent /\ order[o].status \notin Unpaid
  BY DEF Absent, Sold, Unpaid
<1>2. ASSUME NEW x \in OrderIds, NEW to \in OrderStatus, order[x].status # "NONE", SetStatus(x, to),
             to = "CANCELLED" => order[x].status \in Unpaid
      PROVE  order'[o].status # "CANCELLED"
  BY <1>1, <1>2, StatusUpdate DEF Sold
<1>3. ASSUME NEW x \in OrderIds, NEW l \in Listings, NEW b \in Users, NEW s \in Sources,
             Checkout(x, l, b, s)
      PROVE  order'[o].status # "CANCELLED"
  <2>1. order[x] = Absent /\ \A y \in OrderIds \ {x} : order'[y] = order[y]
    BY <1>3 DEF Checkout, CreateOrder, TypeOK
  <2> QED BY <1>1, <2>1 DEF Sold
<1>4. CASE \E x \in OrderIds : CancelOrder(x)
  BY <1>2, <1>4 DEF CancelOrder, Cancellable, Unpaid, OrderStatus
<1>5. CASE \E x \in OrderIds, k \in Keys : Paid(x, k) \/ Declined(x, k)
  BY <1>2, <1>5 DEF Paid, Declined, Owing, Unpaid, OrderStatus
<1>6. CASE \E x \in OrderIds : ShipOrder(x) \/ DeliverOrder(x)
  BY <1>2, <1>6 DEF ShipOrder, DeliverOrder, OrderStatus
<1>7. CASE UNCHANGED order
  BY <1>7 DEF Sold
<1> QED
  BY <1>3, <1>4, <1>5, <1>6, <1>7 DEF TradeStep

\* "Re-check under row lock so a concurrent payment/cancel wins cleanly" (views.py) is true while
\* every request locks first, payments and cancellations the order, checkouts the listing: none
\* of them cancels what has been paid.  The run on PaymentWins adds one that reads first.
THEOREM PaymentWinsAmongLockers ==
    TxSpec => [][AllLock => \A o \in OrderIds :
                    order[o].status \in Sold => order'[o].status # "CANCELLED"]_txVars
<1>1. TxInv /\ (AllLock => LockedInv) /\ [TxNext]_txVars
      => [AllLock => \A o \in OrderIds :
             order[o].status \in Sold => order'[o].status # "CANCELLED"]_txVars
  <2> SUFFICES ASSUME TxInv, LockedInv, [TxNext]_txVars, AllLock,
                      NEW o \in OrderIds, order[o].status \in Sold
               PROVE  order'[o].status # "CANCELLED"
    OBVIOUS
  <2>1. TradeStep /\ TypeOK
    BY LockedStep, OrdersAssumption, CatalogAssumption, OrderTxAssumption DEF TxInv, TxTypeOK
  <2> QED BY <2>1, TradeKeepsPaid
<1> QED
  BY <1>1, TxAlways, LockedAlways, PTL DEF TxSpec

=============================================================================
