------------------------------ MODULE MCOrderTx ------------------------------
(* OrderTx around one listing f, held by the unpaid order o1 of ann, which  *)
(* may be past its deadline.  The runs differ in who asks for what.         *)
EXTENDS OrderTx

CONSTANTS f, seller, ann, bob, cid, p1, p2, p3, p4, o1, o2, o3, k1, k2, k3, k4

MCSellerOf == [l \in {f} |-> seller]
NoOffers == [x \in {} |-> f]

Ask(op, o, buyer, k) == [op |-> op, order |-> o, listing |-> f, buyer |-> buyer, key |-> k]

\* Every operation, those that take row locks and those that do not.
AllTasks ==
    [p \in {p1, p2, p3, p4} |->
       CASE p = p1 -> {Ask("pay", o1, ann, k1), Ask("decline", o1, ann, k1),
                       Ask("cancel", o1, ann, k1), Ask("remove", o1, ann, k1)}
         [] p = p2 -> {Ask("read", o1, ann, k2), Ask("pay", o1, ann, k2),
                       Ask("cancel", o1, ann, k2), Ask("decline", o1, ann, k2),
                       Ask("archive", o1, ann, k2), Ask("restore", o1, ann, k2)}
         [] p = p3 -> {Ask("checkout", o2, bob, k3), Ask("ship", o1, ann, k3)}
         [] p = p4 -> {Ask("checkout", o3, cid, k4), Ask("deliver", o1, ann, k4),
                       Ask("pay", o2, bob, k4), Ask("cancel", o2, bob, k4),
                       Ask("read", o1, ann, k4)}]

\* A payment and a reader of a past-due order.
PaymentAndRead ==
    [p \in {p1, p2} |->
       IF p = p1 THEN {Ask("pay", o1, ann, k1)} ELSE {Ask("read", o1, ann, k2)}]
=============================================================================
