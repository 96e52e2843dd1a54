-------------------------------- MODULE Site --------------------------------
(* Every page of the web client, by its name. *)
EXTENDS DeskPages, TradePages, ShopPages, ContactPages

Site ==
    [p \in DOMAIN Desk \cup DOMAIN Trade \cup DOMAIN Shop \cup DOMAIN Contact |->
        CASE p \in DOMAIN Desk -> Desk[p]
          [] p \in DOMAIN Trade -> Trade[p]
          [] p \in DOMAIN Shop -> Shop[p]
          [] p \in DOMAIN Contact -> Contact[p]]

=============================================================================
