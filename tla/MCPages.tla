------------------------------ MODULE MCPages ------------------------------
(* Every page of the client, each with two rows: what one page can confuse. *)
EXTENDS Pages, Site

=============================================================================
