----------------------------- MODULE MCSession -----------------------------
(* Session with two tabs of one browser and one account.                    *)
EXTENDS Session
=============================================================================
