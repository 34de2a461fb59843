------------------------------ MODULE MCPayouts ------------------------------
(* Values of the constants of Payouts for TLC. *)
EXTENDS Payouts, TLC

CONSTANTS u1, u2, p1, p2, p3

TwoUsers    == (p1 :> u1) @@ (p2 :> u1) @@ (p3 :> u2)
OneOfPaypal == (p1 :> "paypal") @@ (p2 :> "mural") @@ (p3 :> "mural")
OneEach     == (u1 :> 1) @@ (u2 :> 1)
=============================================================================
