------------------------------ MODULE MCDelivery ------------------------------
EXTENDS Delivery, TLC

CONSTANTS m1, m2, m3, k1, k2, t1, t2

(* Two notifications about one pull request share their key.               *)
MCKey   == (m1 :> k1) @@ (m2 :> k1) @@ (m3 :> k2)
MCClass == (m1 :> "steering") @@ (m2 :> "steering") @@ (m3 :> "follow_up")
=============================================================================
