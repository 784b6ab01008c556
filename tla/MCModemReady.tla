---------------------------- MODULE MCModemReady ----------------------------
(* Instances of ModemReady for TLC: two modems at the indices 0 and 1.  In *)
(* the first the PIN configured for index 1 is wrong, in the second both   *)
(* are right.                                                              *)
EXTENDS ModemReady, TLC

CONSTANTS a, b, other

HomeOfTwo == a :> 0 @@ b :> 1

OneRightPin == 0 :> a @@ 1 :> other

TwoRightPins == 0 :> a @@ 1 :> b
=============================================================================
