----------------------------- MODULE MCAsyncPeer -----------------------------
(* Instances of AsyncPeer for TLC. *)
EXTENDS AsyncPeer, TLC

CONSTANTS r1, c1, s1, s2, a1

OneTarget == (c1 :> r1)
=============================================================================
