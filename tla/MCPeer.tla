------------------------------- MODULE MCPeer -------------------------------
(* Instances of Peer for TLC. *)
EXTENDS PeerInvariants, TLC

CONSTANTS r1, r2, c1, c2, s1, s2, a1, a2

(* One remote, one call to it: the whole life of one connection. *)
NoTarget == [c \in {} |-> r1]
OneTarget == (c1 :> r1)

(* Two calls to different remotes. *)
TwoTargets == (c1 :> r1 @@ c2 :> r2)

(* Two calls to the same remote. *)
SameTarget == (c1 :> r1 @@ c2 :> r1)

(* Sessions differ in nothing but their name. *)
SessionSymmetry == Permutations(Sessions)

(* Only the threads of present take part: the product of all of them does  *)
(* not end in the time a run has.  The others have ended from the start.   *)
Present(present) ==
    pc = [t \in Threads |-> IF t \in present \cup Sessions THEN "idle" ELSE "raised"]

RoleInit == CoreInit /\ \E present \in {Calls, Acceptors} : Present(present)

RoleSpec == RoleInit /\ [][Next]_vars

RoleFairSpec == RoleSpec /\ Fairness
=============================================================================
