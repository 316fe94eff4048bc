----------------------------- MODULE MCPeerCore -----------------------------
(* The two scenes of the run peer_core. *)
EXTENDS MCPeer

VARIABLE scene

(* "one": all that r1 does, against a call or an acceptor.  "two": r1 and  *)
(* r2 are dialled by a call each and connect, and send nothing.            *)
SceneInit ==
    /\ CoreInit
    /\ \/ scene = "one" /\ \E present \in {{c1}, Acceptors} : Present(present)
       \/ scene = "two" /\ Present(Calls)

(* What the network does not do in the scene. *)
InScene ==
    CASE scene = "one" -> raw[r2] = "none"
      [] scene = "two" -> \A i \in DOMAIN packets :
                              packets[i].id \notin Rejections \cup {ID_USER_PACKET_ENUM}

SceneNext == Next /\ UNCHANGED scene /\ InScene'

SceneSpec == SceneInit /\ [][SceneNext]_<<vars, scene>>
=============================================================================
