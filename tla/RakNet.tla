------------------------------- MODULE RakNet -------------------------------
(***************************************************************************)
(* The RakNet peer behind RakPeer (raknet_python.cpp), seen from the       *)
(* Python layer: the calls the layer makes on it, and the packets it hands *)
(* to receive().  The library itself is not part of this repository, so    *)
(* its own steps (a remote accepts, rejects, sends, leaves) are external:  *)
(* they are what the sink callbacks and the results handled in _peer.py    *)
(* presuppose.                                                             *)
(*                                                                         *)
(* A remote stands for one RakNet system, its address and its guid         *)
(* together.  A session is one establishment of a connection with a        *)
(* remote: RakNet reports a guid, never a session, so no guard and no      *)
(* handler reads it; it tells two connections of one remote apart in the   *)
(* properties.                                                             *)
(***************************************************************************)
EXTENDS Router, Sequences

CONSTANTS Remotes,       \* remote systems
          Sessions,      \* establishments of a connection, over the whole run
          Rejections,    \* ids a remote, or RakNet's own timers, end an attempt with
          MaxPackets     \* user packets are sent while fewer than this are queued

(* The packets that announce a session. *)
OpeningIds == {ID_NEW_INCOMING_CONNECTION, ID_CONNECTION_REQUEST_ACCEPTED}

(* What receive() returns, with the session it belongs to. *)
Packet == [id : Byte, from : Remotes, session : Sessions \cup {None}]

ASSUME RakNetAssumption ==
    /\ None \notin Remotes \cup Sessions \cup Byte \cup Packet
    /\ Rejections \subseteq DefaultMessageIDTypes \ (OpeningIds \cup {ID_USER_PACKET_ENUM})
    /\ MaxPackets \in Nat

VARIABLES raw,           \* RakNet's state of each remote system
          session,       \* the session open with each remote, if one is
          peerOf,        \* the remote of each session; None before it begins
          packets,       \* what receive() will return, in this order
          up             \* between startup and shutdown

rawVars == <<raw, session, peerOf, packets, up>>

RawStates == {"none", "connecting", "open", "closing"}

RakNetTypeOK ==
    /\ raw \in [Remotes -> RawStates]
    /\ session \in [Remotes -> Sessions \cup {None}]
    /\ peerOf \in [Sessions -> Remotes \cup {None}]
    /\ packets \in Seq(Packet)
    /\ up \in BOOLEAN

RakNetInit ==
    /\ raw = [r \in Remotes |-> "none"]
    /\ session = [r \in Remotes |-> None]
    /\ peerOf = [s \in Sessions |-> None]
    /\ packets = <<>>
    /\ up = TRUE

-----------------------------------------------------------------------------
(* Calls of the Python layer. *)

(* RakPeer.connect returns a ConnectionAttemptResult. *)
ConnectResult(r) ==
    CASE ~up                               -> "INVALID_PARAMETER"
      [] up /\ raw[r] = "connecting"       -> "CONNECTION_ATTEMPT_ALREADY_IN_PROGRESS"
      [] up /\ raw[r] \in {"open", "closing"} -> "ALREADY_CONNECTED_TO_ENDPOINT"
      [] up /\ raw[r] = "none"             -> "CONNECTION_ATTEMPT_STARTED"

RawConnect(r) ==
    /\ raw' = IF ConnectResult(r) = "CONNECTION_ATTEMPT_STARTED"
              THEN [raw EXCEPT ![r] = "connecting"] ELSE raw
    /\ UNCHANGED <<session, peerOf, packets, up>>

(* An attempt that is no longer in progress is not touched. *)
RawCancelConnectionAttempt(r) ==
    /\ raw' = IF raw[r] = "connecting" THEN [raw EXCEPT ![r] = "none"] ELSE raw
    /\ UNCHANGED <<session, peerOf, packets, up>>

(* With a notification the remote system stays until it is delivered, else *)
(* it is dropped at once and the loss reported.                            *)
RawCloseConnection(r, notify) ==
    \/ /\ raw[r] = "open" /\ notify
       /\ raw' = [raw EXCEPT ![r] = "closing"]
       /\ UNCHANGED <<session, peerOf, packets, up>>
    \/ /\ raw[r] = "open" /\ ~notify
       /\ raw' = [raw EXCEPT ![r] = "none"]
       /\ session' = [session EXCEPT ![r] = None]
       /\ packets' = Append(packets, [id |-> ID_CONNECTION_LOST, from |-> r,
                                      session |-> session[r]])
       /\ UNCHANGED <<peerOf, up>>
    \/ raw[r] # "open" /\ UNCHANGED rawVars

RawShutdown ==
    /\ up' = FALSE
    /\ raw' = [r \in Remotes |-> "none"]
    /\ session' = [r \in Remotes |-> None]
    /\ packets' = <<>>
    /\ UNCHANGED peerOf

RawReceive(p) ==
    /\ packets # <<>>
    /\ p = Head(packets)
    /\ packets' = Tail(packets)
    /\ UNCHANGED <<raw, session, peerOf, up>>

-----------------------------------------------------------------------------
(* RakNet's own steps. *)

Opens(r, s, mid) ==
    /\ peerOf[s] = None
    /\ raw' = [raw EXCEPT ![r] = "open"]
    /\ session' = [session EXCEPT ![r] = s]
    /\ peerOf' = [peerOf EXCEPT ![s] = r]
    /\ packets' = Append(packets, [id |-> mid, from |-> r, session |-> s])
    /\ UNCHANGED up

Ends(r, mid) ==
    /\ raw' = [raw EXCEPT ![r] = "none"]
    /\ session' = [session EXCEPT ![r] = None]
    /\ packets' = Append(packets, [id |-> mid, from |-> r, session |-> session[r]])
    /\ UNCHANGED <<peerOf, up>>

RemoteConnects(r, s) ==
    /\ up /\ raw[r] = "none"
    /\ Opens(r, s, ID_NEW_INCOMING_CONNECTION)

RemoteAccepts(r, s) ==
    /\ raw[r] = "connecting"
    /\ Opens(r, s, ID_CONNECTION_REQUEST_ACCEPTED)

RemoteRejects(r) ==
    /\ raw[r] = "connecting"
    /\ \E mid \in Rejections : Ends(r, mid)

RemoteSends(r) ==
    /\ raw[r] = "open"
    /\ Len(packets) < MaxPackets
    /\ packets' = Append(packets, [id |-> ID_USER_PACKET_ENUM, from |-> r,
                                   session |-> session[r]])
    /\ UNCHANGED <<raw, session, peerOf, up>>

RemoteLeaves(r) ==
    /\ raw[r] = "open"
    /\ \E mid \in {ID_DISCONNECTION_NOTIFICATION, ID_CONNECTION_LOST} : Ends(r, mid)

(* A local close that was announced to the remote ends with a packet too. *)
LocalCloseCompletes(r) ==
    /\ raw[r] = "closing"
    /\ Ends(r, ID_DISCONNECTION_NOTIFICATION)

RakNetStep ==
    \E r \in Remotes :
        \/ \E s \in Sessions : RemoteConnects(r, s) \/ RemoteAccepts(r, s)
        \/ RemoteRejects(r)
        \/ RemoteSends(r)
        \/ RemoteLeaves(r)
        \/ LocalCloseCompletes(r)
=============================================================================
