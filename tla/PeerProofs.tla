----------------------------- MODULE PeerProofs -----------------------------
(***************************************************************************)
(* Theorems about Peer, for any number of remotes, sessions, connect()     *)
(* calls and accept() threads, any bound of the queues, and any sequence   *)
(* of packets.                                                             *)
(***************************************************************************)
EXTENDS PeerInvariants, SequenceTheorems, TLAPS

-----------------------------------------------------------------------------
(* Constants. *)

LEMMA NoneIsNothing ==
    /\ None \notin Remotes /\ None \notin Sessions /\ None \notin Calls
    /\ None \notin Byte /\ None \notin Packet
BY RakNetAssumption, CallsAssumption

LEMMA IdValues ==
    /\ Byte \subseteq Nat
    /\ DefaultMessageIDTypes \subseteq Byte
    /\ Rejections \subseteq Byte
    /\ CONNECT_FAILURES \subseteq DefaultMessageIDTypes
    /\ {ID_NEW_INCOMING_CONNECTION, ID_CONNECTION_REQUEST_ACCEPTED, ID_CONNECTION_LOST,
        ID_DISCONNECTION_NOTIFICATION, ID_USER_PACKET_ENUM} \subseteq Byte
    /\ ID_CONNECTION_ATTEMPT_FAILED \in DefaultMessageIDTypes
    /\ Rejections \cap OpeningIds = {}
    /\ \A mid \in Rejections : mid < ID_USER_PACKET_ENUM
    /\ ID_CONNECTION_LOST \notin OpeningIds /\ ID_DISCONNECTION_NOTIFICATION \notin OpeningIds
    /\ ID_USER_PACKET_ENUM \notin OpeningIds
<1>. USE DEF Byte, DefaultMessageIDTypes, CONNECT_FAILURES, OpeningIds,
             ID_NEW_INCOMING_CONNECTION, ID_CONNECTION_REQUEST_ACCEPTED, ID_CONNECTION_LOST,
             ID_DISCONNECTION_NOTIFICATION, ID_USER_PACKET_ENUM, ID_CONNECTION_ATTEMPT_FAILED,
             ID_ALREADY_CONNECTED, ID_NO_FREE_INCOMING_CONNECTIONS, ID_CONNECTION_BANNED,
             ID_INVALID_PASSWORD, ID_INCOMPATIBLE_PROTOCOL_VERSION, ID_IP_RECENTLY_CONNECTED
<1>1. DefaultMessageIDTypes \subseteq Byte /\ Byte \subseteq Nat OBVIOUS
<1>2. /\ Rejections \subseteq DefaultMessageIDTypes
      /\ Rejections \cap OpeningIds = {}
      /\ ID_USER_PACKET_ENUM \notin Rejections
  BY RakNetAssumption
<1>3. \A mid \in Rejections : mid < ID_USER_PACKET_ENUM BY <1>1, <1>2
<1>. QED BY <1>1, <1>2, <1>3

(* Where Router.route sends a packet tells what kind of packet it is. *)
LEMMA RouteProperties ==
    ASSUME NEW mid \in Byte
    PROVE  /\ Route(mid) \in {"ignored", "pong", "incoming_connection", "connect_succeeded",
                              "connect_failed", "message", "disconnected"}
           /\ Route(mid) \in OpeningPcs => mid \in OpeningIds
           /\ Route(mid) \in FailedPcs => mid \in CONNECT_FAILURES
           /\ Route(mid) \in MessagePcs => mid >= ID_USER_PACKET_ENUM
           /\ mid \in OpeningIds => Route(mid) \in {"incoming_connection", "connect_succeeded"}
<1>1. mid # None BY NoneIsNothing
<1>2. mid \in Nat BY IdValues
<1>. QED BY <1>1, <1>2
     DEF Route, OpeningPcs, FailedPcs, MessagePcs, OpeningIds, Byte, CONNECT_FAILURES,
         ID_NEW_INCOMING_CONNECTION, ID_CONNECTION_REQUEST_ACCEPTED, ID_CONNECTION_LOST,
         ID_DISCONNECTION_NOTIFICATION, ID_USER_PACKET_ENUM, ID_CONNECTION_ATTEMPT_FAILED,
         ID_ALREADY_CONNECTED, ID_NO_FREE_INCOMING_CONNECTIONS, ID_CONNECTION_BANNED,
         ID_INVALID_PASSWORD, ID_INCOMPATIBLE_PROTOCOL_VERSION, ID_IP_RECENTLY_CONNECTED,
         ID_UNCONNECTED_PONG

LEMMA PacketProperties ==
    ASSUME NEW p \in Packet
    PROVE  p.id \in Byte /\ p.from \in Remotes /\ p.session \in Sessions \cup {None}
BY DEF Packet

LEMMA MakePacket ==
    ASSUME NEW mid \in Byte, NEW r \in Remotes, NEW s \in Sessions \cup {None}
    PROVE  [id |-> mid, from |-> r, session |-> s] \in Packet
BY DEF Packet

-----------------------------------------------------------------------------
(* RakNet: its own steps and the calls of the layer keep its part of the   *)
(* invariant, and no session ever changes its remote.                      *)

Grows == \A s \in Sessions : peerOf[s] # None => peerOf'[s] = peerOf[s]

LEMMA PacketStaysOK ==
    ASSUME Grows, NEW p \in Packet, PacketOK(p)
    PROVE  PacketOK(p)'
<1>1. p.from # None /\ p.session \in Sessions \cup {None}
  BY PacketProperties, NoneIsNothing
<1>. QED BY <1>1 DEF Grows, PacketOK

LEMMA PacketsAppended ==
    ASSUME RakOK, Grows, NEW p \in Packet, PacketOK(p)', packets' = Append(packets, p)
    PROVE  packets' \in Seq(Packet) /\ PacketsOK'
<1>1. packets \in Seq(Packet) BY DEF RakOK, RakNetTypeOK
<1>2. /\ packets' \in Seq(Packet)
      /\ Len(packets) \in Nat /\ Len(packets') = Len(packets) + 1
      /\ \A i \in 1 .. Len(packets) : packets'[i] = packets[i]
      /\ packets'[Len(packets) + 1] = p
  BY <1>1, AppendProperties, LenProperties
<1>3. \A i \in 1 .. Len(packets) : packets[i] \in Packet /\ PacketOK(packets[i])
  BY <1>1, ElementOfSeq DEF RakOK, RakInv, PacketsOK
<1>4. ASSUME NEW i \in 1 .. Len(packets') PROVE PacketOK(packets[i])'
  <2>1. CASE i \in 1 .. Len(packets)
    <3>1. PICK q \in Packet : PacketOK(q) /\ packets'[i] = q BY <2>1, <1>2, <1>3
    <3>. QED BY <3>1, PacketStaysOK DEF PacketOK
  <2>2. CASE i = Len(packets) + 1 BY <2>2, <1>2 DEF PacketOK
  <2>. QED BY <2>1, <2>2, <1>2
<1>. QED BY <1>2, <1>4 DEF PacketsOK

LEMMA PacketsKept ==
    ASSUME RakOK, Grows, UNCHANGED packets
    PROVE  packets' \in Seq(Packet) /\ PacketsOK'
<1>1. packets \in Seq(Packet) BY DEF RakOK, RakNetTypeOK
<1>2. \A i \in 1 .. Len(packets) : packets[i] \in Packet /\ PacketOK(packets[i])
  BY <1>1, ElementOfSeq DEF RakOK, RakInv, PacketsOK
<1>3. ASSUME NEW i \in 1 .. Len(packets') PROVE PacketOK(packets[i])'
  <2>1. PICK q \in Packet : PacketOK(q) /\ packets'[i] = q BY <1>2, <1>3
  <2>. QED BY <2>1, PacketStaysOK DEF PacketOK
<1>. QED BY <1>1, <1>3 DEF PacketsOK

LEMMA RakUnchanged ==
    ASSUME RakOK, UNCHANGED rawVars
    PROVE  RakOK' /\ Grows
<1>1. Grows BY DEF Grows, rawVars
<1>2. UNCHANGED packets BY DEF rawVars
<1>. QED BY <1>1, <1>2, PacketsKept DEF RakOK, RakNetTypeOK, RakInv, rawVars

LEMMA RawConnectOK ==
    ASSUME RakOK, NEW r \in Remotes, RawConnect(r)
    PROVE  RakOK' /\ Grows
<1>1. Grows BY DEF Grows, RawConnect
<1>2. raw' \in [Remotes -> RawStates] BY DEF RawConnect, RakOK, RakNetTypeOK, RawStates
<1>3. \A q \in Remotes : raw'[q] \in {"open", "closing"} => raw[q] \in {"open", "closing"}
  BY DEF RawConnect, RakOK, RakNetTypeOK
<1>. QED BY <1>1, <1>2, <1>3, PacketsKept DEF RawConnect, RakOK, RakNetTypeOK, RakInv

LEMMA RawCancelOK ==
    ASSUME RakOK, NEW r \in Remotes, RawCancelConnectionAttempt(r)
    PROVE  RakOK' /\ Grows
<1>1. Grows BY DEF Grows, RawCancelConnectionAttempt
<1>2. raw' \in [Remotes -> RawStates]
  BY DEF RawCancelConnectionAttempt, RakOK, RakNetTypeOK, RawStates
<1>3. \A q \in Remotes : raw'[q] \in {"open", "closing"} => raw[q] \in {"open", "closing"}
  BY DEF RawCancelConnectionAttempt, RakOK, RakNetTypeOK
<1>. QED BY <1>1, <1>2, <1>3, PacketsKept
     DEF RawCancelConnectionAttempt, RakOK, RakNetTypeOK, RakInv

LEMMA EndsOK ==
    ASSUME RakOK, NEW r \in Remotes, NEW mid \in Byte, Ends(r, mid),
           session[r] # None \/ mid \in Rejections
    PROVE  RakOK' /\ Grows
<1>1. Grows BY DEF Grows, Ends
<1>2. PICK p \in Packet : p = [id |-> mid, from |-> r, session |-> session[r]]
  BY MakePacket DEF RakOK, RakNetTypeOK
<1>3. PacketOK(p)' BY <1>2 DEF PacketOK, Ends, RakOK, RakNetTypeOK, RakInv
<1>4. packets' = Append(packets, p) BY <1>2 DEF Ends
<1>5. packets' \in Seq(Packet) /\ PacketsOK' BY <1>1, <1>3, <1>4, PacketsAppended
<1>6. RakNetTypeOK' BY <1>5 DEF Ends, RakOK, RakNetTypeOK, RawStates
<1>7. \A q \in Remotes : q # r => raw'[q] = raw[q] /\ session'[q] = session[q]
  BY DEF Ends, RakOK, RakNetTypeOK
<1>8. raw'[r] = "none" /\ session'[r] = None /\ peerOf' = peerOf
  BY DEF Ends, RakOK, RakNetTypeOK
<1>9. \A q \in Remotes : raw'[q] \in {"open", "closing"} => session'[q] # None
  BY <1>7, <1>8 DEF RakOK, RakInv
<1>10. \A q \in Remotes : session'[q] # None => peerOf'[session'[q]] = q
  BY <1>7, <1>8 DEF RakOK, RakInv
<1>. QED BY <1>1, <1>5, <1>6, <1>9, <1>10 DEF RakOK, RakInv

LEMMA RawCloseOK ==
    ASSUME RakOK, NEW r \in Remotes, NEW notify \in BOOLEAN, RawCloseConnection(r, notify)
    PROVE  RakOK' /\ Grows
<1>1. CASE raw[r] = "open" /\ raw' = [raw EXCEPT ![r] = "closing"]
           /\ UNCHANGED <<session, peerOf, packets, up>>
  <2>1. Grows BY <1>1 DEF Grows
  <2>. QED BY <1>1, <2>1, PacketsKept DEF RakOK, RakNetTypeOK, RakInv, RawStates
<1>2. CASE raw[r] = "open" /\ Ends(r, ID_CONNECTION_LOST)
  <2>1. session[r] # None BY <1>2 DEF RakOK, RakInv
  <2>. QED BY <1>2, <2>1, EndsOK, IdValues
<1>3. CASE UNCHANGED rawVars BY <1>3, RakUnchanged
<1>. QED BY <1>1, <1>2, <1>3 DEF RawCloseConnection, Ends

LEMMA RawShutdownOK ==
    ASSUME RakOK, RawShutdown
    PROVE  RakOK' /\ Grows
<1>1. Grows BY DEF Grows, RawShutdown
<1>2. packets' \in Seq(Packet) /\ Len(packets') = 0 BY EmptySeq DEF RawShutdown
<1>3. PacketsOK' BY <1>2 DEF PacketsOK
<1>4. RakNetTypeOK' BY <1>2 DEF RawShutdown, RakOK, RakNetTypeOK, RawStates
<1>5. \A q \in Remotes : raw'[q] = "none" /\ session'[q] = None BY DEF RawShutdown
<1>6. RakInv' BY <1>3, <1>5 DEF RakInv
<1>. QED BY <1>1, <1>4, <1>6 DEF RakOK

LEMMA RawReceiveOK ==
    ASSUME RakOK, NEW p, RawReceive(p)
    PROVE  RakOK' /\ Grows /\ p \in Packet /\ PacketOK(p) /\ PacketOK(p)'
<1>1. Grows BY DEF Grows, RawReceive
<1>2. packets \in Seq(Packet) /\ packets # <<>> /\ p = Head(packets) /\ packets' = Tail(packets)
  BY DEF RawReceive, RakOK, RakNetTypeOK
<1>3. /\ packets' \in Seq(Packet)
      /\ Len(packets) \in Nat /\ Len(packets) # 0 /\ Len(packets') = Len(packets) - 1
      /\ \A i \in 1 .. Len(packets') : packets'[i] = packets[i + 1]
      /\ Head(packets) = packets[1]
  BY <1>2, HeadTailProperties, LenProperties, EmptySeq
<1>4. p = packets[1] /\ p \in Packet /\ PacketOK(p)
  <2>1. 1 \in 1 .. Len(packets) BY <1>3
  <2>. QED BY <1>2, <1>3, <2>1, ElementOfSeq DEF RakOK, RakInv, PacketsOK
<1>5. ASSUME NEW i \in 1 .. Len(packets') PROVE PacketOK(packets[i])'
  <2>1. i + 1 \in 1 .. Len(packets) /\ packets'[i] = packets[i + 1] BY <1>3
  <2>2. PICK q \in Packet : PacketOK(q) /\ packets'[i] = q
    BY <1>2, <2>1, ElementOfSeq DEF RakOK, RakInv, PacketsOK
  <2>. QED BY <2>1, <2>2, <1>1, PacketStaysOK DEF PacketOK
<1>. QED BY <1>1, <1>3, <1>4, <1>5, PacketStaysOK
     DEF RawReceive, RakOK, RakNetTypeOK, RakInv, PacketsOK

LEMMA OpensOK ==
    ASSUME RakOK, NEW r \in Remotes, NEW s \in Sessions, NEW mid \in OpeningIds, Opens(r, s, mid)
    PROVE  RakOK' /\ Grows
<1>1. Grows BY DEF Grows, Opens, RakOK, RakNetTypeOK
<1>2. PICK p \in Packet : p = [id |-> mid, from |-> r, session |-> s]
  BY MakePacket, IdValues DEF OpeningIds
<1>3. PacketOK(p)' BY <1>2, NoneIsNothing DEF PacketOK, Opens, RakOK, RakNetTypeOK
<1>4. packets' = Append(packets, p) BY <1>2 DEF Opens
<1>5. packets' \in Seq(Packet) /\ PacketsOK' BY <1>1, <1>3, <1>4, PacketsAppended
<1>. QED BY <1>1, <1>5, NoneIsNothing DEF Opens, RakOK, RakNetTypeOK, RakInv, RawStates

LEMMA RakNetStepOK ==
    ASSUME RakOK, RakNetStep
    PROVE  RakOK' /\ Grows
<1>1. ASSUME NEW r \in Remotes, NEW s \in Sessions, RemoteConnects(r, s) \/ RemoteAccepts(r, s)
      PROVE  RakOK' /\ Grows
  BY <1>1, OpensOK DEF RemoteConnects, RemoteAccepts, OpeningIds
<1>2. ASSUME NEW r \in Remotes, RemoteRejects(r) PROVE RakOK' /\ Grows
  BY <1>2, EndsOK, IdValues DEF RemoteRejects
<1>3. ASSUME NEW r \in Remotes, RemoteSends(r) PROVE RakOK' /\ Grows
  <2>1. Grows BY <1>3 DEF Grows, RemoteSends
  <2>2. session[r] \in Sessions BY <1>3 DEF RemoteSends, RakOK, RakNetTypeOK, RakInv
  <2>3. PICK p \in Packet : p = [id |-> ID_USER_PACKET_ENUM, from |-> r, session |-> session[r]]
    BY <2>2, MakePacket, IdValues
  <2>4. PacketOK(p)' BY <1>3, <2>2, <2>3, NoneIsNothing DEF PacketOK, RemoteSends, RakOK, RakInv
  <2>5. packets' = Append(packets, p) BY <1>3, <2>3 DEF RemoteSends
  <2>6. packets' \in Seq(Packet) /\ PacketsOK' BY <2>1, <2>4, <2>5, PacketsAppended
  <2>. QED BY <1>3, <2>1, <2>6 DEF RemoteSends, RakOK, RakNetTypeOK, RakInv
<1>4. ASSUME NEW r \in Remotes, RemoteLeaves(r) \/ LocalCloseCompletes(r)
      PROVE  RakOK' /\ Grows
  <2>1. session[r] # None BY <1>4 DEF RemoteLeaves, LocalCloseCompletes, RakOK, RakInv
  <2>. QED BY <1>4, <2>1, EndsOK, IdValues DEF RemoteLeaves, LocalCloseCompletes
<1>. QED BY <1>1, <1>2, <1>3, <1>4 DEF RakNetStep

-----------------------------------------------------------------------------
(* What each part of BaseInv needs of a step to survive it.                *)

LEMMA KnownStays ==
    ASSUME Grows, NEW s \in Sessions, Known(s)
    PROVE  Known(s)'
BY DEF Grows, Known

LEMMA TablesKept ==
    ASSUME TablesOK, Grows, UNCHANGED tableVars
    PROVE  TablesOK'
<1>1. UNCHANGED <<connections, pendingConnects, evicted>> BY DEF tableVars
<1>2. ASSUME NEW r \in Remotes, connections[r] # None PROVE peerOf'[connections[r]] = r
  <2>1. connections[r] \in Sessions /\ peerOf[connections[r]] = r /\ r # None
    BY <1>2, NoneIsNothing DEF TablesOK, TableTypeOK, TableInv
  <2>. QED BY <2>1 DEF Grows
<1>. QED BY <1>1, <1>2 DEF TablesOK, TableTypeOK, TableInv

LEMMA ObjectsKept ==
    ASSUME ObjectsOK, Grows, UNCHANGED objectVars
    PROVE  ObjectsOK'
<1>1. UNCHANGED <<pending, connState, mailbox>> BY DEF objectVars
<1>2. ASSUME NEW c \in Calls, pending[c].connection # None
      PROVE  peerOf'[pending[c].connection] # None
  <2>1. pending[c].connection \in Sessions /\ Known(pending[c].connection)
    BY <1>2 DEF ObjectsOK, ObjectTypeOK, ObjectInv, PendingConnect
  <2>. QED BY <2>1, KnownStays DEF Known
<1>. QED BY <1>1, <1>2 DEF ObjectsOK, ObjectTypeOK, ObjectInv, Known

LEMMA QueueKept ==
    ASSUME QueueOK, Grows, UNCHANGED acceptQueue
    PROVE  QueueOK'
<1>1. ASSUME NEW i \in 1 .. Len(acceptQueue), acceptQueue[i] # None
      PROVE  peerOf'[acceptQueue[i]] # None
  <2>1. acceptQueue[i] \in Sessions
    BY <1>1, ElementOfSeq DEF QueueOK, QueueTypeOK
  <2>. QED BY <1>1, <2>1, KnownStays DEF QueueOK, QueueInv, Known
<1>. QED BY <1>1 DEF QueueOK, QueueTypeOK, QueueInv, Known

LEMMA HandsKept ==
    ASSUME PumpOK, Grows, packet' \in {packet, None}, found' \in {found, None}
    PROVE  HandsInv'
<1>1. ASSUME packet # None PROVE PacketOK(packet) /\ packet \in Packet
  BY <1>1 DEF PumpOK, PumpTypeOK, HandsInv
<1>2. ASSUME packet' # None PROVE PacketOK(packet)'
  <2>1. PICK p \in Packet : PacketOK(p) /\ packet' = p BY <1>1, <1>2
  <2>. QED BY <2>1, PacketStaysOK DEF PacketOK
<1>3. ASSUME found' # None PROVE Known(found)'
  <2>1. found' = found /\ found \in Sessions /\ Known(found)
    BY <1>3 DEF PumpOK, PumpTypeOK, HandsInv
  <2>. QED BY <2>1, KnownStays DEF Known
<1>. QED BY <1>2, <1>3 DEF HandsInv

LEMMA PumpKept ==
    ASSUME PumpOK, Grows, UNCHANGED pumpVars
    PROVE  PumpOK'
<1>1. UNCHANGED <<pumpPc, packet, popped, found>> BY DEF pumpVars
<1>. QED BY <1>1, HandsKept DEF PumpOK, PumpTypeOK, PumpInv

LEMMA PumpReturnsOK ==
    ASSUME PumpReturns
    PROVE  PumpOK'
BY DEF PumpReturns, PumpOK, PumpTypeOK, PumpInv, HandsInv, PumpStates, OpeningPcs, FailedPcs,
       MessagePcs, PendingPcs, FoundPcs, IdlePcs

LEMMA CloseKept ==
    ASSUME CloseOK, UNCHANGED closeVars,
           pumpPc' = pumpPc \/ pumpPc \notin {"exited", "failing"}
    PROVE  CloseOK'
BY DEF CloseOK, CloseTypeOK, CloseInv, closeVars

LEMMA ThreadsKept ==
    ASSUME ThreadsOK, Grows, UNCHANGED pc,
           \A c \in Calls : pending[c].connection # None => pending'[c].connection # None
    PROVE  ThreadsOK'
BY KnownStays DEF ThreadsOK, ThreadTypeOK, ThreadInv

LEMMA GrowsTrivially ==
    ASSUME UNCHANGED rawVars
    PROVE  Grows
BY DEF Grows, rawVars

(* What the pump holds, from the step it is at. *)
LEMMA PumpHolds ==
    ASSUME RakOK, PumpOK
    PROVE  /\ pumpPc \in OpeningPcs \cup FailedPcs \cup MessagePcs \cup
                 {"disconnected", "disconnected_mark", "disconnected_mailbox"} =>
                 packet \in Packet /\ PacketOK(packet)
           /\ pumpPc \in OpeningPcs \cup MessagePcs =>
                 packet.session \in Sessions /\ peerOf[packet.session] = packet.from
           /\ pumpPc \in FoundPcs => found \in Sessions /\ Known(found)
           /\ pumpPc \in PendingPcs => popped \in Calls
<1>. USE DEF PumpOK, PumpTypeOK, PumpInv, HandsInv
<1>1. ASSUME pumpPc \in OpeningPcs \cup FailedPcs \cup MessagePcs \cup
                 {"disconnected", "disconnected_mark", "disconnected_mailbox"}
      PROVE  packet \in Packet /\ PacketOK(packet)
  BY <1>1 DEF OpeningPcs, FailedPcs, MessagePcs, IdlePcs
<1>2. ASSUME pumpPc \in OpeningPcs \cup MessagePcs
      PROVE  packet.session \in Sessions /\ peerOf[packet.session] = packet.from
  <2>1. packet \in Packet /\ PacketOK(packet) BY <1>1, <1>2
  <2>2. packet.id \in OpeningIds \/ packet.id >= ID_USER_PACKET_ENUM BY <1>2
  <2>3. packet.id \notin Rejections
    <3>1. packet.id \in Nat /\ ID_USER_PACKET_ENUM \in Nat BY <2>1, PacketProperties, IdValues
    <3>2. ASSUME NEW mid \in Rejections PROVE mid \in Nat /\ mid < ID_USER_PACKET_ENUM
      BY IdValues
    <3>. QED BY <2>2, <3>1, <3>2, IdValues
  <2>. QED BY <2>1, <2>3, PacketProperties DEF PacketOK
<1>3. pumpPc \in FoundPcs => found \in Sessions /\ Known(found) OBVIOUS
<1>4. pumpPc \in PendingPcs => popped \in Calls OBVIOUS
<1>. QED BY <1>1, <1>2, <1>3, <1>4

LEMMA PumpGoesOK ==
    ASSUME PumpOK, Grows, NEW step \in PumpStates, PumpGoesTo(step),
           step \in IdlePcs <=> pumpPc \in IdlePcs,
           step \in PendingPcs <=> pumpPc \in PendingPcs,
           step \in FoundPcs <=> pumpPc \in FoundPcs,
           step \in OpeningPcs => pumpPc \in OpeningPcs,
           step \in FailedPcs => pumpPc \in FailedPcs,
           step \in MessagePcs => pumpPc \in MessagePcs
    PROVE  PumpOK'
<1>1. HandsInv' BY HandsKept DEF PumpGoesTo
<1>. QED BY <1>1 DEF PumpGoesTo, PumpOK, PumpTypeOK, PumpInv

(* The sets of steps of PumpInv, for the leaves about a single step. *)
LEMMA PumpLeaves ==
    /\ \A step \in {"check", "receive", "crashed", "failing", "exited"} :
          /\ step \in PumpStates /\ step \in IdlePcs
          /\ step \notin OpeningPcs \cup FailedPcs \cup MessagePcs \cup PendingPcs \cup FoundPcs
    /\ \A step \in {"overflow_pop", "overflow_mark", "overflow_hangup", "overflow_mailbox",
                    "disconnected_mark", "disconnected_mailbox"} :
          /\ step \in PumpStates /\ step \in FoundPcs
          /\ step \notin OpeningPcs \cup FailedPcs \cup MessagePcs \cup PendingPcs \cup IdlePcs
    /\ \A step \in {"succeeded_insert", "succeeded_publish", "set_event"} :
          /\ step \in PumpStates /\ step \in OpeningPcs /\ step \in PendingPcs
          /\ step \notin FailedPcs \cup MessagePcs \cup FoundPcs \cup IdlePcs
    /\ \A step \in {"incoming_connection", "accept_put", "connect_succeeded"} :
          /\ step \in PumpStates /\ step \in OpeningPcs
          /\ step \notin FailedPcs \cup MessagePcs \cup FoundPcs \cup IdlePcs \cup PendingPcs
    /\ \A step \in {"deliver"} :
          /\ step \in PumpStates /\ step \in MessagePcs /\ step \in FoundPcs
          /\ step \notin FailedPcs \cup OpeningPcs \cup IdlePcs \cup PendingPcs
    /\ \A step \in {"message"} :
          /\ step \in PumpStates /\ step \in MessagePcs
          /\ step \notin FailedPcs \cup OpeningPcs \cup IdlePcs \cup PendingPcs \cup FoundPcs
    /\ \A step \in {"connect_failed"} :
          /\ step \in PumpStates /\ step \in FailedPcs
          /\ step \notin MessagePcs \cup OpeningPcs \cup IdlePcs \cup PendingPcs \cup FoundPcs
    /\ \A step \in {"failed_set"} :
          /\ step \in PumpStates /\ step \in FailedPcs /\ step \in PendingPcs
          /\ step \notin MessagePcs \cup OpeningPcs \cup IdlePcs \cup FoundPcs
    /\ \A step \in {"disconnected"} :
          /\ step \in PumpStates
          /\ step \notin MessagePcs \cup OpeningPcs \cup FailedPcs \cup IdlePcs
                         \cup PendingPcs \cup FoundPcs
BY DEF PumpStates, OpeningPcs, FailedPcs, MessagePcs, PendingPcs, FoundPcs, IdlePcs

(* The pump moves on and nothing but the packet queue has changed. *)
LEMMA OnlyPumpMoves ==
    ASSUME BaseInv, RakOK', Grows, PumpOK',
           UNCHANGED <<tableVars, objectVars, acceptQueue, closeVars, pc>>,
           pumpPc \notin {"exited", "failing"}
    PROVE  BaseInv'
<1>1. UNCHANGED pending BY DEF objectVars
<1>. QED BY <1>1, TablesKept, ObjectsKept, QueueKept, CloseKept, ThreadsKept DEF BaseInv

LEMMA PumpCheckOK ==
    ASSUME BaseInv, PumpChecks \/ PumpIdles, UNCHANGED pc
    PROVE  BaseInv' /\ Grows
<1>1. RakOK' /\ Grows BY RakUnchanged DEF BaseInv, PumpChecks, PumpIdles
<1>2. CASE PumpChecks
  <2>1. PumpOK' BY <1>1, <1>2, PumpGoesOK, PumpLeaves DEF PumpChecks, BaseInv
  <2>. QED BY <1>1, <1>2, <2>1, OnlyPumpMoves DEF PumpChecks
<1>3. CASE PumpIdles
  <2>. QED BY <1>1, <1>3, PumpReturnsOK, OnlyPumpMoves DEF PumpIdles
<1>. QED BY <1>2, <1>3

LEMMA PumpReceivesOK ==
    ASSUME BaseInv, PumpReceives, UNCHANGED pc
    PROVE  BaseInv' /\ Grows
<1>. PICK p : p = Head(packets) OBVIOUS
<1>. DEFINE callback == Route(p.id)
<1>1. RawReceive(p) BY DEF PumpReceives
<1>2. RakOK' /\ Grows /\ p \in Packet /\ PacketOK(p)' BY <1>1, RawReceiveOK DEF BaseInv
<1>3. CASE PumpReturns
  BY <1>2, <1>3, PumpReturnsOK, OnlyPumpMoves DEF PumpReceives
<1>4. CASE /\ callback \notin {"ignored", "pong"}
           /\ pumpPc' = callback /\ packet' = p /\ UNCHANGED <<popped, found>>
  <2>1. callback \in {"incoming_connection", "connect_succeeded", "connect_failed",
                      "message", "disconnected"}
    BY <1>2, <1>4, RouteProperties, PacketProperties
  <2>2. /\ callback \in OpeningPcs => p.id \in OpeningIds
        /\ callback \in FailedPcs => p.id \in CONNECT_FAILURES
        /\ callback \in MessagePcs => p.id >= ID_USER_PACKET_ENUM
    BY <1>2, RouteProperties, PacketProperties
  <2>3. popped = None /\ found = None /\ pumpPc = "receive"
    BY PumpLeaves DEF BaseInv, PumpOK, PumpInv, PumpReceives
  <2>4. packet' \in Packet /\ packet' # None BY <1>2, <1>4, NoneIsNothing
  <2>5. HandsInv' BY <1>2, <1>4, <2>3 DEF HandsInv, PacketOK
  <2>6. PumpTypeOK' BY <1>4, <2>1, <2>3, <2>4 DEF PumpTypeOK, PumpStates
  <2>7. PumpInv' BY <1>4, <2>1, <2>2, <2>3, <2>4, PumpLeaves DEF PumpInv
  <2>. QED BY <1>2, <2>3, <2>5, <2>6, <2>7, OnlyPumpMoves DEF PumpReceives, PumpOK
<1>. QED BY <1>3, <1>4 DEF PumpReceives

LEMMA PumpCrashesOK ==
    ASSUME BaseInv, PumpCrashes, UNCHANGED pc
    PROVE  BaseInv' /\ Grows
<1>. PICK p : p = Head(packets) OBVIOUS
<1>1. RawReceive(p) BY DEF PumpCrashes
<1>2. RakOK' /\ Grows BY <1>1, RawReceiveOK DEF BaseInv
<1>3. PumpOK' BY <1>2, PumpGoesOK, PumpLeaves DEF PumpCrashes, BaseInv
<1>. QED BY <1>2, <1>3, OnlyPumpMoves DEF PumpCrashes

-----------------------------------------------------------------------------
(* The callbacks of the pump. *)

(* A callback that leaves RakNet alone. *)
LEMMA CallbackOK ==
    ASSUME BaseInv, UNCHANGED <<rawVars, closeVars, pc>>, pumpPc \notin {"exited", "failing"},
           TablesOK', ObjectsOK', QueueOK', PumpOK',
           \A c \in Calls : pending[c].connection # None => pending'[c].connection # None
    PROVE  BaseInv' /\ Grows
<1>1. RakOK' /\ Grows BY RakUnchanged DEF BaseInv
<1>2. CloseOK' BY CloseKept DEF BaseInv
<1>3. ThreadsOK' BY <1>1, ThreadsKept DEF BaseInv
<1>. QED BY <1>1, <1>2, <1>3 DEF BaseInv

LEMMA BuildOK ==
    ASSUME TablesOK, ObjectsOK, UNCHANGED rawVars, NEW s \in Sessions, NEW r \in Remotes,
           peerOf[s] = r, r = packet.from, BuildConnection(s),
           UNCHANGED <<pendingConnects, evicted, pending, mailbox>>
    PROVE  TablesOK' /\ ObjectsOK'
<1>1. connections' = [connections EXCEPT ![r] = s] /\ connState' = [connState EXCEPT ![s] = "open"]
  BY DEF BuildConnection
<1>2. UNCHANGED peerOf BY DEF rawVars
<1>3. TableTypeOK' BY <1>1 DEF TablesOK, TableTypeOK
<1>4. TableInv' BY <1>1, <1>2 DEF TablesOK, TableTypeOK, TableInv
<1>5. ObjectTypeOK' BY <1>1 DEF ObjectsOK, ObjectTypeOK
<1>6. ObjectInv' BY <1>2 DEF ObjectsOK, ObjectInv, Known
<1>. QED BY <1>3, <1>4, <1>5, <1>6 DEF TablesOK, ObjectsOK

LEMMA InsertsOK ==
    ASSUME BaseInv, IncomingInserts \/ SucceededInserts, UNCHANGED pc
    PROVE  BaseInv' /\ Grows
<1>1. Grows /\ UNCHANGED <<rawVars, closeVars>> /\ pumpPc \in {"incoming_connection", "succeeded_insert"}
  BY GrowsTrivially DEF IncomingInserts, SucceededInserts
<1>2. PICK s \in Sessions, r \in Remotes : s = packet.session /\ r = packet.from /\ peerOf[s] = r
  BY <1>1, PumpHolds, PumpLeaves, PacketProperties DEF BaseInv
<1>3. TablesOK' /\ ObjectsOK'
  BY <1>2, BuildOK DEF IncomingInserts, SucceededInserts, BaseInv
<1>4. QueueOK' BY <1>1, QueueKept DEF IncomingInserts, SucceededInserts, BaseInv
<1>5. CASE IncomingInserts
  <2>1. PumpOK' BY <1>1, <1>5, PumpGoesOK, PumpLeaves DEF IncomingInserts, BaseInv
  <2>. QED BY <1>1, <1>3, <1>4, <1>5, <2>1, CallbackOK DEF IncomingInserts
<1>6. CASE SucceededInserts
  <2>1. PumpOK' BY <1>1, <1>6, PumpGoesOK, PumpLeaves DEF SucceededInserts, BaseInv
  <2>. QED BY <1>1, <1>3, <1>4, <1>6, <2>1, CallbackOK DEF SucceededInserts
<1>. QED BY <1>5, <1>6 DEF IncomingInserts, SucceededInserts

LEMMA QueueAppended ==
    ASSUME QueueOK, Grows, NEW x \in Sessions \cup {None}, x # None => Known(x)',
           acceptQueue' = Append(acceptQueue, x)
    PROVE  QueueOK'
<1>. DEFINE Item == Sessions \cup {None}
<1>. HIDE DEF Item
<1>1. acceptQueue \in Seq(Item) /\ x \in Item BY DEF QueueOK, QueueTypeOK, Item
<1>2. /\ acceptQueue' \in Seq(Item)
      /\ Len(acceptQueue) \in Nat /\ Len(acceptQueue') = Len(acceptQueue) + 1
      /\ \A i \in 1 .. Len(acceptQueue) : acceptQueue'[i] = acceptQueue[i]
      /\ acceptQueue'[Len(acceptQueue) + 1] = x
  BY <1>1, AppendProperties, LenProperties
<1>3. ASSUME NEW i \in 1 .. Len(acceptQueue'), acceptQueue'[i] # None
      PROVE  peerOf'[acceptQueue'[i]] # None
  <2>1. CASE i \in 1 .. Len(acceptQueue)
    <3>1. acceptQueue[i] \in Sessions
      BY <1>1, <1>2, <1>3, <2>1, ElementOfSeq DEF Item
    <3>2. Known(acceptQueue[i]) BY <1>2, <1>3, <2>1 DEF QueueOK, QueueInv
    <3>. QED BY <1>2, <2>1, <3>1, <3>2, KnownStays DEF Known
  <2>2. CASE i = Len(acceptQueue) + 1 BY <1>2, <1>3, <2>2 DEF Known
  <2>. QED BY <1>2, <2>1, <2>2
<1>. QED BY <1>2, <1>3 DEF QueueOK, QueueTypeOK, QueueInv, Known, Item

LEMMA IncomingQueuesOK ==
    ASSUME BaseInv, IncomingQueues, UNCHANGED pc
    PROVE  BaseInv' /\ Grows
<1>1. Grows BY GrowsTrivially DEF IncomingQueues
<1>2. PICK s \in Sessions, r \in Remotes : s = packet.session /\ peerOf[s] = r
  BY PumpHolds, PumpLeaves, PacketProperties DEF BaseInv, IncomingQueues
<1>3. s # None => Known(s)' BY <1>2, NoneIsNothing DEF IncomingQueues, rawVars, Known
<1>4. QueueOK' BY <1>1, <1>2, <1>3, QueueAppended DEF BaseInv, IncomingQueues
<1>5. PumpOK' BY PumpReturnsOK DEF IncomingQueues
<1>6. TablesOK' /\ ObjectsOK' /\ UNCHANGED pending
  BY <1>1, TablesKept, ObjectsKept DEF BaseInv, IncomingQueues, objectVars
<1>. QED BY <1>4, <1>5, <1>6, CallbackOK DEF IncomingQueues

LEMMA PumpPopsPendingOK ==
    ASSUME BaseInv, PumpPopsPending, UNCHANGED pc
    PROVE  BaseInv' /\ Grows
<1>1. Grows BY GrowsTrivially DEF PumpPopsPending
<1>2. PICK r \in Remotes : r = packet.from
  BY PumpHolds, PumpLeaves, PacketProperties DEF BaseInv, PumpPopsPending
<1>3. TablesOK'
  <2>1. pendingConnects' = [pendingConnects EXCEPT ![r] = None]
        /\ UNCHANGED <<connections, evicted, peerOf>>
    BY <1>2 DEF PumpPopsPending, rawVars
  <2>. QED BY <2>1 DEF BaseInv, TablesOK, TableTypeOK, TableInv
<1>4. PumpOK'
  <2>1. CASE PumpReturns BY <2>1, PumpReturnsOK
  <2>2. CASE /\ pendingConnects[r] # None
             /\ popped' = pendingConnects[r]
             /\ pumpPc' = IF pumpPc = "connect_succeeded" THEN "succeeded_insert" ELSE "failed_set"
             /\ UNCHANGED <<packet, found>>
    <3>1. popped' \in Calls /\ popped' # None
      BY <2>2, NoneIsNothing DEF BaseInv, TablesOK, TableTypeOK
    <3>2. HandsInv' BY <1>1, <2>2, HandsKept DEF BaseInv
    <3>3. pumpPc \in {"connect_succeeded", "connect_failed"} BY DEF PumpPopsPending
    <3>4. PumpTypeOK' BY <2>2, <3>1 DEF BaseInv, PumpOK, PumpTypeOK, PumpStates
    <3>5. PumpInv'
      <4>1. CASE pumpPc = "connect_succeeded"
        BY <4>1, <2>2, <3>1, PumpLeaves DEF BaseInv, PumpOK, PumpInv
      <4>2. CASE pumpPc = "connect_failed"
        BY <4>2, <2>2, <3>1, PumpLeaves DEF BaseInv, PumpOK, PumpInv
      <4>. QED BY <3>3, <4>1, <4>2
    <3>. QED BY <3>2, <3>4, <3>5 DEF PumpOK
  <2>. QED BY <1>2, <2>1, <2>2 DEF PumpPopsPending
<1>5. ObjectsOK' /\ QueueOK' /\ UNCHANGED pending
  BY <1>1, ObjectsKept, QueueKept DEF BaseInv, PumpPopsPending, objectVars
<1>6. pumpPc \notin {"exited", "failing"} BY DEF PumpPopsPending
<1>. QED BY <1>3, <1>4, <1>5, <1>6, CallbackOK DEF PumpPopsPending

(* A pending connect changes, and no connection of one goes away. *)
LEMMA PendingChanges ==
    ASSUME ObjectsOK, UNCHANGED <<rawVars, connState, mailbox>>, NEW c \in Calls,
           NEW v \in PendingConnect, pending' = [pending EXCEPT ![c] = v],
           \/ v.connection = pending[c].connection
           \/ v.connection # None /\ Known(v.connection)
    PROVE  /\ ObjectsOK'
           /\ \A d \in Calls : pending[d].connection # None => pending'[d].connection # None
<1>1. \A d \in Calls : d # c => pending'[d] = pending[d] BY DEF ObjectsOK, ObjectTypeOK
<1>2. pending'[c] = v BY DEF ObjectsOK, ObjectTypeOK
<1>3. UNCHANGED peerOf BY DEF rawVars
<1>4. ObjectTypeOK' BY DEF ObjectsOK, ObjectTypeOK
<1>5. ObjectInv' BY <1>1, <1>2, <1>3 DEF ObjectsOK, ObjectInv, Known
<1>. QED BY <1>1, <1>2, <1>4, <1>5 DEF ObjectsOK

LEMMA SucceededPublishesOK ==
    ASSUME BaseInv, SucceededPublishes, UNCHANGED pc
    PROVE  BaseInv' /\ Grows
<1>1. Grows /\ pumpPc = "succeeded_publish" BY GrowsTrivially DEF SucceededPublishes
<1>2. PICK c \in Calls, s \in Sessions, r \in Remotes :
          c = popped /\ s = packet.session /\ peerOf[s] = r
  BY <1>1, PumpHolds, PumpLeaves, PacketProperties DEF BaseInv
<1>3. Known(s) /\ s # None BY <1>2, NoneIsNothing DEF Known
<1>4. pending[c] \in PendingConnect BY DEF BaseInv, ObjectsOK, ObjectTypeOK
<1>5. PICK v \in PendingConnect : v = [pending[c] EXCEPT !.connection = s]
  BY <1>4 DEF PendingConnect
<1>6. v.connection = s BY <1>4, <1>5 DEF PendingConnect
<1>7. pending' = [pending EXCEPT ![c] = v] BY <1>2, <1>5 DEF SucceededPublishes
<1>8. ObjectsOK' /\ \A d \in Calls : pending[d].connection # None => pending'[d].connection # None
  BY <1>3, <1>6, <1>7, PendingChanges DEF BaseInv, SucceededPublishes
<1>9. PumpOK' BY <1>1, PumpGoesOK, PumpLeaves DEF BaseInv, SucceededPublishes
<1>10. TablesOK' /\ QueueOK' BY <1>1, TablesKept, QueueKept DEF BaseInv, SucceededPublishes
<1>. QED BY <1>1, <1>8, <1>9, <1>10, CallbackOK DEF SucceededPublishes

LEMMA ResolvesOK ==
    ASSUME BaseInv, SucceededSets \/ FailedSets, UNCHANGED pc
    PROVE  BaseInv' /\ Grows
<1>1. /\ Grows /\ pumpPc \in {"set_event", "failed_set"} /\ PumpReturns
      /\ UNCHANGED <<rawVars, tableVars, connState, mailbox, acceptQueue, closeVars>>
  BY GrowsTrivially DEF SucceededSets, FailedSets
<1>2. PICK c \in Calls : c = popped BY <1>1, PumpHolds, PumpLeaves DEF BaseInv
<1>3. pending[c] \in PendingConnect BY DEF BaseInv, ObjectsOK, ObjectTypeOK
<1>4. PICK v \in PendingConnect :
          v.connection = pending[c].connection /\ pending' = [pending EXCEPT ![c] = v]
  <2>1. CASE SucceededSets
    <3>1. [pending[c] EXCEPT !.event = TRUE] \in PendingConnect BY <1>3 DEF PendingConnect
    <3>2. [pending[c] EXCEPT !.event = TRUE].connection = pending[c].connection
      BY <1>3 DEF PendingConnect
    <3>. QED BY <2>1, <3>1, <3>2, <1>2 DEF SucceededSets
  <2>2. CASE FailedSets
    <3>1. packet.id \in DefaultMessageIDTypes
      <4>1. packet.id \in CONNECT_FAILURES
        BY <2>2, PumpLeaves DEF FailedSets, BaseInv, PumpOK, PumpInv
      <4>. QED BY <4>1, IdValues
    <3>2. PICK mid \in DefaultMessageIDTypes : mid = packet.id BY <3>1
    <3>3. [pending[c] EXCEPT !.reason = mid, !.event = TRUE] \in PendingConnect
      BY <1>3 DEF PendingConnect
    <3>4. [pending[c] EXCEPT !.reason = mid, !.event = TRUE].connection = pending[c].connection
      BY <1>3 DEF PendingConnect
    <3>. QED BY <2>2, <3>2, <3>3, <3>4, <1>2 DEF FailedSets
  <2>. QED BY <2>1, <2>2
<1>5. ObjectsOK' /\ \A d \in Calls : pending[d].connection # None => pending'[d].connection # None
  BY <1>1, <1>4, PendingChanges DEF BaseInv
<1>6. TablesOK' /\ QueueOK' BY <1>1, TablesKept, QueueKept DEF BaseInv
<1>7. PumpOK' BY <1>1, PumpReturnsOK
<1>. QED BY <1>1, <1>5, <1>6, <1>7, CallbackOK

(* A mailbox or the state of a connection changes. *)
LEMMA MailboxChanges ==
    ASSUME ObjectsOK, UNCHANGED <<rawVars, pending, connState>>, NEW s \in Sessions,
           NEW m \in Mailboxes(Sessions), mailbox' = [mailbox EXCEPT ![s] = m]
    PROVE  ObjectsOK'
<1>1. UNCHANGED peerOf BY DEF rawVars
<1>. QED BY <1>1 DEF ObjectsOK, ObjectTypeOK, ObjectInv, Known

LEMMA CloseMailboxOK ==
    ASSUME ObjectsOK, UNCHANGED <<rawVars, pending, connState>>, NEW s \in Sessions,
           NEW exc \in Reasons, CloseMailbox(s, exc)
    PROVE  ObjectsOK'
<1>1. mailbox[s] \in Mailboxes(Sessions) BY DEF ObjectsOK, ObjectTypeOK
<1>2. CloseWith(mailbox[s], exc) \in Mailboxes(Sessions)
  BY <1>1 DEF Mailboxes, CloseWith
<1>3. mailbox' = [mailbox EXCEPT ![s] = CloseWith(mailbox[s], exc)] BY DEF CloseMailbox
<1>4. PICK m \in Mailboxes(Sessions) : m = CloseWith(mailbox[s], exc) BY <1>2
<1>. QED BY <1>3, <1>4, MailboxChanges

LEMMA MarkClosedOK ==
    ASSUME ObjectsOK, UNCHANGED <<rawVars, pending, mailbox>>, NEW s \in Sessions, MarkClosed(s)
    PROVE  ObjectsOK'
<1>1. UNCHANGED peerOf BY DEF rawVars
<1>. QED BY <1>1 DEF MarkClosed, ObjectsOK, ObjectTypeOK, ObjectInv, Known

(* Connection.close and _overflow on a connection of a known remote. *)
LEMMA PopConnectionOK ==
    ASSUME RakOK, TablesOK, UNCHANGED <<rawVars, pendingConnects>>,
           NEW s \in Sessions, Known(s), PopConnection(s)
    PROVE  TablesOK'
<1>1. PICK r \in Remotes : r = peerOf[s] BY DEF Known, RakOK, RakNetTypeOK
<1>2. connections' = [connections EXCEPT ![r] = None] BY <1>1 DEF PopConnection, Guid
<1>3. evicted' \subseteq Sessions
  BY <1>1 DEF PopConnection, Guid, TablesOK, TableTypeOK
<1>4. UNCHANGED peerOf BY DEF rawVars
<1>. QED BY <1>2, <1>3, <1>4 DEF TablesOK, TableTypeOK, TableInv

LEMMA HangUpOK ==
    ASSUME RakOK, NEW s \in Sessions, Known(s), NEW notify \in BOOLEAN, HangUp(s, notify)
    PROVE  RakOK' /\ Grows
<1>1. PICK r \in Remotes : r = Guid(s) BY DEF Known, Guid, RakOK, RakNetTypeOK
<1>2. CASE closed BY <1>2, RakUnchanged DEF HangUp
<1>3. CASE ~closed
  <2>1. RawCloseConnection(r, notify) BY <1>1, <1>3 DEF HangUp
  <2>. QED BY <2>1, RawCloseOK
<1>. QED BY <1>2, <1>3

LEMMA MessageOK ==
    ASSUME BaseInv, MessageLooksUp \/ MessagePuts, UNCHANGED pc
    PROVE  BaseInv' /\ Grows
<1>1. /\ Grows /\ pumpPc \in {"message", "deliver"}
      /\ UNCHANGED <<rawVars, tableVars, pending, connState, acceptQueue, closeVars>>
  BY GrowsTrivially DEF MessageLooksUp, MessagePuts, objectVars
<1>2. TablesOK' /\ QueueOK' BY <1>1, TablesKept, QueueKept DEF BaseInv
<1>3. PICK s \in Sessions, r \in Remotes : s = packet.session /\ r = packet.from
  BY <1>1, PumpHolds, PumpLeaves, PacketProperties DEF BaseInv
<1>4. ASSUME MessageLooksUp PROVE ObjectsOK' /\ PumpOK'
  <2>1. ObjectsOK' BY <1>1, <1>4, ObjectsKept DEF BaseInv, MessageLooksUp
  <2>2. CASE PumpReturns BY <2>1, <2>2, PumpReturnsOK
  <2>3. CASE /\ connections[r] # None /\ found' = connections[r] /\ pumpPc' = "deliver"
             /\ UNCHANGED <<packet, popped>>
    <3>1. found' \in Sessions /\ found' # None /\ peerOf'[found'] # None
      BY <1>1, <2>3, NoneIsNothing DEF BaseInv, TablesOK, TableTypeOK, TableInv, rawVars
    <3>2. packet # None => PacketOK(packet)
      BY DEF BaseInv, PumpOK, HandsInv
    <3>3. HandsInv' BY <1>1, <2>3, <3>1, <3>2 DEF HandsInv, Known, PacketOK, rawVars
    <3>4. PumpTypeOK' BY <2>3, <3>1 DEF BaseInv, PumpOK, PumpTypeOK, PumpStates
    <3>5. PumpInv' BY <1>4, <2>3, <3>1, PumpLeaves DEF BaseInv, PumpOK, PumpInv, MessageLooksUp
    <3>. QED BY <2>1, <3>3, <3>4, <3>5 DEF PumpOK
  <2>. QED BY <1>3, <1>4, <2>2, <2>3 DEF MessageLooksUp
<1>5. ASSUME MessagePuts PROVE ObjectsOK' /\ PumpOK'
  <2>1. CASE PumpGoesTo("overflow_pop") /\ UNCHANGED mailbox
    <3>1. ObjectsOK' BY <1>1, <2>1, ObjectsKept DEF BaseInv, objectVars
    <3>2. HandsInv' BY <1>1, <2>1, HandsKept DEF PumpGoesTo, BaseInv
    <3>3. PumpTypeOK' BY <2>1 DEF PumpGoesTo, BaseInv, PumpOK, PumpTypeOK, PumpStates
    <3>4. PumpInv' BY <1>5, <2>1, PumpLeaves DEF PumpGoesTo, MessagePuts, BaseInv, PumpOK, PumpInv
    <3>. QED BY <3>1, <3>2, <3>3, <3>4 DEF PumpOK
  <2>2. CASE mailbox' = [mailbox EXCEPT ![found] = PutItem(@, packet.session)] /\ PumpReturns
    <3>1. PICK f \in Sessions : f = found
      BY <1>5, PumpHolds, PumpLeaves DEF MessagePuts, BaseInv
    <3>2. mailbox[f] \in Mailboxes(Sessions) BY DEF BaseInv, ObjectsOK, ObjectTypeOK
    <3>3. Append(mailbox[f].items, s) \in Seq(Sessions)
      BY <3>2, AppendProperties DEF Mailboxes
    <3>4. PutItem(mailbox[f], s) \in Mailboxes(Sessions)
      BY <3>2, <3>3 DEF PutItem, Mailboxes
    <3>5. PICK m \in Mailboxes(Sessions) : m = PutItem(mailbox[f], s) BY <3>4
    <3>6. mailbox' = [mailbox EXCEPT ![f] = m] BY <1>3, <2>2, <3>1, <3>5
    <3>. QED BY <1>1, <2>2, <3>6, MailboxChanges, PumpReturnsOK DEF BaseInv
  <2>. QED BY <1>5, <2>1, <2>2 DEF MessagePuts
<1>. QED BY <1>1, <1>2, <1>4, <1>5, CallbackOK

LEMMA OverflowOK ==
    ASSUME BaseInv, UNCHANGED pc,
           OverflowPops \/ OverflowMarks \/ OverflowHangsUp \/ OverflowClosesMailbox
    PROVE  BaseInv' /\ Grows
<1>1. PICK f \in Sessions : f = found /\ Known(f)
  BY PumpHolds, PumpLeaves
     DEF BaseInv, OverflowPops, OverflowMarks, OverflowHangsUp, OverflowClosesMailbox
<1>2. CASE OverflowPops
  <2>1. Grows BY <1>2, GrowsTrivially DEF OverflowPops
  <2>2. TablesOK' BY <1>1, <1>2, PopConnectionOK DEF OverflowPops, BaseInv
  <2>3. PumpOK' BY <1>2, <2>1, PumpGoesOK, PumpLeaves DEF OverflowPops, BaseInv
  <2>4. ObjectsOK' /\ QueueOK' /\ UNCHANGED pending
    BY <1>2, <2>1, ObjectsKept, QueueKept DEF OverflowPops, BaseInv, objectVars
  <2>. QED BY <1>2, <2>2, <2>3, <2>4, CallbackOK DEF OverflowPops
<1>3. CASE OverflowMarks
  <2>1. Grows BY <1>3, GrowsTrivially DEF OverflowMarks
  <2>2. ObjectsOK' BY <1>1, <1>3, MarkClosedOK DEF OverflowMarks, BaseInv
  <2>3. PumpOK' BY <1>3, <2>1, PumpGoesOK, PumpLeaves DEF OverflowMarks, BaseInv
  <2>4. TablesOK' /\ QueueOK'
    BY <1>3, <2>1, TablesKept, QueueKept DEF OverflowMarks, BaseInv
  <2>. QED BY <1>3, <2>2, <2>3, <2>4, CallbackOK DEF OverflowMarks
<1>4. CASE OverflowHangsUp
  <2>1. RakOK' /\ Grows BY <1>1, <1>4, HangUpOK DEF OverflowHangsUp, BaseInv
  <2>2. PumpOK' BY <1>4, <2>1, PumpGoesOK, PumpLeaves DEF OverflowHangsUp, BaseInv
  <2>. QED BY <1>4, <2>1, <2>2, OnlyPumpMoves DEF OverflowHangsUp
<1>5. CASE OverflowClosesMailbox
  <2>1. Grows BY <1>5, GrowsTrivially DEF OverflowClosesMailbox
  <2>2. ObjectsOK'
    BY <1>1, <1>5, CloseMailboxOK DEF OverflowClosesMailbox, BaseInv, Reasons
  <2>3. PumpOK' BY <1>5, PumpReturnsOK DEF OverflowClosesMailbox
  <2>4. TablesOK' /\ QueueOK'
    BY <1>5, <2>1, TablesKept, QueueKept DEF OverflowClosesMailbox, BaseInv
  <2>. QED BY <1>5, <2>2, <2>3, <2>4, CallbackOK DEF OverflowClosesMailbox
<1>. QED BY <1>2, <1>3, <1>4, <1>5

LEMMA DisconnectedOK ==
    ASSUME BaseInv, UNCHANGED pc,
           DisconnectedPops \/ DisconnectedMarks \/ DisconnectedClosesMailbox
    PROVE  BaseInv' /\ Grows
<1>1. Grows
  BY GrowsTrivially DEF DisconnectedPops, DisconnectedMarks, DisconnectedClosesMailbox
<1>2. CASE DisconnectedPops
  <2>1. PICK r \in Remotes : r = packet.from
    BY <1>2, PumpHolds, PacketProperties DEF BaseInv, DisconnectedPops
  <2>2. TablesOK'
    BY <1>2, <2>1 DEF DisconnectedPops, rawVars, BaseInv, TablesOK, TableTypeOK, TableInv
  <2>3. PumpOK'
    <3>1. CASE PumpReturns BY <3>1, PumpReturnsOK
    <3>2. CASE /\ connections[r] # None /\ found' = connections[r]
               /\ pumpPc' = "disconnected_mark" /\ UNCHANGED <<packet, popped>>
      <4>1. found' \in Sessions /\ found' # None /\ peerOf'[found'] # None
        BY <1>2, <3>2, NoneIsNothing
           DEF DisconnectedPops, BaseInv, TablesOK, TableTypeOK, TableInv, rawVars
      <4>2. packet # None => PacketOK(packet) BY DEF BaseInv, PumpOK, HandsInv
      <4>3. HandsInv'
        BY <1>2, <3>2, <4>1, <4>2 DEF HandsInv, Known, PacketOK, DisconnectedPops, rawVars
      <4>4. PumpTypeOK' BY <3>2, <4>1 DEF BaseInv, PumpOK, PumpTypeOK, PumpStates
      <4>5. PumpInv'
        BY <1>2, <3>2, <4>1, PumpLeaves DEF BaseInv, PumpOK, PumpInv, DisconnectedPops
      <4>. QED BY <4>3, <4>4, <4>5 DEF PumpOK
    <3>. QED BY <1>2, <2>1, <3>1, <3>2 DEF DisconnectedPops
  <2>4. ObjectsOK' /\ QueueOK' /\ UNCHANGED pending
    BY <1>1, <1>2, ObjectsKept, QueueKept DEF DisconnectedPops, BaseInv, objectVars
  <2>. QED BY <1>2, <2>2, <2>3, <2>4, CallbackOK DEF DisconnectedPops
<1>3. CASE DisconnectedMarks
  <2>1. PICK f \in Sessions : f = found
    BY <1>3, PumpHolds, PumpLeaves DEF BaseInv, DisconnectedMarks
  <2>2. ObjectsOK' BY <1>3, <2>1, MarkClosedOK DEF DisconnectedMarks, BaseInv
  <2>3. PumpOK' BY <1>1, <1>3, PumpGoesOK, PumpLeaves DEF DisconnectedMarks, BaseInv
  <2>4. TablesOK' /\ QueueOK'
    BY <1>1, <1>3, TablesKept, QueueKept DEF DisconnectedMarks, BaseInv
  <2>. QED BY <1>3, <2>2, <2>3, <2>4, CallbackOK DEF DisconnectedMarks
<1>4. CASE DisconnectedClosesMailbox
  <2>1. PICK f \in Sessions : f = found
    BY <1>4, PumpHolds, PumpLeaves DEF BaseInv, DisconnectedClosesMailbox
  <2>2. PICK exc \in Reasons : CloseMailbox(f, exc)
    BY <1>4, <2>1 DEF DisconnectedClosesMailbox, Reasons
  <2>3. ObjectsOK' BY <1>4, <2>2, CloseMailboxOK DEF DisconnectedClosesMailbox, BaseInv
  <2>4. PumpOK' BY <1>4, PumpReturnsOK DEF DisconnectedClosesMailbox
  <2>5. TablesOK' /\ QueueOK'
    BY <1>1, <1>4, TablesKept, QueueKept DEF DisconnectedClosesMailbox, BaseInv
  <2>. QED BY <1>4, <2>3, <2>4, <2>5, CallbackOK DEF DisconnectedClosesMailbox
<1>. QED BY <1>2, <1>3, <1>4

-----------------------------------------------------------------------------
(* The teardown. *)

LEMMA BeginCloseOK ==
    ASSUME TablesOK, CloseOK, UNCHANGED rawVars, NEW next \in {"join", "shutdown"},
           BeginClose(next), next = "shutdown" => pumpPc' \in {"exited", "failing"}
    PROVE  TablesOK' /\ CloseOK'
<1>1. TablesOK' BY DEF BeginClose, TablesOK, TableTypeOK, TableInv
<1>2. TableOf(connections) \subseteq Sessions /\ TableOf(pendingConnects) \subseteq Calls
  BY DEF TableOf, TablesOK, TableTypeOK
<1>3. CloseTypeOK' BY <1>2 DEF BeginClose, CloseOK, CloseTypeOK, ClosePhases
<1>4. CloseInv' BY DEF BeginClose, CloseInv
<1>. QED BY <1>1, <1>3, <1>4 DEF CloseOK

LEMMA PeerClosesOK ==
    ASSUME BaseInv, PeerCloses, UNCHANGED pc
    PROVE  BaseInv' /\ Grows
<1>1. RakOK' /\ Grows BY RakUnchanged DEF PeerCloses, BaseInv
<1>2. TablesOK' /\ CloseOK' BY BeginCloseOK DEF PeerCloses, BaseInv
<1>3. ObjectsOK' /\ QueueOK' /\ PumpOK' /\ UNCHANGED pending
  BY <1>1, ObjectsKept, QueueKept, PumpKept DEF PeerCloses, BaseInv, objectVars
<1>. QED BY <1>1, <1>2, <1>3, ThreadsKept DEF BaseInv

LEMMA PumpFailsOK ==
    ASSUME BaseInv, PumpFails, UNCHANGED pc
    PROVE  BaseInv' /\ Grows
<1>1. RakOK' /\ Grows BY RakUnchanged DEF PumpFails, BaseInv
<1>2. TablesOK' /\ CloseOK'
  <2>1. CASE UNCHANGED <<tableVars, closeVars>>
    BY <1>1, <2>1, TablesKept, CloseKept DEF PumpFails, BaseInv
  <2>2. CASE BeginClose("shutdown") /\ PumpGoesTo("failing")
    BY <2>2, BeginCloseOK DEF PumpFails, PumpGoesTo, BaseInv
  <2>. QED BY <2>1, <2>2 DEF PumpFails
<1>3. PumpOK' BY <1>1, PumpGoesOK, PumpLeaves DEF PumpFails, BaseInv
<1>4. ObjectsOK' /\ QueueOK' /\ UNCHANGED pending
  BY <1>1, ObjectsKept, QueueKept DEF PumpFails, BaseInv, objectVars
<1>. QED BY <1>1, <1>2, <1>3, <1>4, ThreadsKept DEF BaseInv

LEMMA PumpStepOK ==
    ASSUME BaseInv, PumpStep, UNCHANGED pc
    PROVE  BaseInv' /\ Grows
BY PumpCheckOK, PumpReceivesOK, InsertsOK, IncomingQueuesOK, PumpPopsPendingOK,
   SucceededPublishesOK, ResolvesOK, MessageOK, OverflowOK, DisconnectedOK, PumpFailsOK
   DEF PumpStep

(* A step of the teardown that leaves RakNet alone. *)
LEMMA TeardownOK ==
    ASSUME BaseInv, UNCHANGED <<rawVars, tableVars, pc>>,
           ObjectsOK', QueueOK', PumpOK', CloseOK',
           \A c \in Calls : pending[c].connection # None => pending'[c].connection # None
    PROVE  BaseInv' /\ Grows
<1>1. RakOK' /\ Grows BY RakUnchanged DEF BaseInv
<1>. QED BY <1>1, TablesKept, ThreadsKept DEF BaseInv

LEMMA CloserStepOK ==
    ASSUME BaseInv, CloserStep, UNCHANGED pc
    PROVE  BaseInv' /\ Grows
<1>. USE DEF BaseInv
<1>1. CASE CloserJoinsPump
  <2>1. Grows BY <1>1, GrowsTrivially DEF CloserJoinsPump
  <2>2. CloseOK'
    BY <1>1 DEF CloserJoinsPump, pumpVars, CloseOK, CloseTypeOK, CloseInv, ClosePhases
  <2>3. ObjectsOK' /\ QueueOK' /\ PumpOK' /\ UNCHANGED pending
    BY <1>1, <2>1, ObjectsKept, QueueKept, PumpKept DEF CloserJoinsPump, objectVars
  <2>. QED BY <1>1, <2>2, <2>3, TeardownOK DEF CloserJoinsPump
<1>2. CASE CloserShutsDown
  <2>1. RakOK' /\ Grows BY <1>2, RawShutdownOK DEF CloserShutsDown
  <2>2. CloseOK'
    BY <1>2 DEF CloserShutsDown, pumpVars, CloseOK, CloseTypeOK, CloseInv, ClosePhases
  <2>3. TablesOK' /\ ObjectsOK' /\ QueueOK' /\ PumpOK' /\ UNCHANGED pending
    BY <1>2, <2>1, TablesKept, ObjectsKept, QueueKept, PumpKept DEF CloserShutsDown, objectVars
  <2>. QED BY <1>2, <2>1, <2>2, <2>3, ThreadsKept DEF CloserShutsDown
<1>3. ASSUME NEW s \in Sessions, FinishMarks(s) PROVE BaseInv' /\ Grows
  <2>1. Grows BY <1>3, GrowsTrivially DEF FinishMarks
  <2>2. CloseOK'
    BY <1>3 DEF FinishMarks, pumpVars, CloseOK, CloseTypeOK, CloseInv, ClosePhases
  <2>3. ObjectsOK' BY <1>3, MarkClosedOK DEF FinishMarks
  <2>4. QueueOK' /\ PumpOK' BY <1>3, <2>1, QueueKept, PumpKept DEF FinishMarks
  <2>. QED BY <1>3, <2>2, <2>3, <2>4, TeardownOK DEF FinishMarks
<1>4. CASE FinishClosesMailbox
  <2>1. Grows BY <1>4, GrowsTrivially DEF FinishClosesMailbox
  <2>2. CloseOK'
    BY <1>4 DEF FinishClosesMailbox, pumpVars, CloseOK, CloseTypeOK, CloseInv, ClosePhases
  <2>3. PICK s \in Sessions : s = marked
    BY <1>4 DEF FinishClosesMailbox, CloseOK, CloseTypeOK
  <2>4. PICK exc \in Reasons : CloseMailbox(s, exc)
    BY <1>4, <2>3 DEF FinishClosesMailbox, Reasons
  <2>5. ObjectsOK' BY <1>4, <2>4, CloseMailboxOK DEF FinishClosesMailbox
  <2>6. QueueOK' /\ PumpOK' BY <1>4, <2>1, QueueKept, PumpKept DEF FinishClosesMailbox
  <2>. QED BY <1>4, <2>2, <2>5, <2>6, TeardownOK DEF FinishClosesMailbox
<1>5. ASSUME NEW c \in Calls, FinishFailsPending(c) PROVE BaseInv' /\ Grows
  <2>1. Grows BY <1>5, GrowsTrivially DEF FinishFailsPending
  <2>2. CloseOK'
    BY <1>5 DEF FinishFailsPending, pumpVars, CloseOK, CloseTypeOK, CloseInv, ClosePhases
  <2>3. pending[c] \in PendingConnect BY DEF ObjectsOK, ObjectTypeOK
  <2>4. PICK v \in PendingConnect :
            v = [pending[c] EXCEPT !.reason = ID_CONNECTION_ATTEMPT_FAILED, !.event = TRUE]
    BY <2>3, IdValues DEF PendingConnect
  <2>5. v.connection = pending[c].connection BY <2>3, <2>4 DEF PendingConnect
  <2>6. pending' = [pending EXCEPT ![c] = v] BY <1>5, <2>4 DEF FinishFailsPending
  <2>7. /\ ObjectsOK'
        /\ \A d \in Calls : pending[d].connection # None => pending'[d].connection # None
    BY <1>5, <2>5, <2>6, PendingChanges DEF FinishFailsPending
  <2>8. QueueOK' /\ PumpOK' BY <1>5, <2>1, QueueKept, PumpKept DEF FinishFailsPending
  <2>. QED BY <1>5, <2>2, <2>7, <2>8, TeardownOK DEF FinishFailsPending
<1>6. CASE FinishQueuesSentinel
  <2>1. Grows BY <1>6, GrowsTrivially DEF FinishQueuesSentinel
  <2>2. pumpPc \in {"exited", "failing"}
    BY <1>6 DEF FinishQueuesSentinel, CloseOK, CloseInv
  <2>3. CloseOK'
    BY <1>6 DEF FinishQueuesSentinel, CloseOK, CloseTypeOK, CloseInv, ClosePhases
  <2>4. PumpOK' BY <1>6, <2>1, <2>2, PumpGoesOK, PumpLeaves DEF FinishQueuesSentinel
  <2>5. QueueOK' BY <1>6, <2>1, QueueAppended DEF FinishQueuesSentinel
  <2>6. ObjectsOK' /\ UNCHANGED pending
    BY <1>6, <2>1, ObjectsKept DEF FinishQueuesSentinel, objectVars
  <2>. QED BY <1>6, <2>3, <2>4, <2>5, <2>6, TeardownOK DEF FinishQueuesSentinel
<1>. QED BY <1>1, <1>2, <1>3, <1>4, <1>5, <1>6 DEF CloserStep

-----------------------------------------------------------------------------
(* The threads of the users. *)

(* Where a thread of each kind may go. *)
MayGo(t, step) ==
    /\ t \in Calls => step \in CallPcs \cup ClosePcs
                      /\ (step \in ClosePcs => pending[t].connection # None)
    /\ t \in Sessions => step \in OwnerPcs \cup ClosePcs /\ Known(t)
    /\ t \in Acceptors => step \in AcceptorPcs

LEMMA ThreadGoes ==
    ASSUME BaseInv, Grows, UNCHANGED pending, NEW t \in Threads, NEW step,
           Goes(t, step), MayGo(t, step)
    PROVE  ThreadsOK'
<1>. DEFINE Pcs == CallPcs \cup ClosePcs \cup OwnerPcs \cup AcceptorPcs
<1>1. pc \in [Threads -> Pcs] BY DEF BaseInv, ThreadsOK, ThreadTypeOK
<1>2. pc'[t] = step /\ \A u \in Threads : u # t => pc'[u] = pc[u]
  BY <1>1 DEF Goes
<1>3. step \in Pcs BY DEF MayGo, Threads
<1>4. pc' \in [Threads -> Pcs] BY <1>1, <1>3 DEF Goes
<1>. HIDE DEF Pcs
<1>5. ThreadTypeOK'
  BY <1>2, <1>4 DEF BaseInv, ThreadsOK, ThreadTypeOK, MayGo, Threads, Pcs
<1>6. \A c \in Calls : pc'[c] \in ClosePcs => pending'[c].connection # None
  BY <1>2 DEF BaseInv, ThreadsOK, ThreadInv, MayGo, Threads
<1>7. \A s \in Sessions : pc'[s] # "idle" => peerOf'[s] # None
  <2>1. ASSUME NEW s \in Sessions, pc'[s] # "idle" PROVE Known(s)
    BY <2>1, <1>2 DEF BaseInv, ThreadsOK, ThreadInv, MayGo, Threads
  <2>. QED BY <2>1, KnownStays DEF Known
<1>. QED BY <1>5, <1>6, <1>7 DEF ThreadsOK, ThreadInv, Known

(* A step of a user thread; what only the pump and the teardown write stays. *)
LEMMA UserStepOK ==
    ASSUME BaseInv, Grows, RakOK', TablesOK', ObjectsOK', QueueOK', ThreadsOK',
           UNCHANGED <<pumpVars, closeVars>>
    PROVE  BaseInv'
<1>1. CloseOK' BY CloseKept DEF BaseInv, pumpVars
<1>2. PumpOK' BY PumpKept DEF BaseInv
<1>. QED BY <1>1, <1>2 DEF BaseInv

LEMMA OnlyPcChanges ==
    ASSUME BaseInv, UNCHANGED coreVars, NEW t \in Threads, NEW step,
           Goes(t, step), MayGo(t, step)
    PROVE  BaseInv' /\ Grows
<1>1. UNCHANGED <<rawVars, tableVars, objectVars, acceptQueue, pumpVars, closeVars, pending>>
  BY DEF coreVars, objectVars
<1>2. RakOK' /\ Grows BY <1>1, RakUnchanged DEF BaseInv
<1>3. TablesOK' /\ ObjectsOK' /\ QueueOK'
  BY <1>1, <1>2, TablesKept, ObjectsKept, QueueKept DEF BaseInv
<1>. QED BY <1>1, <1>2, <1>3, ThreadGoes, UserStepOK

LEMMA ThreadKinds ==
    /\ \A c \in Calls : c \in Threads /\ c \notin Sessions /\ c \notin Acceptors
    /\ \A s \in Sessions : s \in Threads /\ s \notin Calls /\ s \notin Acceptors
    /\ \A a \in Acceptors : a \in Threads /\ a \notin Calls /\ a \notin Sessions
BY CallsAssumption, PeerAssumption DEF Threads

LEMMA ClosingIsKnown ==
    ASSUME BaseInv, NEW t \in Calls \cup Sessions, pc[t] \in ClosePcs
    PROVE  /\ Closing(t) \in Sessions /\ Known(Closing(t))
           /\ \A step \in ClosePcs \cup {AfterClose(t)} : MayGo(t, step)
<1>1. CASE t \in Calls
  <2>1. pending[t].connection # None
    BY <1>1 DEF BaseInv, ThreadsOK, ThreadInv
  <2>2. Closing(t) \in Sessions /\ Known(Closing(t))
    BY <1>1, <2>1
       DEF Closing, BaseInv, ObjectsOK, ObjectTypeOK, ObjectInv, PendingConnect
  <2>3. \A step \in ClosePcs \cup {AfterClose(t)} : MayGo(t, step)
    BY <1>1, <2>1, ThreadKinds DEF MayGo, AfterClose, ClosePcs, CallPcs
  <2>. QED BY <2>2, <2>3
<1>2. CASE t \in Sessions
  <2>1. pc[t] # "idle" BY DEF ClosePcs
  <2>2. Closing(t) = t /\ Known(t)
    BY <1>2, <2>1, ThreadKinds DEF Closing, BaseInv, ThreadsOK, ThreadInv
  <2>3. \A step \in ClosePcs \cup {AfterClose(t)} : MayGo(t, step)
    BY <1>2, <2>2, ThreadKinds DEF MayGo, AfterClose, ClosePcs, OwnerPcs
  <2>. QED BY <1>2, <2>2, <2>3
<1>. QED BY <1>1, <1>2

LEMMA CloseStepOK ==
    ASSUME BaseInv, NEW t \in Calls \cup Sessions, CloseStep(t)
    PROVE  BaseInv' /\ Grows
<1>1. pc[t] \in ClosePcs /\ t \in Threads
  BY DEF CloseStep, CloseChecks, ClosePops, CloseMarks, CloseHangsUp, CloseClosesMailbox,
         ClosePcs, Threads
<1>2. PICK s \in Sessions : s = Closing(t) /\ Known(s) BY <1>1, ClosingIsKnown
<1>3. PICK after : after = AfterClose(t) OBVIOUS
<1>4. \A step \in ClosePcs \cup {after} : MayGo(t, step) BY <1>1, <1>3, ClosingIsKnown
<1>5. /\ MayGo(t, "close_pop") /\ MayGo(t, "close_mark") /\ MayGo(t, "close_hangup")
      /\ MayGo(t, "close_mailbox") /\ MayGo(t, after)
  BY <1>4 DEF ClosePcs
<1>6. CASE CloseChecks(t)
  <2>1. PICK step : Goes(t, step) /\ MayGo(t, step)
    BY <1>3, <1>5, <1>6 DEF CloseChecks
  <2>. QED BY <1>1, <1>6, <2>1, OnlyPcChanges DEF CloseChecks
<1>7. CASE ClosePops(t)
  <2>1. RakOK' /\ Grows BY <1>7, RakUnchanged DEF ClosePops, BaseInv
  <2>2. TablesOK' BY <1>2, <1>7, PopConnectionOK DEF ClosePops, BaseInv
  <2>3. ObjectsOK' /\ QueueOK' /\ UNCHANGED pending
    BY <1>7, <2>1, ObjectsKept, QueueKept DEF ClosePops, BaseInv, objectVars
  <2>4. ThreadsOK' BY <1>1, <1>5, <1>7, <2>1, <2>3, ThreadGoes DEF ClosePops
  <2>. QED BY <1>7, <2>1, <2>2, <2>3, <2>4, UserStepOK DEF ClosePops
<1>8. CASE CloseMarks(t)
  <2>1. RakOK' /\ Grows BY <1>8, RakUnchanged DEF CloseMarks, BaseInv
  <2>2. ObjectsOK' BY <1>2, <1>8, MarkClosedOK DEF CloseMarks, BaseInv
  <2>3. TablesOK' /\ QueueOK'
    BY <1>8, <2>1, TablesKept, QueueKept DEF CloseMarks, BaseInv
  <2>4. ThreadsOK' BY <1>1, <1>5, <1>8, <2>1, ThreadGoes DEF CloseMarks
  <2>. QED BY <1>8, <2>1, <2>2, <2>3, <2>4, UserStepOK DEF CloseMarks
<1>9. CASE CloseHangsUp(t)
  <2>1. PICK notify \in BOOLEAN : HangUp(s, notify) BY <1>2, <1>9 DEF CloseHangsUp
  <2>2. RakOK' /\ Grows BY <1>2, <2>1, HangUpOK DEF BaseInv
  <2>3. TablesOK' /\ ObjectsOK' /\ QueueOK' /\ UNCHANGED pending
    BY <1>9, <2>2, TablesKept, ObjectsKept, QueueKept DEF CloseHangsUp, BaseInv, objectVars
  <2>4. ThreadsOK' BY <1>1, <1>5, <1>9, <2>2, <2>3, ThreadGoes DEF CloseHangsUp
  <2>. QED BY <1>9, <2>2, <2>3, <2>4, UserStepOK DEF CloseHangsUp
<1>10. CASE CloseClosesMailbox(t)
  <2>1. RakOK' /\ Grows BY <1>10, RakUnchanged DEF CloseClosesMailbox, BaseInv
  <2>2. ObjectsOK'
    BY <1>2, <1>10, CloseMailboxOK DEF CloseClosesMailbox, BaseInv, Reasons
  <2>3. TablesOK' /\ QueueOK'
    BY <1>10, <2>1, TablesKept, QueueKept DEF CloseClosesMailbox, BaseInv
  <2>4. ThreadsOK'
    BY <1>1, <1>3, <1>5, <1>10, <2>1, ThreadGoes DEF CloseClosesMailbox
  <2>. QED BY <1>10, <2>1, <2>2, <2>3, <2>4, UserStepOK DEF CloseClosesMailbox
<1>. QED BY <1>6, <1>7, <1>8, <1>9, <1>10 DEF CloseStep

(* A connection is handed to its owner. *)
LEMMA HandsOver ==
    ASSUME BaseInv, Grows, UNCHANGED pending, NEW t \in Calls \cup Acceptors,
           NEW s \in Sessions, Known(s), NEW step, MayGo(t, step), step \notin ClosePcs,
           pc' = [pc EXCEPT ![t] = step, ![s] = "using"]
    PROVE  ThreadsOK'
<1>. DEFINE Pcs == CallPcs \cup ClosePcs \cup OwnerPcs \cup AcceptorPcs
<1>1. pc \in [Threads -> Pcs] BY DEF BaseInv, ThreadsOK, ThreadTypeOK
<1>2. t \in Threads /\ s \in Threads /\ t # s BY ThreadKinds
<1>3. pc'[t] = step /\ pc'[s] = "using" /\ \A u \in Threads : u \notin {t, s} => pc'[u] = pc[u]
  BY <1>1, <1>2
<1>4. step \in Pcs /\ "using" \in Pcs BY DEF MayGo, OwnerPcs
<1>5. pc' \in [Threads -> Pcs] BY <1>1, <1>4
<1>. HIDE DEF Pcs
<1>6. \A c \in Calls : pc'[c] \in CallPcs \cup ClosePcs
  BY <1>3, ThreadKinds DEF BaseInv, ThreadsOK, ThreadTypeOK, MayGo
<1>7. \A q \in Sessions : pc'[q] \in OwnerPcs \cup ClosePcs
  BY <1>3, ThreadKinds DEF BaseInv, ThreadsOK, ThreadTypeOK, OwnerPcs
<1>8. \A a \in Acceptors : pc'[a] \in AcceptorPcs
  BY <1>3, ThreadKinds DEF BaseInv, ThreadsOK, ThreadTypeOK, MayGo
<1>9. \A c \in Calls : pc'[c] \in ClosePcs => pending'[c].connection # None
  BY <1>3, ThreadKinds DEF BaseInv, ThreadsOK, ThreadInv
<1>10. \A q \in Sessions : pc'[q] # "idle" => peerOf'[q] # None
  <2>1. ASSUME NEW q \in Sessions, pc'[q] # "idle" PROVE Known(q)
    BY <2>1, <1>3, ThreadKinds DEF BaseInv, ThreadsOK, ThreadInv
  <2>. QED BY <2>1, KnownStays DEF Known
<1>. QED BY <1>5, <1>6, <1>7, <1>8, <1>9, <1>10
     DEF ThreadsOK, ThreadTypeOK, ThreadInv, Known, Pcs

(* A call makes a step that is not one of Connection.close. *)
LEMMA CallGoes ==
    ASSUME NEW c \in Calls, NEW step \in CallPcs
    PROVE  c \in Threads /\ MayGo(c, step)
BY ThreadKinds DEF MayGo, CallPcs, ClosePcs

LEMMA CallTablesOK ==
    ASSUME BaseInv, UNCHANGED <<rawVars, connections, evicted, objectVars, acceptQueue,
                                pumpVars, closeVars>>,
           NEW c \in Calls, NEW x \in Calls \cup {None}, NEW step \in CallPcs,
           pendingConnects' = [pendingConnects EXCEPT ![Target[c]] = x], Goes(c, step)
    PROVE  BaseInv' /\ Grows
<1>1. RakOK' /\ Grows BY RakUnchanged DEF BaseInv
<1>2. UNCHANGED <<peerOf, pending>> BY DEF rawVars, objectVars
<1>3. TablesOK' BY <1>2 DEF BaseInv, TablesOK, TableTypeOK, TableInv
<1>4. ObjectsOK' /\ QueueOK' BY <1>1, ObjectsKept, QueueKept DEF BaseInv
<1>5. ThreadsOK' BY <1>1, <1>2, CallGoes, ThreadGoes
<1>. QED BY <1>1, <1>3, <1>4, <1>5, UserStepOK

LEMMA CallStepOK ==
    ASSUME BaseInv, NEW c \in Calls, CallStep(c) \/ CallTimesOut(c)
    PROVE  BaseInv' /\ Grows
<1>. PICK r \in Remotes : r = Target[c] BY PeerAssumption
<1>. USE DEF CallPcs
<1>1. CASE CallBegins(c)
  <2>1. PICK step \in CallPcs : Goes(c, step) BY <1>1 DEF CallBegins
  <2>. QED BY <1>1, <2>1, CallGoes, OnlyPcChanges DEF CallBegins
<1>2. CASE CallRegisters(c)
  <2>1. CASE closed /\ Goes(c, "raised") /\ UNCHANGED pendingConnects
    <3>1. UNCHANGED coreVars BY <1>2, <2>1 DEF CallRegisters, coreVars, tableVars
    <3>. QED BY <2>1, <3>1, CallGoes, OnlyPcChanges
  <2>2. CASE /\ pendingConnects' = [pendingConnects EXCEPT ![Target[c]] = c]
             /\ Goes(c, "dial")
    BY <1>2, <2>2, CallTablesOK DEF CallRegisters
  <2>. QED BY <1>2, <2>1, <2>2 DEF CallRegisters
<1>3. CASE CallDials(c)
  <2>1. RakOK' /\ Grows BY <1>3, RawConnectOK DEF CallDials, BaseInv
  <2>2. TablesOK' /\ ObjectsOK' /\ QueueOK' /\ UNCHANGED pending
    BY <1>3, <2>1, TablesKept, ObjectsKept, QueueKept DEF CallDials, BaseInv, objectVars
  <2>3. PICK step \in CallPcs : Goes(c, step) BY <1>3 DEF CallDials
  <2>4. ThreadsOK' BY <2>1, <2>2, <2>3, CallGoes, ThreadGoes
  <2>. QED BY <1>3, <2>1, <2>2, <2>4, UserStepOK DEF CallDials
<1>4. CASE CallUndials(c) BY <1>4, CallTablesOK DEF CallUndials, PopPendingOf
<1>5. CASE CallFinishes(c)
  <2>1. CASE Goes(c, "raised")
    BY <1>5, <2>1, CallGoes, OnlyPcChanges DEF CallFinishes
  <2>2. CASE /\ pending[c].connection # None
             /\ pc' = [pc EXCEPT ![c] = "returned", ![pending[c].connection] = "using"]
    <3>1. PICK s \in Sessions : s = pending[c].connection /\ Known(s)
      BY <2>2 DEF BaseInv, ObjectsOK, ObjectTypeOK, ObjectInv, PendingConnect
    <3>2. UNCHANGED <<rawVars, tableVars, objectVars, acceptQueue, pumpVars, closeVars, pending>>
      BY <1>5 DEF CallFinishes, coreVars, objectVars
    <3>3. RakOK' /\ Grows BY <3>2, RakUnchanged DEF BaseInv
    <3>4. TablesOK' /\ ObjectsOK' /\ QueueOK'
      BY <3>2, <3>3, TablesKept, ObjectsKept, QueueKept DEF BaseInv
    <3>5. MayGo(c, "returned") /\ "returned" \notin ClosePcs BY CallGoes DEF ClosePcs
    <3>6. ThreadsOK' BY <2>2, <3>1, <3>2, <3>3, <3>5, HandsOver
    <3>. QED BY <3>2, <3>3, <3>4, <3>6, UserStepOK
  <2>. QED BY <1>5, <2>1, <2>2 DEF CallFinishes
<1>6. CASE CallTimesOut(c) BY <1>6, CallGoes, OnlyPcChanges DEF CallTimesOut
<1>7. CASE CallAbandons(c)
  <2>1. PICK step \in CallPcs : Goes(c, step) BY <1>7 DEF CallAbandons
  <2>. QED BY <1>7, <2>1, CallTablesOK DEF CallAbandons, PopPendingOf
<1>8. CASE CallCancels(c)
  <2>1. RakOK' /\ Grows BY <1>8, RawCancelOK DEF CallCancels, BaseInv
  <2>2. TablesOK' /\ ObjectsOK' /\ QueueOK' /\ UNCHANGED pending
    BY <1>8, <2>1, TablesKept, ObjectsKept, QueueKept DEF CallCancels, BaseInv, objectVars
  <2>3. ThreadsOK' BY <1>8, <2>1, <2>2, CallGoes, ThreadGoes DEF CallCancels
  <2>. QED BY <1>8, <2>1, <2>2, <2>3, UserStepOK DEF CallCancels
<1>9. CASE CallRewaits(c)
  <2>1. CASE pending[c].connection = None
    BY <1>9, <2>1, CallGoes, OnlyPcChanges DEF CallRewaits
  <2>2. CASE pending[c].connection # None
    <3>1. MayGo(c, "close") /\ c \in Threads BY <2>2, ThreadKinds DEF MayGo, ClosePcs
    <3>. QED BY <1>9, <2>2, <3>1, OnlyPcChanges DEF CallRewaits
  <2>. QED BY <2>1, <2>2
<1>10. CASE CloseStep(c) BY <1>10, CloseStepOK
<1>. QED BY <1>1, <1>2, <1>3, <1>4, <1>5, <1>6, <1>7, <1>8, <1>9, <1>10 DEF CallStep

LEMMA OwnerStepOK ==
    ASSUME BaseInv, NEW s \in Sessions, OwnerStep(s) \/ OwnerCloses(s)
    PROVE  BaseInv' /\ Grows
<1>1. CASE OwnerReceives(s)
  <2>1. RakOK' /\ Grows BY <1>1, RakUnchanged DEF OwnerReceives, BaseInv
  <2>2. mailbox[s] \in Mailboxes(Sessions) BY DEF BaseInv, ObjectsOK, ObjectTypeOK
  <2>3. Tail(mailbox[s].items) \in Seq(Sessions)
    BY <1>1, <2>2, HeadTailProperties DEF OwnerReceives, Mailboxes
  <2>4. PICK m \in Mailboxes(Sessions) : m = TakeItem(mailbox[s])
    BY <2>2, <2>3 DEF TakeItem, Mailboxes
  <2>5. ObjectsOK' BY <1>1, <2>4, MailboxChanges DEF OwnerReceives, BaseInv
  <2>6. TablesOK' /\ QueueOK' BY <1>1, <2>1, TablesKept, QueueKept DEF OwnerReceives, BaseInv
  <2>7. ThreadsOK' BY <1>1, <2>1, ThreadsKept DEF OwnerReceives, BaseInv
  <2>. QED BY <1>1, <2>1, <2>5, <2>6, <2>7, UserStepOK DEF OwnerReceives
<1>2. CASE OwnerSeesEnd(s) \/ OwnerCloses(s)
  <2>1. Known(s)
    BY <1>2 DEF OwnerSeesEnd, OwnerCloses, BaseInv, ThreadsOK, ThreadInv
  <2>2. MayGo(s, "close") /\ s \in Threads BY <2>1, ThreadKinds DEF MayGo, ClosePcs
  <2>. QED BY <1>2, <2>2, OnlyPcChanges DEF OwnerSeesEnd, OwnerCloses
<1>3. CASE CloseStep(s) BY <1>3, CloseStepOK
<1>. QED BY <1>1, <1>2, <1>3 DEF OwnerStep

LEMMA QueueShortened ==
    ASSUME QueueOK, UNCHANGED rawVars, acceptQueue # <<>>, acceptQueue' = Tail(acceptQueue)
    PROVE  /\ QueueOK'
           /\ Head(acceptQueue) \in Sessions \cup {None}
           /\ Head(acceptQueue) # None => Known(Head(acceptQueue))
<1>. DEFINE Item == Sessions \cup {None}
<1>1. acceptQueue \in Seq(Item) BY DEF QueueOK, QueueTypeOK
<1>2. \A i \in 1 .. Len(acceptQueue) : acceptQueue[i] # None => Known(acceptQueue[i])
  BY DEF QueueOK, QueueInv
<1>. HIDE DEF Item
<1>3. /\ acceptQueue' \in Seq(Item)
      /\ Len(acceptQueue) \in Nat /\ Len(acceptQueue) # 0
      /\ Len(acceptQueue') = Len(acceptQueue) - 1
      /\ \A i \in 1 .. Len(acceptQueue') : acceptQueue'[i] = acceptQueue[i + 1]
      /\ Head(acceptQueue) = acceptQueue[1]
  BY <1>1, HeadTailProperties, LenProperties, EmptySeq
<1>4. 1 \in 1 .. Len(acceptQueue) BY <1>3
<1>5. acceptQueue[1] \in Item BY <1>1, <1>4, ElementOfSeq
<1>6. ASSUME NEW i \in 1 .. Len(acceptQueue'), acceptQueue'[i] # None
      PROVE  peerOf'[acceptQueue'[i]] # None
  <2>1. i + 1 \in 1 .. Len(acceptQueue) /\ acceptQueue'[i] = acceptQueue[i + 1] BY <1>3
  <2>2. Known(acceptQueue[i + 1]) BY <1>2, <1>6, <2>1
  <2>. QED BY <2>1, <2>2 DEF Known, rawVars
<1>. QED BY <1>2, <1>3, <1>4, <1>5, <1>6 DEF QueueOK, QueueTypeOK, QueueInv, Known, Item

LEMMA AcceptorStepOK ==
    ASSUME BaseInv, NEW a \in Acceptors, AcceptorStep(a) \/ AcceptTimesOut(a)
    PROVE  BaseInv' /\ Grows
<1>1. \A step \in AcceptorPcs : a \in Threads /\ MayGo(a, step) BY ThreadKinds DEF MayGo
<1>. USE DEF AcceptorPcs
<1>2. CASE AcceptBegins(a)
  <2>1. PICK step \in AcceptorPcs : Goes(a, step) BY <1>2 DEF AcceptBegins
  <2>. QED BY <1>1, <1>2, <2>1, OnlyPcChanges DEF AcceptBegins
<1>3. CASE AcceptTimesOut(a) BY <1>1, <1>3, OnlyPcChanges DEF AcceptTimesOut
<1>4. CASE AcceptGets(a)
  <2>1. RakOK' /\ Grows BY <1>4, RakUnchanged DEF AcceptGets, BaseInv
  <2>2. QueueOK' BY <1>4, QueueShortened DEF AcceptGets, BaseInv
  <2>3. TablesOK' /\ ObjectsOK' /\ UNCHANGED pending
    BY <1>4, <2>1, TablesKept, ObjectsKept DEF AcceptGets, BaseInv, objectVars
  <2>4. ThreadsOK'
    <3>1. CASE Goes(a, "reput") BY <1>1, <2>1, <2>3, <3>1, ThreadGoes
    <3>2. CASE /\ Head(acceptQueue) # None
               /\ pc' = [pc EXCEPT ![a] = "idle", ![Head(acceptQueue)] = "using"]
      <4>1. PICK s \in Sessions : s = Head(acceptQueue) /\ Known(s)
        BY <1>4, <3>2, QueueShortened DEF AcceptGets, BaseInv
      <4>2. MayGo(a, "idle") /\ "idle" \notin ClosePcs BY <1>1 DEF ClosePcs
      <4>. QED BY <2>1, <2>3, <3>2, <4>1, <4>2, HandsOver
    <3>. QED BY <1>4, <3>1, <3>2 DEF AcceptGets
  <2>. QED BY <1>4, <2>1, <2>2, <2>3, <2>4, UserStepOK DEF AcceptGets
<1>5. CASE AcceptReputs(a)
  <2>1. RakOK' /\ Grows BY <1>5, RakUnchanged DEF AcceptReputs, BaseInv
  <2>2. QueueOK' BY <1>5, <2>1, QueueAppended DEF AcceptReputs, BaseInv
  <2>3. TablesOK' /\ ObjectsOK' /\ UNCHANGED pending
    BY <1>5, <2>1, TablesKept, ObjectsKept DEF AcceptReputs, BaseInv, objectVars
  <2>4. ThreadsOK' BY <1>1, <1>5, <2>1, <2>3, ThreadGoes DEF AcceptReputs
  <2>. QED BY <1>5, <2>1, <2>2, <2>3, <2>4, UserStepOK DEF AcceptReputs
<1>. QED BY <1>2, <1>3, <1>4, <1>5 DEF AcceptorStep

LEMMA RakNetMovesOK ==
    ASSUME BaseInv, RakNetMoves, UNCHANGED pc
    PROVE  BaseInv' /\ Grows
<1>1. RakOK' /\ Grows BY RakNetStepOK DEF RakNetMoves, BaseInv
<1>2. TablesOK' /\ ObjectsOK' /\ QueueOK' /\ UNCHANGED pending
  BY <1>1, TablesKept, ObjectsKept, QueueKept DEF RakNetMoves, BaseInv, objectVars
<1>3. ThreadsOK' BY <1>1, <1>2, ThreadsKept DEF BaseInv
<1>. QED BY <1>1, <1>2, <1>3, UserStepOK DEF RakNetMoves

-----------------------------------------------------------------------------
(* BaseInv is inductive. *)

LEMMA BaseInit ==
    ASSUME Init
    PROVE  BaseInv
<1>. USE DEF Init, CoreInit, RakNetInit
<1>1. RakOK
  <2>1. packets \in Seq(Packet) /\ Len(packets) = 0 BY EmptySeq
  <2>. QED BY <2>1 DEF RakOK, RakNetTypeOK, RawStates, RakInv, PacketsOK
<1>2. TablesOK BY DEF TablesOK, TableTypeOK, TableInv
<1>3. EmptyMailbox \in Mailboxes(Sessions) BY EmptySeq DEF EmptyMailbox, Mailboxes
<1>4. ObjectsOK BY <1>3 DEF ObjectsOK, ObjectTypeOK, ObjectInv, PendingConnect
<1>5. QueueOK
  <2>1. acceptQueue \in Seq(Sessions \cup {None}) /\ Len(acceptQueue) = 0 BY EmptySeq
  <2>. QED BY <2>1 DEF QueueOK, QueueTypeOK, QueueInv
<1>6. PumpOK BY PumpLeaves DEF PumpOK, PumpTypeOK, PumpInv, HandsInv
<1>7. CloseOK BY DEF CloseOK, CloseTypeOK, CloseInv, ClosePhases
<1>8. ThreadsOK
  BY DEF ThreadsOK, ThreadTypeOK, ThreadInv, Threads, CallPcs, ClosePcs, OwnerPcs, AcceptorPcs
<1>. QED BY <1>1, <1>2, <1>4, <1>5, <1>6, <1>7, <1>8 DEF BaseInv

LEMMA BaseStep ==
    ASSUME BaseInv, [Next]_vars
    PROVE  BaseInv' /\ Grows
<1>1. CASE UNCHANGED vars
  <2>1. UNCHANGED <<rawVars, tableVars, objectVars, acceptQueue, pumpVars, closeVars, pc, pending>>
    BY <1>1 DEF vars, coreVars, objectVars
  <2>2. RakOK' /\ Grows BY <2>1, RakUnchanged DEF BaseInv
  <2>3. TablesOK' /\ ObjectsOK' /\ QueueOK' /\ ThreadsOK'
    BY <2>1, <2>2, TablesKept, ObjectsKept, QueueKept, ThreadsKept DEF BaseInv
  <2>. QED BY <2>1, <2>2, <2>3, UserStepOK
<1>2. CASE Next
  BY <1>2, RakNetMovesOK, PumpStepOK, PumpCrashesOK, PeerClosesOK, CloserStepOK, CallStepOK,
     OwnerStepOK, AcceptorStepOK DEF Next
<1>. QED BY <1>1, <1>2

LEMMA BaseInvariant == Spec => []BaseInv
<1>1. Init => BaseInv BY BaseInit
<1>2. BaseInv /\ [Next]_vars => BaseInv' BY BaseStep
<1>. QED BY <1>1, <1>2, PTL DEF Spec

(* Every variable of a Peer keeps its type, whatever the threads, the      *)
(* remotes and the sizes of the queues; in particular no callback indexes  *)
(* the table with a guid that was never seen, and no close() is reached    *)
(* with a connect() that has no connection.                                *)
THEOREM PeerTypeCorrect == Spec => []TypeOK
<1>1. BaseInv => TypeOK
  BY DEF BaseInv, TypeOK, CoreTypeOK, RakOK, TablesOK, ObjectsOK, QueueOK, PumpOK, CloseOK,
         ThreadsOK
<1>. QED BY <1>1, BaseInvariant, PTL
=============================================================================
