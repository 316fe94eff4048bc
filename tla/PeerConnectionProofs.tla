------------------------ MODULE PeerConnectionProofs -------------------------
(***************************************************************************)
(* Where a connection that is connected is to be found.  It has a holder:  *)
(* on its way to its owner it is with the pump, in the accept queue or in  *)
(* a pending connect, and a connect() that gives up was given none, or     *)
(* closes it.  And it is in the table, so that the pump and the teardown   *)
(* can end it, since RakNet's packets come in an order in which no insert  *)
(* replaces another Connection.  Before that, it is built: an established  *)
(* session is announced to the pump, and its connect() is found.           *)
(***************************************************************************)
EXTENDS PeerObjectProofs, FiniteSetTheorems

(* What a step must leave alone for a call that has not dialled, or has    *)
(* given up, to stay as it is.                                             *)
WorldQuiet(c) ==
    /\ raw'[Target[c]] = "connecting" => raw[Target[c]] = "connecting"
    /\ \A i \in 1 .. Len(packets') : Accepts(packets'[i], Target[c]) =>
           \/ \E j \in 1 .. Len(packets) : packets'[i] = packets[j]
           \/ raw[Target[c]] = "connecting"
    /\ pumpPc' = "connect_succeeded" /\ packet'.from = Target[c] =>
           \/ pumpPc = "connect_succeeded" /\ packet' = packet
           \/ \E j \in 1 .. Len(packets) : packet' = packets[j] /\ Accepts(packets[j], Target[c])
    /\ InTable(c)' => InTable(c)
    /\ Committed(c)' => \/ Committed(c)
                        \/ InTable(c) /\ pumpPc = "connect_succeeded" /\ packet.from = Target[c]
    /\ pending'[c].connection = pending[c].connection \/ Committed(c)

ClosedStay == \A s \in Sessions : connState[s] = "closed" => connState'[s] = "closed"

LEMMA WorldKeeps ==
    ASSUME BaseInv, ClosedStay, NEW c \in Calls, WorldQuiet(c)
    PROVE  /\ NotDialled(c) => NotDialled(c)'
           /\ GivenUp(c) => GivenUp(c)'
<1>. USE DEF WorldQuiet
<1>1. ASSUME NotDialled(c) PROVE NotDialled(c)'
  <2>. USE <1>1 DEF NotDialled
  <2>1. raw'[Target[c]] # "connecting" OBVIOUS
  <2>2. \A i \in 1 .. Len(packets') : ~Accepts(packets'[i], Target[c]) OBVIOUS
  <2>3. ~(pumpPc' = "connect_succeeded" /\ packet'.from = Target[c]) OBVIOUS
  <2>4. ~Committed(c)' /\ pending'[c].connection = None OBVIOUS
  <2>. QED BY <2>1, <2>2, <2>3, <2>4 DEF Accepts
<1>2. ASSUME GivenUp(c) PROVE GivenUp(c)'
  <2>1. ~InTable(c)' /\ ~Committed(c)' BY <1>2 DEF GivenUp
  <2>2. pending'[c].connection = pending[c].connection BY <1>2 DEF GivenUp
  <2>3. pending[c].connection \in Sessions \cup {None}
    BY DEF BaseInv, ObjectsOK, ObjectTypeOK, PendingConnect
  <2>. QED BY <1>2, <2>1, <2>2, <2>3 DEF GivenUp, ClosedStay
<1>. QED BY <1>1, <1>2

(* Whoever changes the state of a Connection builds it or closes it. *)
LEMMA StateMoves ==
    ASSUME [Next]_vars
    PROVE  \/ UNCHANGED connState
           \/ \E s : MarkClosed(s)
           \/ IncomingInserts \/ SucceededInserts
<1>1. CASE UNCHANGED vars BY <1>1 DEF vars, coreVars, objectVars
<1>2. CASE RakNetMoves \/ PeerCloses \/ PumpCrashes
  BY <1>2 DEF RakNetMoves, PeerCloses, PumpCrashes, objectVars
<1>3. CASE PumpStep
  BY <1>3
     DEF PumpStep, PumpChecks, PumpIdles, PumpReceives, IncomingQueues, PumpPopsPending,
         SucceededPublishes, SucceededSets, FailedSets, MessageLooksUp, MessagePuts, OverflowPops,
         OverflowMarks, OverflowHangsUp, OverflowClosesMailbox, DisconnectedPops,
         DisconnectedMarks, DisconnectedClosesMailbox, PumpFails, objectVars
<1>4. CASE CloserStep
  BY <1>4 DEF CloserStep, CloserJoinsPump, CloserShutsDown, FinishMarks, FinishClosesMailbox,
     FinishFailsPending, FinishQueuesSentinel, objectVars
<1>5. ASSUME NEW t, CloseStep(t) PROVE UNCHANGED connState \/ \E s : MarkClosed(s)
  BY <1>5 DEF CloseStep, CloseChecks, ClosePops, CloseMarks, CloseHangsUp, CloseClosesMailbox,
     coreVars, objectVars
<1>6. ASSUME NEW c \in Calls, CallStep(c) \/ CallTimesOut(c)
      PROVE  UNCHANGED connState \/ \E s : MarkClosed(s)
  BY <1>5, <1>6 DEF CallStep, CallBegins, CallRegisters, CallDials, CallUndials, CallFinishes,
     CallAbandons, CallCancels, CallRewaits, CallTimesOut, PopPendingOf, coreVars, objectVars
<1>7. ASSUME NEW s \in Sessions, OwnerStep(s) \/ OwnerCloses(s)
      PROVE  UNCHANGED connState \/ \E q : MarkClosed(q)
  BY <1>5, <1>7 DEF OwnerStep, OwnerReceives, OwnerSeesEnd, OwnerCloses, coreVars, objectVars
<1>8. ASSUME NEW a \in Acceptors, AcceptorStep(a) \/ AcceptTimesOut(a) PROVE UNCHANGED connState
  BY <1>8 DEF AcceptorStep, AcceptBegins, AcceptGets, AcceptReputs, AcceptTimesOut,
     coreVars, objectVars
<1>. QED BY <1>1, <1>2, <1>3, <1>4, <1>6, <1>7, <1>8 DEF Next

LEMMA StatesFollow ==
    ASSUME BaseInv, LifeInv, [Next]_vars
    PROVE  /\ ClosedStay
           /\ \A s \in Sessions : connState'[s] = "open" =>
                  connState[s] = "open" \/ IncomingInserts \/ SucceededInserts
<1>. USE DEF ClosedStay
<1>1. connState \in [Sessions -> {"none", "open", "closed"}] BY DEF BaseInv, ObjectsOK, ObjectTypeOK
<1>2. CASE UNCHANGED connState BY <1>2
<1>3. CASE \E s : MarkClosed(s)
  <2>1. \A s \in Sessions : connState'[s] \in {connState[s], "closed"} BY <1>1, <1>3 DEF MarkClosed
  <2>. QED BY <2>1
<1>4. CASE IncomingInserts \/ SucceededInserts
  <2>1. pumpPc \in OpeningPump BY <1>4 DEF IncomingInserts, SucceededInserts, OpeningPump
  <2>2. connState[packet.session] = "none" BY <2>1 DEF LifeInv, OpeningInv, OpeningPump
  <2>3. connState' = [connState EXCEPT ![packet.session] = "open"]
    BY <1>4 DEF IncomingInserts, SucceededInserts, BuildConnection
  <2>. QED BY <1>1, <1>4, <2>2, <2>3
<1>. QED BY <1>2, <1>3, <1>4, StateMoves

-----------------------------------------------------------------------------
(* RakNet *)

RawQuiet ==
    /\ \A r \in Remotes : raw'[r] = "connecting" => raw[r] = "connecting"
    /\ \A r \in Remotes : \A i \in 1 .. Len(packets') : Accepts(packets'[i], r) =>
           \/ \E j \in 1 .. Len(packets) : packets'[i] = packets[j]
           \/ raw[r] = "connecting"

LEMMA RawUntouched ==
    ASSUME UNCHANGED <<raw, packets>>
    PROVE  RawQuiet
BY DEF RawQuiet

LEMMA AppendedRawQuiet ==
    ASSUME RakOK, NEW p \in Packet, packets' = Append(packets, p),
           \A r \in Remotes : raw'[r] = "connecting" => raw[r] = "connecting",
           \A r \in Remotes : Accepts(p, r) => raw[r] = "connecting"
    PROVE  RawQuiet
<1>1. packets \in Seq(Packet) BY DEF RakOK, RakNetTypeOK
<1>2. /\ Len(packets) \in Nat /\ Len(packets') = Len(packets) + 1
      /\ \A i \in 1 .. Len(packets) : packets'[i] = packets[i]
      /\ packets'[Len(packets) + 1] = p
  BY <1>1, AppendProperties, LenProperties
<1>3. ASSUME NEW r \in Remotes, NEW i \in 1 .. Len(packets'), Accepts(packets'[i], r)
      PROVE  \/ \E j \in 1 .. Len(packets) : packets'[i] = packets[j]
             \/ raw[r] = "connecting"
  <2>1. CASE i \in 1 .. Len(packets) BY <1>2, <2>1
  <2>2. CASE i = Len(packets) + 1 BY <1>2, <1>3, <2>2
  <2>. QED BY <1>2, <2>1, <2>2
<1>. QED BY <1>3 DEF RawQuiet

LEMMA EndsRawQuiet ==
    ASSUME RakOK, NEW r \in Remotes, NEW mid \in Byte \ OpeningIds, Ends(r, mid)
    PROVE  RawQuiet
<1>1. PICK p \in Packet : p = [id |-> mid, from |-> r, session |-> session[r]]
  BY MakePacket DEF RakOK, RakNetTypeOK
<1>2. \A q \in Remotes : raw'[q] = "connecting" => raw[q] = "connecting"
  BY DEF Ends, RakOK, RakNetTypeOK
<1>3. \A q : ~Accepts(p, q) BY <1>1 DEF Accepts, OpeningIds
<1>. QED BY <1>1, <1>2, <1>3, AppendedRawQuiet DEF Ends

LEMMA OpensRawQuiet ==
    ASSUME RakOK, NEW r \in Remotes, NEW s \in Sessions, NEW mid \in OpeningIds, Opens(r, s, mid),
           mid = ID_CONNECTION_REQUEST_ACCEPTED => raw[r] = "connecting"
    PROVE  RawQuiet
<1>1. PICK p \in Packet : p = [id |-> mid, from |-> r, session |-> s]
  BY MakePacket, IdValues DEF OpeningIds
<1>2. \A q \in Remotes : raw'[q] = "connecting" => raw[q] = "connecting"
  BY DEF Opens, RakOK, RakNetTypeOK
<1>3. \A q \in Remotes : Accepts(p, q) => raw[q] = "connecting" BY <1>1 DEF Accepts
<1>. QED BY <1>1, <1>2, <1>3, AppendedRawQuiet DEF Opens

LEMMA RakNetStepRawQuiet ==
    ASSUME RakOK, RakNetStep
    PROVE  RawQuiet
<1>1. ASSUME NEW r \in Remotes, NEW s \in Sessions, RemoteConnects(r, s) PROVE RawQuiet
  <2>1. ID_NEW_INCOMING_CONNECTION # ID_CONNECTION_REQUEST_ACCEPTED
    BY DEF ID_NEW_INCOMING_CONNECTION, ID_CONNECTION_REQUEST_ACCEPTED
  <2>. QED BY <1>1, <2>1, OpensRawQuiet DEF RemoteConnects, OpeningIds
<1>2. ASSUME NEW r \in Remotes, NEW s \in Sessions, RemoteAccepts(r, s) PROVE RawQuiet
  BY <1>2, OpensRawQuiet DEF RemoteAccepts, OpeningIds
<1>3. ASSUME NEW r \in Remotes, RemoteRejects(r) PROVE RawQuiet
  BY <1>3, EndsRawQuiet, IdValues DEF RemoteRejects
<1>4. ASSUME NEW r \in Remotes, RemoteLeaves(r) \/ LocalCloseCompletes(r) PROVE RawQuiet
  BY <1>4, EndsRawQuiet, IdValues DEF RemoteLeaves, LocalCloseCompletes
<1>5. ASSUME NEW r \in Remotes, RemoteSends(r) PROVE RawQuiet
  <2>1. PICK p \in Packet : p = [id |-> ID_USER_PACKET_ENUM, from |-> r, session |-> session[r]]
    BY MakePacket, IdValues DEF RakOK, RakNetTypeOK
  <2>2. \A q : ~Accepts(p, q) BY <2>1, IdValues DEF Accepts, OpeningIds
  <2>. QED BY <1>5, <2>1, <2>2, AppendedRawQuiet DEF RemoteSends
<1>. QED BY <1>1, <1>2, <1>3, <1>4, <1>5 DEF RakNetStep

LEMMA HangUpRawQuiet ==
    ASSUME RakOK, NEW s \in Sessions, Known(s), NEW notify \in BOOLEAN, HangUp(s, notify)
    PROVE  RawQuiet
<1>1. Guid(s) \in Remotes BY DEF Guid, Known, RakOK, RakNetTypeOK
<1>2. CASE UNCHANGED rawVars BY <1>2, RawUntouched DEF rawVars
<1>3. CASE Ends(Guid(s), ID_CONNECTION_LOST) BY <1>1, <1>3, EndsRawQuiet, IdValues
<1>4. CASE raw' = [raw EXCEPT ![Guid(s)] = "closing"] /\ UNCHANGED packets
  BY <1>4 DEF RawQuiet, RakOK, RakNetTypeOK
<1>. QED BY <1>2, <1>3, <1>4 DEF HangUp, RawCloseConnection, Ends

LEMMA ShutdownRawQuiet ==
    ASSUME RawShutdown
    PROVE  RawQuiet
<1>1. Len(packets') = 0 BY EmptySeq DEF RawShutdown
<1>. QED BY <1>1 DEF RawQuiet, RawShutdown

LEMMA ReceiveRawQuiet ==
    ASSUME RakOK, NEW p, RawReceive(p)
    PROVE  RawQuiet
<1>1. ASSUME NEW i \in 1 .. Len(packets')
      PROVE  \E j \in 1 .. Len(packets) : packets'[i] = packets[j]
  BY ReceiveTakes
<1>. QED BY <1>1 DEF RawQuiet, RawReceive

-----------------------------------------------------------------------------
(* The pump and the teardown *)

EntriesQuiet == \A c \in Calls : InTable(c)' => InTable(c)

ConnectionsStay == \A c \in Calls : pending'[c].connection = pending[c].connection

LEMMA EntriesFewer ==
    ASSUME \A r \in Remotes : pendingConnects'[r] \in {pendingConnects[r], None}
    PROVE  EntriesQuiet
BY PeerAssumption, NoneIsNothing DEF EntriesQuiet, InTable

(* Where the pump has a pending connect that it will give a connection. *)
CommittedPcs == {"succeeded_insert", "succeeded_publish"}

(* A step that hands no pending connect to the pump. *)
LEMMA WorldStays ==
    ASSUME RawQuiet, EntriesQuiet, ConnectionsStay, popped' \in {popped, None},
           pumpPc' \in CommittedPcs /\ popped' # None => pumpPc \in CommittedPcs,
           pumpPc' = "connect_succeeded" => pumpPc = "connect_succeeded" /\ packet' = packet
    PROVE  \A c \in Calls : WorldQuiet(c)
<1>. SUFFICES ASSUME NEW c \in Calls PROVE WorldQuiet(c) OBVIOUS
<1>1. Target[c] \in Remotes /\ c # None BY PeerAssumption, NoneIsNothing
<1>2. Committed(c)' => Committed(c) BY <1>1 DEF Committed, CommittedPcs
<1>. QED BY <1>1, <1>2 DEF WorldQuiet, RawQuiet, EntriesQuiet, ConnectionsStay

LEMMA ReceiveWorld ==
    ASSUME BaseInv, PumpReceives \/ PumpCrashes
    PROVE  \A c \in Calls : WorldQuiet(c)
<1>. PICK p : p = Head(packets) OBVIOUS
<1>1. RawReceive(p) /\ UNCHANGED <<tableVars, objectVars>> BY DEF PumpReceives, PumpCrashes
<1>2. RawQuiet BY <1>1, ReceiveRawQuiet DEF BaseInv
<1>3. EntriesQuiet /\ ConnectionsStay
  BY <1>1 DEF tableVars, objectVars, EntriesQuiet, ConnectionsStay, InTable
<1>4. popped = None /\ popped' = None /\ pumpPc = "receive"
  BY PumpLeaves DEF BaseInv, PumpOK, PumpInv, PumpReceives, PumpCrashes, PumpReturns, PumpGoesTo
<1>5. CASE pumpPc' # "connect_succeeded" BY <1>2, <1>3, <1>4, <1>5, WorldStays
<1>6. CASE pumpPc' = "connect_succeeded"
  <2>1. pumpPc' = Route(p.id) /\ packet' = p
    BY <1>6 DEF PumpReceives, PumpCrashes, PumpReturns, PumpGoesTo
  <2>2. p \in Packet /\ p = packets[1] /\ 1 \in 1 .. Len(packets)
    BY <1>1, RawReceiveOK, ReceiveTakes DEF BaseInv
  <2>3. p.id = ID_CONNECTION_REQUEST_ACCEPTED
    BY <1>6, <2>1, <2>2, PacketProperties, NoneIsNothing DEF Route
  <2>4. \A c \in Calls : Target[c] \in Remotes /\ c # None BY PeerAssumption, NoneIsNothing
  <2>5. \A c \in Calls : ~Committed(c)' BY <1>4, <2>4 DEF Committed
  <2>. QED BY <1>2, <1>3, <2>1, <2>2, <2>3, <2>4, <2>5
       DEF WorldQuiet, RawQuiet, EntriesQuiet, ConnectionsStay, Accepts
<1>. QED BY <1>5, <1>6

LEMMA PopsPendingWorld ==
    ASSUME BaseInv, ResolutionInv, PumpPopsPending
    PROVE  \A c \in Calls : WorldQuiet(c)
<1>1. PICK r \in Remotes : r = packet.from
  BY PumpHolds, PumpLeaves, PacketProperties DEF BaseInv, PumpPopsPending
<1>2. pendingConnects' = [pendingConnects EXCEPT ![r] = None] /\ UNCHANGED <<pending, raw, packets>>
  BY <1>1 DEF PumpPopsPending, rawVars, objectVars
<1>3. EntriesQuiet BY <1>2, EntriesFewer DEF BaseInv, TablesOK, TableTypeOK
<1>4. RawQuiet /\ ConnectionsStay BY <1>2, RawUntouched DEF ConnectionsStay
<1>5. CASE PumpReturns BY <1>3, <1>4, <1>5, WorldStays DEF PumpReturns
<1>6. CASE /\ pendingConnects[r] # None /\ popped' = pendingConnects[r] /\ UNCHANGED packet
           /\ pumpPc' = IF pumpPc = "connect_succeeded" THEN "succeeded_insert" ELSE "failed_set"
  <2>1. \A c \in Calls : Target[c] \in Remotes BY PeerAssumption
  <2>2. Target[popped'] = r BY <1>6 DEF ResolutionInv
  <2>3. \A c \in Calls : Committed(c)' =>
            InTable(c) /\ pumpPc = "connect_succeeded" /\ packet.from = Target[c]
    BY <1>1, <1>6, <2>2 DEF Committed, InTable
  <2>. QED BY <1>3, <1>4, <1>6, <2>1, <2>3
       DEF WorldQuiet, RawQuiet, EntriesQuiet, ConnectionsStay
<1>. QED BY <1>1, <1>5, <1>6 DEF PumpPopsPending

LEMMA PublishesWorld ==
    ASSUME BaseInv, SucceededPublishes
    PROVE  \A c \in Calls : WorldQuiet(c)
<1>1. UNCHANGED <<raw, packets, pendingConnects, popped>> /\ pumpPc = "succeeded_publish"
  BY DEF SucceededPublishes, PumpGoesTo, rawVars, tableVars
<1>2. pumpPc' = "set_event" BY DEF SucceededPublishes, PumpGoesTo
<1>3. \A c \in Calls : pending'[c].connection = pending[c].connection \/ Committed(c)
  <2>1. pending \in [Calls -> PendingConnect] BY DEF BaseInv, ObjectsOK, ObjectTypeOK
  <2>2. \A c \in Calls : c # popped => pending'[c] = pending[c]
    BY <2>1 DEF SucceededPublishes
  <2>. QED BY <1>1, <2>2 DEF Committed
<1>4. \A c \in Calls : (Committed(c)' => Committed(c)) /\ (InTable(c)' => InTable(c))
  BY <1>1 DEF Committed, InTable
<1>. QED BY <1>1, <1>2, <1>3, <1>4 DEF WorldQuiet

(* Setting an event leaves the connection of a pending connect alone. *)
LEMMA ResolvesStay ==
    ASSUME BaseInv, SucceededSets \/ FailedSets \/ \E c \in Calls : FinishFailsPending(c)
    PROVE  ConnectionsStay
<1>1. pending \in [Calls -> PendingConnect] BY DEF BaseInv, ObjectsOK, ObjectTypeOK
<1>2. CASE SucceededSets BY <1>1, <1>2 DEF SucceededSets, ConnectionsStay, PendingConnect
<1>3. CASE FailedSets \/ \E c \in Calls : FinishFailsPending(c)
  <2>1. PICK reason : \A c \in Calls : pending'[c] \in
            {pending[c], [pending[c] EXCEPT !.reason = reason, !.event = TRUE]}
    BY <1>1, <1>3 DEF FailedSets, FinishFailsPending
  <2>. QED BY <1>1, <2>1 DEF ConnectionsStay, PendingConnect
<1>. QED BY <1>2, <1>3

LEMMA ResolvesWorld ==
    ASSUME BaseInv, SucceededSets \/ FailedSets
    PROVE  \A c \in Calls : WorldQuiet(c)
<1>1. UNCHANGED <<raw, packets, pendingConnects>> /\ popped' = None /\ pumpPc' = "check"
  BY DEF SucceededSets, FailedSets, PumpReturns, rawVars, tableVars
<1>2. EntriesQuiet BY <1>1 DEF EntriesQuiet, InTable
<1>. QED BY <1>1, <1>2, RawUntouched, ResolvesStay, WorldStays DEF CommittedPcs

LEMMA PumpWorld ==
    ASSUME BaseInv, ResolutionInv, PumpStep
    PROVE  \A c \in Calls : WorldQuiet(c)
<1>1. ASSUME UNCHANGED pending, popped' \in {popped, None},
             pumpPc' \in CommittedPcs => pumpPc \in CommittedPcs,
             pumpPc' # "connect_succeeded", RawQuiet,
             \A r \in Remotes : pendingConnects'[r] \in {pendingConnects[r], None}
      PROVE  \A c \in Calls : WorldQuiet(c)
  BY <1>1, EntriesFewer, WorldStays DEF ConnectionsStay
<1>2. CASE PumpChecks \/ PumpIdles \/ IncomingInserts \/ IncomingQueues \/ SucceededInserts
           \/ MessageLooksUp \/ MessagePuts \/ OverflowPops \/ OverflowMarks
           \/ OverflowClosesMailbox \/ DisconnectedPops \/ DisconnectedMarks
           \/ DisconnectedClosesMailbox
  <2>1. /\ UNCHANGED <<raw, packets, pending, pendingConnects>>
        /\ popped' \in {popped, None} /\ pumpPc' # "connect_succeeded"
        /\ pumpPc' \in CommittedPcs => pumpPc \in CommittedPcs
    BY <1>2 DEF CommittedPcs, PumpChecks, PumpIdles, IncomingInserts, IncomingQueues, SucceededInserts,
         MessageLooksUp, MessagePuts, OverflowPops, OverflowMarks, OverflowClosesMailbox,
         DisconnectedPops, DisconnectedMarks, DisconnectedClosesMailbox, PumpGoesTo, PumpReturns,
         rawVars, tableVars, objectVars
  <2>. QED BY <1>1, <2>1, RawUntouched
<1>3. CASE OverflowHangsUp
  <2>1. found \in Sessions /\ Known(found)
    BY <1>3, PumpHolds, PumpLeaves DEF BaseInv, OverflowHangsUp
  <2>2. RawQuiet BY <1>3, <2>1, HangUpRawQuiet DEF OverflowHangsUp, BaseInv
  <2>. QED BY <1>1, <1>3, <2>2 DEF OverflowHangsUp, PumpGoesTo, CommittedPcs, tableVars, objectVars
<1>4. CASE PumpFails
  <2>1. \A r \in Remotes : pendingConnects'[r] \in {pendingConnects[r], None}
    BY <1>4 DEF PumpFails, BeginClose, tableVars
  <2>. QED BY <1>1, <1>4, <2>1, RawUntouched DEF PumpFails, PumpGoesTo, CommittedPcs, rawVars, objectVars
<1>. QED BY <1>2, <1>3, <1>4, ReceiveWorld, PopsPendingWorld, PublishesWorld, ResolvesWorld
     DEF PumpStep

LEMMA CloserWorld ==
    ASSUME BaseInv, CloserStep \/ PeerCloses
    PROVE  \A c \in Calls : WorldQuiet(c)
<1>1. popped' = popped /\ (pumpPc' = pumpPc \/ FinishQueuesSentinel) /\ UNCHANGED packet
  BY DEF CloserStep, PeerCloses, CloserJoinsPump, CloserShutsDown, FinishMarks, FinishClosesMailbox,
     FinishFailsPending, FinishQueuesSentinel, PumpGoesTo, pumpVars
<1>2. pumpPc' \in CommittedPcs \cup {"connect_succeeded"} => pumpPc' = pumpPc
  BY <1>1 DEF FinishQueuesSentinel, PumpGoesTo, CommittedPcs
<1>3. RawQuiet
  BY RawUntouched, ShutdownRawQuiet
     DEF CloserStep, PeerCloses, CloserJoinsPump, CloserShutsDown, FinishMarks, FinishClosesMailbox,
         FinishFailsPending, FinishQueuesSentinel, rawVars
<1>4. \A r \in Remotes : pendingConnects'[r] \in {pendingConnects[r], None}
  BY DEF CloserStep, PeerCloses, BeginClose, CloserJoinsPump, CloserShutsDown, FinishMarks,
     FinishClosesMailbox, FinishFailsPending, FinishQueuesSentinel, tableVars
<1>5. ConnectionsStay
  <2>1. UNCHANGED pending => ConnectionsStay BY DEF ConnectionsStay
  <2>. QED BY <2>1, ResolvesStay DEF CloserStep, PeerCloses, CloserJoinsPump, CloserShutsDown,
       FinishMarks, FinishClosesMailbox, FinishQueuesSentinel, objectVars
<1>. QED BY <1>1, <1>2, <1>3, <1>4, <1>5, EntriesFewer, WorldStays DEF CommittedPcs

-----------------------------------------------------------------------------
(* The threads *)

(* All calls but some that have let go of what they asked for. *)
OthersOK(lost) == \A c \in Calls \ lost : CallOK(c)

LEMMA CallKept ==
    ASSUME BaseInv, ClosedStay, NEW c \in Calls, CallOK(c), WorldQuiet(c), pc'[c] = pc[c]
    PROVE  CallOK(c)'
BY WorldKeeps DEF CallOK

(* No other step of a thread reaches the pump or a pending connect. *)
LEMMA ThreadsLeave ==
    ASSUME \/ \E t \in Calls : CallStep(t) \/ CallTimesOut(t)
           \/ \E s \in Sessions : OwnerStep(s) \/ OwnerCloses(s)
           \/ \E a \in Acceptors : AcceptorStep(a) \/ AcceptTimesOut(a)
    PROVE  UNCHANGED <<pumpVars, pending>>
BY DEF CallStep, CallBegins, CallRegisters, CallDials, CallUndials, CallFinishes, CallAbandons,
       CallCancels, CallRewaits, CallTimesOut, PopPendingOf, OwnerStep, OwnerReceives,
       OwnerSeesEnd, OwnerCloses, AcceptorStep, AcceptBegins, AcceptGets, AcceptReputs,
       AcceptTimesOut, CloseStep, CloseChecks, ClosePops, CloseMarks, CloseHangsUp,
       CloseClosesMailbox, coreVars, objectVars

LEMMA CloseRawQuiet ==
    ASSUME BaseInv, NEW t \in Calls \cup Sessions, CloseStep(t)
    PROVE  RawQuiet /\ UNCHANGED pendingConnects
<1>1. UNCHANGED pendingConnects
  BY DEF CloseStep, CloseChecks, ClosePops, CloseMarks, CloseHangsUp, CloseClosesMailbox,
         coreVars, tableVars
<1>2. CASE CloseHangsUp(t)
  <2>1. pc[t] \in ClosePcs BY <1>2 DEF CloseHangsUp, ClosePcs
  <2>2. Closing(t) \in Sessions /\ Known(Closing(t)) BY <2>1, ClosingIsKnown
  <2>3. PICK notify \in BOOLEAN : HangUp(Closing(t), notify) BY <1>2 DEF CloseHangsUp
  <2>. QED BY <1>1, <2>2, <2>3, HangUpRawQuiet DEF BaseInv
<1>3. CASE ~CloseHangsUp(t)
  BY <1>1, <1>3, RawUntouched
     DEF CloseStep, CloseChecks, ClosePops, CloseMarks, CloseClosesMailbox, coreVars, rawVars
<1>. QED BY <1>2, <1>3

LEMMA ThreadWorld ==
    ASSUME UNCHANGED <<pumpVars, pending>>, NEW c \in Calls,
           raw'[Target[c]] = "connecting" => raw[Target[c]] = "connecting",
           RawQuiet \/ UNCHANGED packets,
           InTable(c)' => InTable(c)
    PROVE  WorldQuiet(c)
<1>1. UNCHANGED <<pumpPc, packet, popped>> BY DEF pumpVars
<1>2. Target[c] \in Remotes BY PeerAssumption
<1>. QED BY <1>1, <1>2 DEF WorldQuiet, RawQuiet, Committed

(* What a call does reaches no other call, as long as they dial different  *)
(* remotes.                                                                *)
LEMMA CallWorld ==
    ASSUME OneCallEach, BaseInv, NEW t \in Calls, CallStep(t) \/ CallTimesOut(t),
           NEW c \in Calls, c # t
    PROVE  WorldQuiet(c) /\ pc'[c] = pc[c]
<1>1. UNCHANGED <<pumpVars, pending>> BY ThreadsLeave
<1>2. Target[c] # Target[t] /\ Target[c] \in Remotes /\ Target[t] \in Remotes
  BY PeerAssumption DEF OneCallEach
<1>3. pc'[c] = pc[c]
  <2>1. c \in Threads /\ t \in Threads /\ c \notin Sessions BY ThreadKinds
  <2>2. pc \in [Threads -> CallPcs \cup ClosePcs \cup OwnerPcs \cup AcceptorPcs]
    BY DEF BaseInv, ThreadsOK, ThreadTypeOK
  <2>3. CASE CallFinishes(t)
    <3>1. pending[t].connection # None => pending[t].connection \in Sessions
      BY DEF BaseInv, ObjectsOK, ObjectTypeOK, PendingConnect
    <3>. QED BY <2>1, <2>2, <2>3, <3>1 DEF CallFinishes, Goes
  <2>4. CASE ~CallFinishes(t)
    <3>1. PICK step : Goes(t, step)
      BY <2>4 DEF CallStep, CallBegins, CallRegisters, CallDials, CallUndials, CallAbandons,
         CallCancels, CallRewaits, CallTimesOut, CloseStep, CloseChecks, ClosePops, CloseMarks,
         CloseHangsUp, CloseClosesMailbox
    <3>. QED BY <2>1, <2>2, <3>1 DEF Goes
  <2>. QED BY <2>3, <2>4
<1>4. CASE CloseStep(t)
  <2>1. RawQuiet /\ (InTable(c)' => InTable(c)) BY <1>4, CloseRawQuiet DEF InTable
  <2>. QED BY <1>1, <1>2, <1>3, <2>1, ThreadWorld DEF RawQuiet
<1>5. CASE CallDials(t) \/ CallCancels(t)
  <2>1. raw'[Target[c]] = raw[Target[c]] /\ UNCHANGED packets
    BY <1>2, <1>5
       DEF CallDials, CallCancels, RawConnect, RawCancelConnectionAttempt, BaseInv, RakOK, RakNetTypeOK
  <2>2. InTable(c)' => InTable(c) BY <1>5 DEF CallDials, CallCancels, tableVars, InTable
  <2>. QED BY <1>1, <1>3, <2>1, <2>2, ThreadWorld
<1>6. CASE CallRegisters(t) \/ CallUndials(t) \/ CallAbandons(t)
  <2>1. UNCHANGED <<raw, packets>>
    BY <1>6 DEF CallRegisters, CallUndials, CallAbandons, PopPendingOf, rawVars
  <2>2. pendingConnects'[Target[c]] = pendingConnects[Target[c]]
    BY <1>2, <1>6
       DEF CallRegisters, CallUndials, CallAbandons, PopPendingOf, BaseInv, TablesOK, TableTypeOK
  <2>. QED BY <1>1, <1>3, <2>1, <2>2, ThreadWorld DEF InTable
<1>7. CASE CallBegins(t) \/ CallFinishes(t) \/ CallTimesOut(t) \/ CallRewaits(t)
  <2>1. UNCHANGED <<raw, packets, pendingConnects>>
    BY <1>7 DEF CallBegins, CallFinishes, CallTimesOut, CallRewaits, coreVars, rawVars, tableVars
  <2>. QED BY <1>1, <1>3, <2>1, ThreadWorld DEF InTable
<1>. QED BY <1>4, <1>5, <1>6, <1>7 DEF CallStep

(* A pending connect whose event is set is out of everybody's hands. *)
LEMMA ResolvedIsOut ==
    ASSUME ResolutionInv, NEW c \in Calls, pending[c].event
    PROVE  ~InTable(c) /\ popped # c
BY NoneIsNothing DEF ResolutionInv, Fresh

LEMMA CallMovesOn ==
    ASSUME OneCallEach, BaseInv, ResolutionInv, LifeInv, NEW c \in Calls, CallOK(c),
           CallStep(c) \/ CallTimesOut(c)
    PROVE  CallOK(c)'
<1>1. UNCHANGED <<pumpVars, pending>> BY ThreadsLeave
<1>2. UNCHANGED <<pumpPc, packet, popped, pending>> BY <1>1 DEF pumpVars
<1>3. c \in Threads /\ c \notin Sessions BY ThreadKinds
<1>4. \A step : Goes(c, step) => pc'[c] = step
  BY <1>3 DEF Goes, BaseInv, ThreadsOK, ThreadTypeOK
<1>5. ASSUME NotDialled(c), UNCHANGED <<raw, packets>> PROVE NotDialled(c)'
  BY <1>2, <1>5 DEF NotDialled, Committed
<1>6. ASSUME ~InTable(c)', popped # c, pending[c].connection = None PROVE GivenUp(c)'
  BY <1>2, <1>6 DEF GivenUp, Committed
<1>7. CASE CallBegins(c)
  <2>1. UNCHANGED <<raw, packets, pendingConnects>> /\ pc[c] = "idle"
    BY <1>7 DEF CallBegins, coreVars, rawVars, tableVars
  <2>2. NotDialled(c)' BY <1>5, <2>1 DEF CallOK
  <2>3. GivenUp(c)' BY <1>6, <2>1 DEF ResolutionInv, Fresh, InTable
  <2>. QED BY <1>4, <1>7, <2>2, <2>3 DEF CallBegins, CallOK, ClosePcs
<1>8. CASE CallRegisters(c)
  <2>1. UNCHANGED <<raw, packets>> /\ pc[c] = "register" BY <1>8 DEF CallRegisters, rawVars
  <2>2. NotDialled(c)' BY <1>5, <2>1 DEF CallOK
  <2>3. CASE Goes(c, "raised") /\ UNCHANGED pendingConnects
    <3>1. GivenUp(c)' BY <1>6, <2>1, <2>3 DEF ResolutionInv, Fresh, InTable
    <3>. QED BY <1>4, <2>3, <3>1 DEF CallOK, ClosePcs
  <2>4. CASE Goes(c, "dial") BY <1>4, <2>2, <2>4 DEF CallOK, ClosePcs
  <2>. QED BY <1>8, <2>3, <2>4 DEF CallRegisters
<1>9. CASE CallDials(c)
  <2>1. CASE ConnectResult(Target[c]) = "CONNECTION_ATTEMPT_STARTED"
    <3>1. pc'[c] = "wait" BY <1>4, <1>9, <2>1 DEF CallDials
    <3>. QED BY <3>1 DEF CallOK, ClosePcs
  <2>2. CASE ConnectResult(Target[c]) # "CONNECTION_ATTEMPT_STARTED"
    <3>1. pc'[c] = "undial" /\ UNCHANGED <<raw, packets>> /\ pc[c] = "dial"
      BY <1>4, <1>9, <2>2 DEF CallDials, RawConnect
    <3>. QED BY <1>5, <3>1 DEF CallOK, ClosePcs
  <2>. QED BY <2>1, <2>2
<1>10. CASE CallUndials(c)
  <2>1. pc'[c] = "raised" /\ NotDialled(c) BY <1>4, <1>10 DEF CallUndials, CallOK
  <2>2. ~InTable(c)'
    BY <1>10, PeerAssumption, NoneIsNothing
       DEF CallUndials, PopPendingOf, InTable, BaseInv, TablesOK, TableTypeOK
  <2>3. GivenUp(c)' BY <1>2, <2>1, <2>2 DEF GivenUp, NotDialled, Committed
  <2>. QED BY <2>1, <2>3 DEF CallOK, ClosePcs
<1>11. CASE CallFinishes(c)
  <2>1. pending[c].event /\ UNCHANGED pendingConnects
    BY <1>11 DEF CallFinishes, coreVars, tableVars
  <2>2. ~InTable(c)' /\ popped # c BY <2>1, ResolvedIsOut DEF InTable
  <2>3. CASE pending[c].reason # None /\ Goes(c, "raised")
    <3>1. pending[c].connection = None BY <2>1, <2>3 DEF ResolutionInv, ResolvedExactlyOnce
    <3>2. GivenUp(c)' BY <1>6, <2>2, <3>1
    <3>. QED BY <1>4, <2>3, <3>2 DEF CallOK, ClosePcs
  <2>4. CASE /\ pending[c].connection # None
             /\ pc' = [pc EXCEPT ![c] = "returned", ![pending[c].connection] = "using"]
    <3>1. pending[c].connection \in Sessions
      BY <2>4 DEF BaseInv, ObjectsOK, ObjectTypeOK, PendingConnect
    <3>2. pc'[c] = "returned" BY <1>3, <2>4, <3>1 DEF BaseInv, ThreadsOK, ThreadTypeOK
    <3>. QED BY <3>2 DEF CallOK, ClosePcs
  <2>. QED BY <1>11, <2>3, <2>4 DEF CallFinishes
<1>12. CASE CallTimesOut(c)
  <2>1. pc'[c] = "abandon" BY <1>4, <1>12 DEF CallTimesOut
  <2>. QED BY <2>1 DEF CallOK, ClosePcs
<1>13. CASE CallAbandons(c)
  <2>1. CASE pendingConnects[Target[c]] = None
    <3>1. pc'[c] = "rewait" BY <1>4, <1>13, <2>1 DEF CallAbandons
    <3>. QED BY <3>1 DEF CallOK, ClosePcs
  <2>2. CASE pendingConnects[Target[c]] # None
    <3>1. PICK d \in Calls : d = pendingConnects[Target[c]]
      BY <2>2, PeerAssumption DEF BaseInv, TablesOK, TableTypeOK
    <3>2. d = c BY <2>2, <3>1, PeerAssumption DEF ResolutionInv, OneCallEach
    <3>3. Fresh(c) /\ popped # c BY <3>1, <3>2 DEF ResolutionInv, InTable
    <3>4. ~InTable(c)'
      BY <1>13, PeerAssumption, NoneIsNothing
         DEF CallAbandons, PopPendingOf, InTable, BaseInv, TablesOK, TableTypeOK
    <3>5. GivenUp(c)' BY <1>6, <3>3, <3>4 DEF Fresh
    <3>6. pc'[c] = "cancel" BY <1>4, <1>13, <2>2 DEF CallAbandons
    <3>. QED BY <3>5, <3>6 DEF CallOK, ClosePcs
  <2>. QED BY <2>1, <2>2
<1>14. CASE CallCancels(c)
  <2>1. GivenUp(c) /\ pc'[c] = "timedout" BY <1>4, <1>14 DEF CallCancels, CallOK
  <2>2. UNCHANGED <<pendingConnects, connState>> BY <1>14 DEF CallCancels, tableVars, objectVars
  <2>3. GivenUp(c)' BY <1>2, <2>1, <2>2 DEF GivenUp, InTable, Committed
  <2>. QED BY <2>1, <2>3 DEF CallOK, ClosePcs
<1>15. CASE CallRewaits(c)
  <2>1. pending[c].event /\ UNCHANGED pendingConnects
    BY <1>15 DEF CallRewaits, coreVars, tableVars
  <2>2. ~InTable(c)' /\ popped # c BY <2>1, ResolvedIsOut DEF InTable
  <2>3. CASE pending[c].connection = None
    <3>1. pc'[c] = "timedout" BY <1>4, <1>15, <2>3 DEF CallRewaits
    <3>. QED BY <1>6, <2>2, <2>3, <3>1 DEF CallOK, ClosePcs
  <2>4. CASE pending[c].connection # None
    <3>1. pc'[c] = "close" BY <1>4, <1>15, <2>4 DEF CallRewaits
    <3>. QED BY <3>1 DEF CallOK, ClosePcs
  <2>. QED BY <2>3, <2>4
<1>16. CASE CloseStep(c)
  <2>1. pc[c] \in ClosePcs
    BY <1>16 DEF CloseStep, CloseChecks, ClosePops, CloseMarks, CloseHangsUp,
       CloseClosesMailbox, ClosePcs
  <2>2. pending[c].connection # None /\ Closing(c) = pending[c].connection
    BY <2>1 DEF Closing, BaseInv, ThreadsOK, ThreadInv
  <2>3. ~InTable(c)' /\ ~Committed(c)'
    <3>1. ~InTable(c) BY <2>2 DEF ResolutionInv, Fresh
    <3>2. ~Committed(c) BY <2>2, NoneIsNothing DEF ResolutionInv, Committed
    <3>. QED BY <1>2, <1>16, <3>1, <3>2, CloseRawQuiet DEF InTable, Committed
  <2>4. ASSUME connState'[Closing(c)] = "closed" PROVE GivenUp(c)'
    BY <1>2, <2>2, <2>3, <2>4 DEF GivenUp
  <2>5. pc'[c] \in ClosePcs \/ (pc'[c] = "timedout" /\ connState'[Closing(c)] = "closed")
    <3>1. CASE CloseChecks(c)
      <4>1. UNCHANGED connState BY <3>1 DEF CloseChecks, coreVars, objectVars
      <4>. QED BY <1>4, <3>1, <4>1 DEF CloseChecks, AfterClose, ClosePcs
    <3>2. CASE CloseClosesMailbox(c)
      <4>1. connState'[Closing(c)] = "closed"
        BY <3>2 DEF CloseClosesMailbox, LifeInv, MarkedInv
      <4>. QED BY <1>4, <3>2, <4>1 DEF CloseClosesMailbox, AfterClose
    <3>3. CASE ClosePops(c) \/ CloseMarks(c) \/ CloseHangsUp(c)
      BY <1>4, <3>3 DEF ClosePops, CloseMarks, CloseHangsUp, ClosePcs
    <3>. QED BY <1>16, <3>1, <3>2, <3>3 DEF CloseStep
  <2>. QED BY <1>2, <2>2, <2>4, <2>5 DEF CallOK, ClosePcs
<1>. QED BY <1>7, <1>8, <1>9, <1>10, <1>11, <1>12, <1>13, <1>14, <1>15, <1>16 DEF CallStep

LEMMA QueueHead ==
    ASSUME BaseInv, acceptQueue # <<>>
    PROVE  /\ Head(acceptQueue) \in Sessions \cup {None}
           /\ Head(acceptQueue) = acceptQueue[1] /\ 1 \in 1 .. Len(acceptQueue)
           /\ Len(acceptQueue) \in Nat /\ Len(Tail(acceptQueue)) = Len(acceptQueue) - 1
           /\ \A i \in 1 .. Len(acceptQueue) - 1 : Tail(acceptQueue)[i] = acceptQueue[i + 1]
<1>1. acceptQueue \in Seq(Sessions \cup {None}) BY DEF BaseInv, QueueOK, QueueTypeOK
<1>2. /\ Len(acceptQueue) \in Nat /\ Len(acceptQueue) # 0
      /\ Len(Tail(acceptQueue)) = Len(acceptQueue) - 1
      /\ \A i \in 1 .. Len(Tail(acceptQueue)) : Tail(acceptQueue)[i] = acceptQueue[i + 1]
      /\ Head(acceptQueue) = acceptQueue[1]
  BY <1>1, HeadTailProperties, LenProperties, EmptySeq
<1>3. 1 \in 1 .. Len(acceptQueue) BY <1>2
<1>. QED BY <1>1, <1>2, <1>3, ElementOfSeq

LEMMA UserWorld ==
    ASSUME BaseInv, NEW c \in Calls,
           \/ \E s \in Sessions : OwnerStep(s) \/ OwnerCloses(s)
           \/ \E a \in Acceptors : AcceptorStep(a) \/ AcceptTimesOut(a)
    PROVE  WorldQuiet(c) /\ pc'[c] = pc[c]
<1>1. UNCHANGED <<pumpVars, pending>> BY ThreadsLeave
<1>2. RawQuiet /\ UNCHANGED pendingConnects
  <2>1. ASSUME NEW s \in Sessions, CloseStep(s) PROVE RawQuiet /\ UNCHANGED pendingConnects
    BY <2>1, CloseRawQuiet
  <2>2. UNCHANGED <<rawVars, tableVars>> => RawQuiet /\ UNCHANGED pendingConnects
    BY RawUntouched DEF rawVars, tableVars
  <2>. QED BY <2>1, <2>2 DEF OwnerStep, OwnerReceives, OwnerSeesEnd, OwnerCloses, AcceptorStep,
       AcceptBegins, AcceptGets, AcceptReputs, AcceptTimesOut, coreVars
<1>3. WorldQuiet(c)
  BY <1>1, <1>2, ThreadWorld, PeerAssumption DEF RawQuiet, InTable
<1>4. pc'[c] = pc[c]
  <2>1. pc \in [Threads -> CallPcs \cup ClosePcs \cup OwnerPcs \cup AcceptorPcs]
    BY DEF BaseInv, ThreadsOK, ThreadTypeOK
  <2>2. c \in Threads /\ c \notin Sessions /\ c \notin Acceptors BY ThreadKinds
  <2>3. \A t, step : t # c /\ Goes(t, step) => pc'[c] = pc[c] BY <2>1, <2>2 DEF Goes
  <2>4. ASSUME NEW s \in Sessions, OwnerStep(s) \/ OwnerCloses(s) PROVE pc'[c] = pc[c]
    BY <2>2, <2>3, <2>4
       DEF OwnerStep, OwnerReceives, OwnerSeesEnd, OwnerCloses, CloseStep, CloseChecks, ClosePops,
           CloseMarks, CloseHangsUp, CloseClosesMailbox
  <2>5. ASSUME NEW a \in Acceptors, AcceptorStep(a) \/ AcceptTimesOut(a) PROVE pc'[c] = pc[c]
    <3>1. CASE AcceptGets(a)
      <4>1. Head(acceptQueue) \in Sessions \cup {None}
        BY <3>1, QueueHead DEF AcceptGets
      <4>. QED BY <2>1, <2>2, <2>3, <3>1, <4>1 DEF AcceptGets
    <3>2. CASE ~AcceptGets(a)
      BY <2>2, <2>3, <2>5, <3>2 DEF AcceptorStep, AcceptBegins, AcceptReputs, AcceptTimesOut
    <3>. QED BY <3>1, <3>2
  <2>. QED BY <2>4, <2>5
<1>. QED BY <1>3, <1>4

LEMMA GiveUpInit == Init => GiveUpInv
<1>. SUFFICES ASSUME Init, NEW c \in Calls PROVE NotDialled(c) /\ pc[c] = "idle"
  BY DEF GiveUpInv, CallOK
<1>1. Target[c] \in Remotes /\ c # None /\ c \in Threads BY PeerAssumption, NoneIsNothing DEF Threads
<1>2. Len(packets) = 0 BY EmptySeq DEF Init, CoreInit, RakNetInit
<1>. QED BY <1>1, <1>2 DEF Init, CoreInit, RakNetInit, NotDialled, Committed

LEMMA GiveUpStep ==
    ASSUME OneCallEach, BaseInv, ResolutionInv, LifeInv, [Next]_vars, NEW lost, OthersOK(lost)
    PROVE  OthersOK(lost)'
<1>. SUFFICES ASSUME NEW c \in Calls \ lost PROVE CallOK(c)' BY DEF OthersOK
<1>1. CallOK(c) BY DEF OthersOK
<1>2. ClosedStay BY StatesFollow
<1>3. ASSUME WorldQuiet(c), pc'[c] = pc[c] PROVE CallOK(c)' BY <1>1, <1>2, <1>3, CallKept
<1>4. CASE UNCHANGED vars
  <2>1. UNCHANGED <<raw, packets, pumpVars, pending, pendingConnects, pc>>
    BY <1>4 DEF vars, coreVars, rawVars, tableVars, objectVars
  <2>. QED BY <1>3, <2>1, ThreadWorld DEF InTable
<1>5. CASE RakNetMoves /\ UNCHANGED pc
  <2>1. RawQuiet /\ UNCHANGED <<pumpVars, pending, pendingConnects>>
    BY <1>5, RakNetStepRawQuiet DEF RakNetMoves, BaseInv, tableVars, objectVars
  <2>. QED BY <1>3, <1>5, <2>1, ThreadWorld, PeerAssumption DEF RawQuiet, InTable
<1>6. CASE (PumpStep \/ PumpCrashes \/ PeerCloses \/ CloserStep) /\ UNCHANGED pc
  BY <1>3, <1>6, PumpWorld, ReceiveWorld, CloserWorld
<1>7. ASSUME NEW t \in Calls, CallStep(t) \/ CallTimesOut(t) PROVE CallOK(c)'
  <2>1. CASE t = c BY <1>1, <1>7, <2>1, CallMovesOn
  <2>2. CASE t # c BY <1>3, <1>7, <2>2, CallWorld
  <2>. QED BY <2>1, <2>2
<1>8. CASE \/ \E s \in Sessions : OwnerStep(s) \/ OwnerCloses(s)
           \/ \E a \in Acceptors : AcceptorStep(a) \/ AcceptTimesOut(a)
  BY <1>3, <1>8, UserWorld
<1>. QED BY <1>4, <1>5, <1>6, <1>7, <1>8 DEF Next

-----------------------------------------------------------------------------
(* The holders of a connection: it may be promised to a call that is lost, *)
(* of which nothing is asked.                                              *)

Promised(s, lost) ==
    \E c \in Calls :
        pending[c].connection = s /\ (c \in lost \/ pc[c] \notin {"raised", "timedout"})

Holder(s, lost) == pc[s] # "idle" \/ Queued(s) \/ InHand(s) \/ Promised(s, lost)

LEMMA HolderIs ==
    ASSUME BaseInv
    PROVE  EveryConnectionHasAHolder <=>
               \A s \in Sessions : connState[s] = "open" => Holder(s, {})
<1>1. DOMAIN acceptQueue = 1 .. Len(acceptQueue)
  BY LenProperties DEF BaseInv, QueueOK, QueueTypeOK
<1>. QED BY <1>1 DEF EveryConnectionHasAHolder, Holder, Queued, InHand, Promised, BuiltPump

(* A connection that a call was promised stays so until it is closed. *)
LEMMA PromiseStays ==
    ASSUME BaseInv, NEW lost, OthersOK(lost)', NEW s \in Sessions, Promised(s, lost), connState'[s] = "open",
           \A c \in Calls : pending[c].connection # None =>
               pending'[c].connection = pending[c].connection
    PROVE  Promised(s, lost)'
<1>1. PICK c \in Calls : /\ pending[c].connection = s
                         /\ c \in lost \/ pc[c] \notin {"raised", "timedout"}
  BY DEF Promised
<1>2. pending'[c].connection = s BY <1>1, NoneIsNothing
<1>3. c \in lost \/ pc'[c] \notin {"raised", "timedout"}
  BY <1>2, NoneIsNothing DEF OthersOK, CallOK, GivenUp
<1>. QED BY <1>2, <1>3 DEF Promised

(* What keeps a holder, but for the steps that hand a connection over. *)
LEMMA HolderStays ==
    ASSUME BaseInv, NEW lost, OthersOK(lost)', NEW s \in Sessions, Holder(s, lost), connState'[s] = "open",
           pc'[s] = "idle" => pc[s] = "idle",
           Queued(s) => Queued(s)' \/ pc'[s] # "idle",
           InHand(s) => Holder(s, lost)',
           \A c \in Calls : pending[c].connection # None =>
               pending'[c].connection = pending[c].connection
    PROVE  Holder(s, lost)'
BY PromiseStays DEF Holder

LEMMA PromisesKept ==
    ASSUME BaseInv, ResolutionInv, [Next]_vars
    PROVE  \A c \in Calls : pending[c].connection # None =>
               pending'[c].connection = pending[c].connection
<1>1. CASE SucceededPublishes
  <2>1. popped \in Calls /\ popped # None
    BY <1>1, PumpHolds, PumpLeaves, NoneIsNothing DEF BaseInv, SucceededPublishes
  <2>2. pending[popped].connection = None BY <1>1, <2>1 DEF ResolutionInv, SucceededPublishes
  <2>3. \A c \in Calls : c # popped => pending'[c] = pending[c]
    BY <1>1 DEF SucceededPublishes, BaseInv, ObjectsOK, ObjectTypeOK
  <2>. QED BY <2>2, <2>3
<1>2. CASE SucceededSets \/ FailedSets \/ \E c \in Calls : FinishFailsPending(c)
  BY <1>2, ResolvesStay DEF ConnectionsStay
<1>3. CASE UNCHANGED pending BY <1>3
<1>4. PumpStep => UNCHANGED pending \/ SucceededPublishes \/ SucceededSets \/ FailedSets
  BY DEF PumpStep, PumpChecks, PumpIdles, PumpReceives, IncomingInserts, IncomingQueues,
     PumpPopsPending, SucceededInserts, MessageLooksUp, MessagePuts, OverflowPops,
     OverflowMarks, OverflowHangsUp, OverflowClosesMailbox, DisconnectedPops, DisconnectedMarks,
     DisconnectedClosesMailbox, PumpFails, objectVars
<1>5. CloserStep => UNCHANGED pending \/ \E c \in Calls : FinishFailsPending(c)
  BY DEF CloserStep, CloserJoinsPump, CloserShutsDown, FinishMarks, FinishClosesMailbox,
     FinishQueuesSentinel, objectVars
<1>6. RakNetMoves \/ PeerCloses \/ PumpCrashes \/ UNCHANGED vars => UNCHANGED pending
  BY DEF RakNetMoves, PeerCloses, PumpCrashes, vars, coreVars, objectVars
<1>. QED BY <1>1, <1>2, <1>3, <1>4, <1>5, <1>6, ThreadsLeave DEF Next

LEMMA QueueGrows ==
    ASSUME BaseInv, NEW item \in Sessions \cup {None}, acceptQueue' = Append(acceptQueue, item)
    PROVE  /\ \A s \in Sessions : Queued(s) => Queued(s)'
           /\ item \in Sessions => Queued(item)'
<1>1. acceptQueue \in Seq(Sessions \cup {None}) BY DEF BaseInv, QueueOK, QueueTypeOK
<1>2. /\ Len(acceptQueue) \in Nat /\ Len(acceptQueue') = Len(acceptQueue) + 1
      /\ \A i \in 1 .. Len(acceptQueue) : acceptQueue'[i] = acceptQueue[i]
      /\ acceptQueue'[Len(acceptQueue) + 1] = item
  BY <1>1, AppendProperties, LenProperties
<1>. QED BY <1>2 DEF Queued

LEMMA PumpKeepsHolders ==
    ASSUME BaseInv, ResolutionInv, LifeInv, NEW lost, OthersOK(lost), OthersOK(lost)', PumpStep \/ PumpCrashes,
           UNCHANGED pc, NEW s \in Sessions, connState'[s] = "open",
           connState[s] = "open" => Holder(s, lost)
    PROVE  Holder(s, lost)'
<1>1. [Next]_vars BY DEF Next
<1>2. connState[s] = "open" \/ IncomingInserts \/ SucceededInserts BY <1>1, StatesFollow
<1>3. ASSUME connState[s] = "open", Queued(s) => Queued(s)', InHand(s) => Holder(s, lost)'
      PROVE  Holder(s, lost)'
  BY <1>1, <1>3, PromisesKept, HolderStays
<1>4. CASE IncomingInserts \/ SucceededInserts
  <2>1. /\ packet.session \in Sessions /\ UNCHANGED <<packet, acceptQueue>>
        /\ pumpPc \notin BuiltPump /\ pumpPc' \in BuiltPump
    BY <1>4, HeldOpening
       DEF IncomingInserts, SucceededInserts, PumpGoesTo, BuiltPump, OpeningPump
  <2>2. CASE s = packet.session BY <2>1, <2>2 DEF Holder, InHand
  <2>3. CASE s # packet.session
    <3>1. connState[s] = "open"
      BY <1>4, <2>1, <2>3
         DEF IncomingInserts, SucceededInserts, BuildConnection, BaseInv, ObjectsOK, ObjectTypeOK
    <3>. QED BY <1>3, <2>1, <3>1 DEF InHand, Queued
  <2>. QED BY <2>2, <2>3
<1>5. CASE IncomingQueues
  <2>1. packet.session \in Sessions /\ acceptQueue' = Append(acceptQueue, packet.session)
    BY <1>5, PumpHolds DEF IncomingQueues, OpeningPcs, BaseInv
  <2>2. (Queued(s) => Queued(s)') /\ (InHand(s) => Queued(s)')
    BY <2>1, QueueGrows DEF InHand
  <2>3. connState[s] = "open" BY <1>2, <1>5 DEF IncomingQueues, IncomingInserts, SucceededInserts
  <2>. QED BY <1>3, <2>2, <2>3 DEF Holder
<1>6. CASE SucceededPublishes
  <2>1. PICK c \in Calls : c = popped
    BY <1>6, PumpHolds, PumpLeaves DEF BaseInv, SucceededPublishes
  <2>2. c \in lost \/ pc[c] \notin {"raised", "timedout"}
    BY <1>6, <2>1 DEF OthersOK, CallOK, GivenUp, Committed, SucceededPublishes
  <2>3. pending'[c].connection = packet.session
    <3>1. pending \in [Calls -> PendingConnect] BY DEF BaseInv, ObjectsOK, ObjectTypeOK
    <3>2. pending' = [pending EXCEPT ![c].connection = packet.session]
      BY <1>6, <2>1 DEF SucceededPublishes
    <3>. QED BY <3>1, <3>2 DEF PendingConnect
  <2>4. InHand(s) => Promised(s, lost)' BY <2>2, <2>3 DEF InHand, Promised
  <2>5. UNCHANGED acceptQueue /\ connState[s] = "open"
    BY <1>2, <1>6 DEF SucceededPublishes, IncomingInserts, SucceededInserts
  <2>. QED BY <1>3, <2>4, <2>5 DEF Holder, Queued
<1>7. CASE pumpPc \notin BuiltPump /\ UNCHANGED acceptQueue /\ ~IncomingInserts /\ ~SucceededInserts
  <2>1. connState[s] = "open" BY <1>2, <1>7
  <2>. QED BY <1>3, <1>7, <2>1 DEF InHand, Queued
<1>8. \/ IncomingQueues \/ SucceededPublishes
      \/ pumpPc \notin BuiltPump /\ UNCHANGED acceptQueue
  BY DEF PumpStep, PumpCrashes, PumpChecks, PumpIdles, PumpReceives, IncomingInserts,
     PumpPopsPending, SucceededInserts, SucceededSets, FailedSets, MessageLooksUp, MessagePuts,
     OverflowPops, OverflowMarks, OverflowHangsUp, OverflowClosesMailbox, DisconnectedPops,
     DisconnectedMarks, DisconnectedClosesMailbox, PumpFails, BuiltPump
<1>. QED BY <1>4, <1>5, <1>6, <1>7, <1>8

LEMMA CloserKeepsHolders ==
    ASSUME BaseInv, ResolutionInv, LifeInv, NEW lost, OthersOK(lost)', UNCHANGED pc,
           CloserStep \/ PeerCloses \/ RakNetMoves,
           NEW s \in Sessions, connState'[s] = "open", connState[s] = "open" => Holder(s, lost)
    PROVE  Holder(s, lost)'
<1>1. [Next]_vars BY DEF Next
<1>2. \/ UNCHANGED <<pumpVars, acceptQueue>>
      \/ FinishQueuesSentinel /\ pumpPc \notin BuiltPump
  BY DEF CloserStep, PeerCloses, RakNetMoves, CloserJoinsPump, CloserShutsDown, FinishMarks,
     FinishClosesMailbox, FinishFailsPending, FinishQueuesSentinel, BaseInv, CloseOK, CloseInv,
     BuiltPump
<1>3. (Queued(s) => Queued(s)') /\ (InHand(s) => InHand(s)')
  <2>1. CASE UNCHANGED <<pumpVars, acceptQueue>> BY <2>1 DEF pumpVars, Queued, InHand
  <2>2. CASE FinishQueuesSentinel /\ pumpPc \notin BuiltPump
    BY <2>2, QueueGrows DEF FinishQueuesSentinel, InHand
  <2>. QED BY <1>2, <2>1, <2>2
<1>4. connState' = connState \/ \E q : MarkClosed(q)
  BY DEF CloserStep, PeerCloses, RakNetMoves, CloserJoinsPump, CloserShutsDown, FinishMarks,
     FinishClosesMailbox, FinishFailsPending, FinishQueuesSentinel, objectVars
<1>5. connState[s] = "open" BY <1>4 DEF MarkClosed, BaseInv, ObjectsOK, ObjectTypeOK
<1>. QED BY <1>1, <1>3, <1>5, PromisesKept, HolderStays DEF Holder

LEMMA SessionsStayAwake ==
    ASSUME BaseInv, NEW s \in Sessions,
           \/ \E t \in Calls : CallStep(t) \/ CallTimesOut(t)
           \/ \E q \in Sessions : OwnerStep(q) \/ OwnerCloses(q)
           \/ \E a \in Acceptors : AcceptorStep(a) \/ AcceptTimesOut(a)
    PROVE  pc'[s] = "idle" => pc[s] = "idle"
<1>1. pc \in [Threads -> CallPcs \cup ClosePcs \cup OwnerPcs \cup AcceptorPcs]
  BY DEF BaseInv, ThreadsOK, ThreadTypeOK
<1>2. s \in Threads /\ s \notin Calls /\ s \notin Acceptors BY ThreadKinds
<1>3. \A t, step : Goes(t, step) => pc'[s] = IF t = s THEN step ELSE pc[s]
  BY <1>1, <1>2 DEF Goes
<1>4. ASSUME NEW c \in Calls, CallStep(c) \/ CallTimesOut(c), ~CallFinishes(c)
      PROVE  pc'[s] = pc[s]
  <2>1. PICK step : Goes(c, step)
    BY <1>4 DEF CallStep, CallBegins, CallRegisters, CallDials, CallUndials, CallAbandons,
       CallCancels, CallRewaits, CallTimesOut, CloseStep, CloseChecks, ClosePops, CloseMarks,
       CloseHangsUp, CloseClosesMailbox
  <2>. QED BY <1>2, <1>3, <2>1
<1>5. ASSUME NEW c \in Calls, CallFinishes(c) PROVE pc'[s] = "idle" => pc[s] = "idle"
  <2>1. CASE Goes(c, "raised") BY <1>2, <1>3, <2>1
  <2>2. CASE pc' = [pc EXCEPT ![c] = "returned", ![pending[c].connection] = "using"]
    BY <1>1, <1>2, <2>2
  <2>. QED BY <1>5, <2>1, <2>2 DEF CallFinishes
<1>6. ASSUME NEW q \in Sessions, OwnerStep(q) \/ OwnerCloses(q)
      PROVE  pc'[s] = "idle" => pc[s] = "idle"
  <2>1. q \notin Calls BY ThreadKinds
  <2>2. UNCHANGED pc \/ \E step : Goes(q, step) /\ step # "idle"
    BY <1>6, <2>1 DEF OwnerStep, OwnerReceives, OwnerSeesEnd, OwnerCloses, CloseStep, CloseChecks,
       ClosePops, CloseMarks, CloseHangsUp, CloseClosesMailbox, AfterClose
  <2>. QED BY <1>3, <2>2
<1>7. ASSUME NEW a \in Acceptors, AcceptorStep(a) \/ AcceptTimesOut(a)
      PROVE  pc'[s] = "idle" => pc[s] = "idle"
  <2>1. CASE AcceptGets(a) /\ pc' = [pc EXCEPT ![a] = "idle", ![Head(acceptQueue)] = "using"]
    BY <1>1, <1>2, <2>1
  <2>2. CASE \E step : Goes(a, step) BY <1>2, <1>3, <2>2
  <2>. QED BY <1>7, <2>1, <2>2 DEF AcceptorStep, AcceptBegins, AcceptGets, AcceptReputs, AcceptTimesOut
<1>. QED BY <1>4, <1>5, <1>6, <1>7

(* Whatever leaves the accept queue has an owner. *)
LEMMA AcceptGivesOwner ==
    ASSUME BaseInv, NEW a \in Acceptors, AcceptGets(a), NEW s \in Sessions, Queued(s)
    PROVE  Queued(s)' \/ pc'[s] # "idle"
<1>. DEFINE n == Len(acceptQueue)
<1>1. acceptQueue # <<>> /\ acceptQueue' = Tail(acceptQueue) BY DEF AcceptGets
<1>2. PICK i \in 1 .. n : acceptQueue[i] = s BY DEF Queued
<1>3. n \in Nat /\ Len(acceptQueue') = n - 1
      /\ \A j \in 1 .. n - 1 : acceptQueue'[j] = acceptQueue[j + 1]
  BY <1>1, QueueHead
<1>4. CASE i = 1
  <2>1. Head(acceptQueue) = s /\ s # None BY <1>1, <1>2, <1>4, QueueHead, NoneIsNothing
  <2>2. pc' = [pc EXCEPT ![a] = "idle", ![s] = "using"] BY <2>1 DEF AcceptGets
  <2>3. pc \in [Threads -> CallPcs \cup ClosePcs \cup OwnerPcs \cup AcceptorPcs]
    BY DEF BaseInv, ThreadsOK, ThreadTypeOK
  <2>4. s \in Threads BY ThreadKinds
  <2>. QED BY <2>2, <2>3, <2>4
<1>5. CASE i # 1
  <2>1. i - 1 \in 1 .. n - 1 /\ (i - 1) + 1 = i BY <1>2, <1>3, <1>5
  <2>2. acceptQueue'[i - 1] = s BY <1>2, <1>3, <2>1
  <2>. QED BY <1>3, <2>1, <2>2 DEF Queued
<1>. QED BY <1>4, <1>5

LEMMA ThreadsKeepHolders ==
    ASSUME BaseInv, ResolutionInv, LifeInv, NEW lost, OthersOK(lost)', [Next]_vars,
           \/ \E t \in Calls : CallStep(t) \/ CallTimesOut(t)
           \/ \E q \in Sessions : OwnerStep(q) \/ OwnerCloses(q)
           \/ \E a \in Acceptors : AcceptorStep(a) \/ AcceptTimesOut(a),
           NEW s \in Sessions, connState'[s] = "open", connState[s] = "open" => Holder(s, lost)
    PROVE  Holder(s, lost)'
<1>1. connState[s] = "open"
  <2>1. connState' = connState \/ \E q : MarkClosed(q)
    BY DEF CallStep, CallBegins, CallRegisters, CallDials, CallUndials, CallFinishes, CallAbandons,
       CallCancels, CallRewaits, CallTimesOut, PopPendingOf, OwnerStep, OwnerReceives,
       OwnerSeesEnd, OwnerCloses, AcceptorStep, AcceptBegins, AcceptGets, AcceptReputs,
       AcceptTimesOut, CloseStep, CloseChecks, ClosePops, CloseMarks, CloseHangsUp,
       CloseClosesMailbox, coreVars, objectVars
  <2>. QED BY <2>1 DEF MarkClosed, BaseInv, ObjectsOK, ObjectTypeOK
<1>2. InHand(s) => InHand(s)' BY ThreadsLeave DEF pumpVars, InHand
<1>3. pc'[s] = "idle" => pc[s] = "idle" BY SessionsStayAwake
<1>4. Queued(s) => Queued(s)' \/ pc'[s] # "idle"
  <2>1. CASE \E a \in Acceptors : AcceptGets(a) BY <2>1, AcceptGivesOwner
  <2>2. CASE \E a \in Acceptors : AcceptReputs(a) BY <2>2, QueueGrows DEF AcceptReputs
  <2>3. CASE UNCHANGED acceptQueue BY <2>3 DEF Queued
  <2>. QED BY <2>1, <2>2, <2>3
       DEF CallStep, CallBegins, CallRegisters, CallDials, CallUndials, CallFinishes, CallAbandons,
       CallCancels, CallRewaits, CallTimesOut, PopPendingOf, OwnerStep, OwnerReceives,
       OwnerSeesEnd, OwnerCloses, AcceptorStep, AcceptBegins,
       AcceptTimesOut, CloseStep, CloseChecks, ClosePops, CloseMarks, CloseHangsUp,
       CloseClosesMailbox, coreVars
<1>. QED BY <1>1, <1>2, <1>3, <1>4, PromisesKept, HolderStays DEF Holder

LEMMA HolderStep ==
    ASSUME BaseInv, ResolutionInv, LifeInv, [Next]_vars, NEW lost, OthersOK(lost), OthersOK(lost)',
           NEW s \in Sessions, connState'[s] = "open", connState[s] = "open" => Holder(s, lost)
    PROVE  Holder(s, lost)'
<1>1. CASE UNCHANGED vars
  BY <1>1 DEF vars, coreVars, objectVars, pumpVars, Holder, Queued, InHand, Promised
<1>2. CASE (PumpStep \/ PumpCrashes) /\ UNCHANGED pc BY <1>2, PumpKeepsHolders
<1>3. CASE (CloserStep \/ PeerCloses \/ RakNetMoves) /\ UNCHANGED pc
  BY <1>3, CloserKeepsHolders
<1>4. CASE \/ \E t \in Calls : CallStep(t) \/ CallTimesOut(t)
           \/ \E q \in Sessions : OwnerStep(q) \/ OwnerCloses(q)
           \/ \E a \in Acceptors : AcceptorStep(a) \/ AcceptTimesOut(a)
  BY <1>4, ThreadsKeepHolders
<1>. QED BY <1>1, <1>2, <1>3, <1>4 DEF Next

LEMMA HoldersStep ==
    ASSUME BaseInv, BaseInv', ResolutionInv, LifeInv, GiveUpInv, GiveUpInv', [Next]_vars,
           EveryConnectionHasAHolder
    PROVE  EveryConnectionHasAHolder'
<1>1. \A s \in Sessions : connState[s] = "open" => Holder(s, {}) BY HolderIs
<1>2. OthersOK({}) /\ OthersOK({})' BY DEF GiveUpInv, OthersOK
<1>3. \A s \in Sessions : connState'[s] = "open" => Holder(s, {})' BY <1>1, <1>2, HolderStep
<1>4. (BaseInv => (EveryConnectionHasAHolder <=>
          \A s \in Sessions : connState[s] = "open" => Holder(s, {})))'
  BY HolderIs, PTL
<1>. QED BY <1>3, <1>4

(* However it is opened and however its connect() or accept() ends, a      *)
(* connection that is connected has an owner or is on its way to one       *)
(* (_peer.py, connect, _pop_pending, accept, connect_succeeded), for any   *)
(* number of calls as long as no two of them dial the same address.        *)
THEOREM ConnectionsHaveHolders ==
    ASSUME \A c, d \in Calls : Target[c] = Target[d] => c = d
    PROVE  Spec => []EveryConnectionHasAHolder
<1>. DEFINE Inv == BaseInv /\ ResolutionInv /\ LifeInv /\ GiveUpInv /\ EveryConnectionHasAHolder
<1>1. Init => Inv
  <2>1. Init => EveryConnectionHasAHolder BY DEF Init, CoreInit, EveryConnectionHasAHolder
  <2>. QED BY <2>1, BaseInit, ResolutionInit, LifeInit, GiveUpInit
<1>2. Inv /\ [Next]_vars => Inv'
  <2>1. SUFFICES ASSUME Inv, [Next]_vars PROVE Inv' OBVIOUS
  <2>2. BaseInv' /\ ResolutionInv' /\ LifeInv' BY <2>1, BaseStep, ResolutionStep, LifeStep
  <2>3. OthersOK({}) BY <2>1 DEF GiveUpInv, OthersOK
  <2>4. OthersOK({})' BY <2>1, <2>3, GiveUpStep DEF OneCallEach
  <2>5. GiveUpInv' BY <2>4 DEF GiveUpInv, OthersOK
  <2>. QED BY <2>1, <2>2, <2>5, HoldersStep
<1>3. Inv => EveryConnectionHasAHolder OBVIOUS
<1>. QED BY <1>1, <1>2, <1>3, PTL DEF Spec

-----------------------------------------------------------------------------
(* No insert replaces a Connection: RakNet's packets come in order. *)

(* What a step must leave alone, but for what it does to RakNet. *)
OrderQuiet ==
    /\ ~closed' /\ pumpPc' # "crashed" => ~closed /\ pumpPc # "crashed"
    /\ \A r \in Remotes : HoldsOpening(r)' =>
           HoldsOpening(r) /\ connections'[r] \in {connections[r], None}
    /\ \A r \in Remotes : Occupied(r)' => Occupied(r)

RawOrdered == \A r \in Remotes :
    raw'[r] \in {"none", "connecting"} =>
        session'[r] = None \/ (raw[r] \in {"none", "connecting"} /\ session'[r] = session[r])

LEMMA OrderKept ==
    ASSUME OrderInv, OrderQuiet, RawOrdered, UNCHANGED <<packets, session>>
    PROVE  OrderInv'
<1>1. SUFFICES ASSUME ~closed', pumpPc' # "crashed", NEW r \in Remotes PROVE Ordered(r)'
  BY DEF OrderInv
<1>2. Ordered(r) BY <1>1 DEF OrderInv, OrderQuiet
<1>3. \A k : OpeningAt(r, k)' => OpeningAt(r, k) BY DEF OpeningAt
<1>4. \A j, k : EndBetween(r, j, k) => EndBetween(r, j, k)' BY DEF EndBetween
<1>5. raw'[r] \in {"none", "connecting"} => session'[r] = None BY <1>2 DEF Ordered, RawOrdered
<1>6. (HoldsOpening(r)' => connections'[r] = None) /\ (Occupied(r)' => Occupied(r))
  BY <1>2 DEF Ordered, OrderQuiet
<1>7. ASSUME NEW k \in 1 .. Len(packets) + 1, OpeningAt(r, k)'
      PROVE  /\ Occupied(r)' => EndBetween(r, 0, k)'
             /\ \A j \in 1 .. k - 1 : OpensFrom(packets[j], r) => EndBetween(r, j, k)'
  BY <1>2, <1>3, <1>4, <1>6, <1>7 DEF Ordered
<1>. QED BY <1>5, <1>6, <1>7 DEF Ordered

(* A packet at the end of the queue. *)
LEMMA AppendKeepsOrder ==
    ASSUME RakOK, OrderInv, OrderQuiet, RawOrdered, NEW p, packets' = Append(packets, p),
           p \in Packet,
           \A r \in Remotes : OpensFrom(p, r) => session[r] = None,
           \A r \in Remotes : session'[r] = None =>
               EndsFrom(p, r) \/ (session[r] = None /\ ~OpensFrom(p, r))
    PROVE  OrderInv'
<1>1. SUFFICES ASSUME ~closed', pumpPc' # "crashed", NEW r \in Remotes PROVE Ordered(r)'
  BY DEF OrderInv
<1>2. Ordered(r) BY <1>1 DEF OrderInv, OrderQuiet
<1>3. PICK n \in Nat : n = Len(packets) BY LenProperties DEF RakOK, RakNetTypeOK
<1>4. /\ Len(packets') = n + 1 /\ packets'[n + 1] = p
      /\ \A i \in 1 .. n : packets'[i] = packets[i]
  BY <1>3, AppendProperties DEF RakOK, RakNetTypeOK
<1>5. raw'[r] \in {"none", "connecting"} => session'[r] = None BY <1>2 DEF Ordered, RawOrdered
<1>6. (HoldsOpening(r)' => connections'[r] = None) /\ (Occupied(r)' => Occupied(r))
  BY <1>2 DEF Ordered, OrderQuiet
<1>7. \A j \in Nat : \A k \in 1 .. n + 2 : EndBetween(r, j, k) /\ k <= n + 1 => EndBetween(r, j, k)'
  BY <1>4 DEF EndBetween
<1>8. ASSUME NEW k \in 1 .. n + 2, OpeningAt(r, k)', NEW j \in 0 .. k - 1,
             j = 0 => Occupied(r), j # 0 => OpensFrom(packets'[j], r)
      PROVE  EndBetween(r, j, k)'
  <2>1. ASSUME NEW m \in 1 .. n + 1, m <= k, OpeningAt(r, m), j < m
        PROVE  EndBetween(r, j, k)'
    <3>1. EndBetween(r, j, m)
      <4>1. CASE j = 0 BY <1>2, <1>3, <1>8, <2>1, <4>1 DEF Ordered
      <4>2. CASE j # 0
        <5>1. j \in 1 .. m - 1 /\ j \in 1 .. n BY <2>1, <4>2
        <5>2. OpensFrom(packets[j], r) BY <1>4, <1>8, <4>2, <5>1
        <5>. QED BY <1>2, <1>3, <2>1, <5>1, <5>2 DEF Ordered
      <4>. QED BY <4>1, <4>2
    <3>2. PICK i \in j + 1 .. m - 1 : EndsFrom(packets[i], r) BY <3>1 DEF EndBetween
    <3>3. i \in j + 1 .. k - 1 /\ packets'[i] = packets[i] BY <1>4, <2>1, <3>2
    <3>. QED BY <3>2, <3>3 DEF EndBetween, EndsFrom
  <2>2. CASE k \in 1 .. n
    <3>1. OpeningAt(r, k) BY <1>3, <1>4, <1>8, <2>2 DEF OpeningAt
    <3>. QED BY <1>8, <2>1, <2>2, <3>1
  <2>3. CASE k = n + 1
    <3>1. OpensFrom(p, r) BY <1>4, <1>8, <2>3 DEF OpeningAt, OpensFrom
    <3>2. OpeningAt(r, n + 1) BY <1>3, <3>1 DEF OpeningAt
    <3>. QED BY <1>8, <2>1, <2>3, <3>2
  <2>4. CASE k = n + 2
    <3>1. session'[r] = None BY <1>4, <1>8, <2>4 DEF OpeningAt
    <3>2. CASE EndsFrom(p, r)
      <4>1. ~OpensFrom(p, r) BY <3>2, IdValues DEF OpensFrom, EndsFrom
      <4>2. j # n + 1 BY <1>4, <1>8, <4>1 DEF OpensFrom
      <4>3. n + 1 \in j + 1 .. k - 1 BY <1>8, <2>4, <4>2
      <4>. QED BY <1>4, <3>2, <4>3 DEF EndBetween, EndsFrom
    <3>3. CASE session[r] = None /\ ~OpensFrom(p, r)
      <4>1. OpeningAt(r, n + 1) BY <1>3, <3>3 DEF OpeningAt
      <4>2. j # n + 1 BY <1>4, <1>8, <3>3 DEF OpensFrom
      <4>. QED BY <1>8, <2>1, <2>4, <4>1, <4>2
    <3>. QED BY <3>1, <3>2, <3>3
  <2>. QED BY <2>2, <2>3, <2>4
<1>9. ASSUME NEW k \in 1 .. Len(packets') + 1, OpeningAt(r, k)'
      PROVE  /\ Occupied(r)' => EndBetween(r, 0, k)'
             /\ \A j \in 1 .. k - 1 : OpensFrom(packets'[j], r) => EndBetween(r, j, k)'
  <2>1. k \in 1 .. n + 2 /\ 0 \in 0 .. k - 1 BY <1>4
  <2>2. Occupied(r)' => EndBetween(r, 0, k)' BY <1>6, <1>8, <1>9, <2>1
  <2>3. \A j \in 1 .. k - 1 : j \in 0 .. k - 1 /\ j # 0 BY <2>1
  <2>. QED BY <1>8, <1>9, <2>1, <2>2, <2>3
<1>. QED BY <1>5, <1>6, <1>9 DEF Ordered, OpensFrom

(* The pump takes a packet: an opening only after the end of the session   *)
(* before it, whose Connection is gone from the table by then.             *)
LEMMA ReceiveKeepsOrder ==
    ASSUME BaseInv, OrderInv, PumpReceives
    PROVE  OrderInv'
<1>1. SUFFICES ASSUME ~closed', NEW r \in Remotes PROVE Ordered(r)'
  BY DEF OrderInv
<1>. PICK p : p = Head(packets) OBVIOUS
<1>2. RawReceive(p) /\ UNCHANGED <<raw, session, closed, connections>> /\ pumpPc = "receive"
  BY DEF PumpReceives, RawReceive, closeVars, tableVars
<1>3. Ordered(r) BY <1>1, <1>2 DEF OrderInv
<1>4. PICK n \in Nat : n = Len(packets) BY LenProperties DEF BaseInv, RakOK, RakNetTypeOK
<1>5. /\ p \in Packet /\ p = packets[1] /\ 1 \in 1 .. n /\ Len(packets') = n - 1
      /\ \A i \in 1 .. n - 1 : i + 1 \in 1 .. n /\ packets'[i] = packets[i + 1]
  <2>1. packets # <<>> /\ packets' = Tail(packets) /\ packets \in Seq(Packet)
    BY <1>2 DEF RawReceive, BaseInv, RakOK, RakNetTypeOK
  <2>2. Len(packets') = n - 1 /\ n # 0 BY <1>4, <2>1, HeadTailProperties, EmptySeq
  <2>. QED BY <1>2, <1>4, <2>2, RawReceiveOK, ReceiveTakes DEF BaseInv
<1>6. /\ pumpPc' \in OpeningPump => packet' = p /\ p.id \in OpeningIds
      /\ p.id \in {ID_DISCONNECTION_NOTIFICATION, ID_CONNECTION_LOST} =>
             pumpPc' = "disconnected" /\ packet' = p
  <2>1. p.id \in Byte BY <1>5, PacketProperties
  <2>2. Route(p.id) \in OpeningPump => p.id \in OpeningIds
    BY <2>1, RouteProperties DEF OpeningPump, OpeningPcs
  <2>3. p.id \in {ID_DISCONNECTION_NOTIFICATION, ID_CONNECTION_LOST} => Route(p.id) = "disconnected"
    BY <2>1, NoneIsNothing
       DEF Route, ID_DISCONNECTION_NOTIFICATION, ID_CONNECTION_LOST, ID_USER_PACKET_ENUM,
           ID_NEW_INCOMING_CONNECTION, ID_CONNECTION_REQUEST_ACCEPTED, CONNECT_FAILURES,
           ID_CONNECTION_ATTEMPT_FAILED, ID_ALREADY_CONNECTED, ID_NO_FREE_INCOMING_CONNECTIONS,
           ID_CONNECTION_BANNED, ID_INVALID_PASSWORD, ID_INCOMPATIBLE_PROTOCOL_VERSION,
           ID_IP_RECENTLY_CONNECTED, ID_UNCONNECTED_PONG
  <2>. QED BY <2>2, <2>3 DEF PumpReceives, PumpReturns, OpeningPump
<1>7. HoldsOpening(r)' => OpensFrom(packets[1], r)
  BY <1>5, <1>6 DEF HoldsOpening, OpensFrom, OpeningPump
<1>8. OpensFrom(packets[1], r) => connections[r] = None
  <2>1. SUFFICES ASSUME OpensFrom(packets[1], r) PROVE connections[r] = None OBVIOUS
  <2>2. OpeningAt(r, 1) /\ ~EndBetween(r, 0, 1)
    BY <1>4, <1>5, <2>1 DEF OpeningAt, EndBetween
  <2>3. ~Occupied(r) BY <1>3, <1>4, <2>2 DEF Ordered
  <2>. QED BY <1>2, <2>3 DEF Occupied
<1>9. ASSUME NEW k \in 1 .. n, OpeningAt(r, k)'
      PROVE  OpeningAt(r, k + 1) /\ k + 1 \in 1 .. n + 1
  BY <1>2, <1>4, <1>5, <1>9 DEF OpeningAt, OpensFrom
<1>10. ASSUME NEW k \in 1 .. n, NEW j \in 1 .. k, EndBetween(r, j, k + 1)
       PROVE  EndBetween(r, j - 1, k)'
  <2>1. PICK i \in j + 1 .. k : EndsFrom(packets[i], r) BY <1>10 DEF EndBetween
  <2>2. i - 1 \in (j - 1) + 1 .. k - 1 /\ i - 1 \in 1 .. n - 1 /\ (i - 1) + 1 = i BY <2>1
  <2>3. packets'[i - 1] = packets[i] BY <1>5, <2>2
  <2>. QED BY <2>1, <2>2, <2>3 DEF EndBetween, EndsFrom
<1>11. ASSUME NEW k \in 1 .. n, OpeningAt(r, k)', Occupied(r)' PROVE EndBetween(r, 0, k)'
  <2>1. CASE OpensFrom(packets[1], r)
    <3>1. 1 \in 1 .. (k + 1) - 1 /\ 1 - 1 = 0 /\ 1 \in 1 .. k OBVIOUS
    <3>2. EndBetween(r, 1, k + 1) BY <1>3, <1>4, <1>9, <1>11, <2>1, <3>1 DEF Ordered
    <3>3. EndBetween(r, 1 - 1, k)' BY <1>10, <3>1, <3>2
    <3>. QED BY <3>1, <3>3
  <2>2. CASE ~OpensFrom(packets[1], r)
    <3>1. connections[r] # None /\ ~(pumpPc' = "disconnected" /\ packet'.from = r)
      BY <1>2, <1>7, <1>11, <2>2 DEF Occupied
    <3>2. ~EndsFrom(packets[1], r) BY <1>5, <1>6, <3>1 DEF EndsFrom
    <3>3. EndBetween(r, 0, k + 1) BY <1>2, <1>3, <1>4, <1>9, <1>11, <3>1 DEF Ordered, Occupied
    <3>4. PICK i \in 1 .. k : EndsFrom(packets[i], r) BY <3>3 DEF EndBetween
    <3>5. i # 1 BY <3>2, <3>4
    <3>6. i - 1 \in 1 .. k - 1 /\ i - 1 \in 1 .. n - 1 /\ (i - 1) + 1 = i BY <3>4, <3>5
    <3>7. packets'[i - 1] = packets[i] BY <1>5, <3>6
    <3>. QED BY <3>4, <3>6, <3>7 DEF EndBetween, EndsFrom
  <2>. QED BY <2>1, <2>2
<1>12. ASSUME NEW k \in 1 .. n, OpeningAt(r, k)', NEW j \in 1 .. k - 1, OpensFrom(packets'[j], r)
       PROVE  EndBetween(r, j, k)'
  <2>1. j \in 1 .. n - 1 /\ j + 1 \in 1 .. (k + 1) - 1 /\ j + 1 \in 1 .. k /\ (j + 1) - 1 = j OBVIOUS
  <2>2. OpensFrom(packets[j + 1], r) BY <1>5, <1>12, <2>1
  <2>3. EndBetween(r, j + 1, k + 1) BY <1>3, <1>4, <1>9, <1>12, <2>1, <2>2 DEF Ordered
  <2>4. EndBetween(r, (j + 1) - 1, k)' BY <1>10, <2>1, <2>3
  <2>. QED BY <2>1, <2>4
<1>13. raw'[r] \in {"none", "connecting"} => session'[r] = None BY <1>2, <1>3 DEF Ordered
<1>14. HoldsOpening(r)' => connections'[r] = None BY <1>2, <1>7, <1>8
<1>15. Len(packets') + 1 = n BY <1>5
<1>. QED BY <1>11, <1>12, <1>13, <1>14, <1>15 DEF Ordered, OpensFrom

LEMMA StillQuiet ==
    ASSUME UNCHANGED <<pumpPc, packet>>, closed => closed',
           \A r \in Remotes : connections'[r] \in {connections[r], None}
    PROVE  OrderQuiet
BY DEF OrderQuiet, HoldsOpening, Occupied

LEMMA NothingOrdered ==
    ASSUME OrderInv, OrderQuiet, UNCHANGED <<raw, session, packets>>
    PROVE  OrderInv'
BY OrderKept DEF RawOrdered

LEMMA EndsKeepsOrder ==
    ASSUME RakOK, OrderInv, OrderQuiet, NEW r \in Remotes, NEW mid \in Byte \ OpeningIds,
           Ends(r, mid),
           session[r] = None \/ mid \in {ID_DISCONNECTION_NOTIFICATION, ID_CONNECTION_LOST}
    PROVE  OrderInv'
<1>1. PICK p \in Packet : p = [id |-> mid, from |-> r, session |-> session[r]]
  BY MakePacket DEF RakOK, RakNetTypeOK
<1>2. /\ raw' = [raw EXCEPT ![r] = "none"] /\ session' = [session EXCEPT ![r] = None]
      /\ packets' = Append(packets, p)
  BY <1>1 DEF Ends
<1>3. RawOrdered BY <1>2 DEF RawOrdered, RakOK, RakNetTypeOK
<1>4. \A q \in Remotes : ~OpensFrom(p, q) BY <1>1 DEF OpensFrom
<1>5. \A q \in Remotes : session'[q] = None => EndsFrom(p, q) \/ session[q] = None
  BY <1>1, <1>2 DEF EndsFrom, RakOK, RakNetTypeOK
<1>. QED BY <1>2, <1>3, <1>4, <1>5, AppendKeepsOrder

LEMMA OpensKeepsOrder ==
    ASSUME RakOK, OrderInv, OrderQuiet, NEW r \in Remotes, NEW s \in Sessions,
           NEW mid \in OpeningIds, Opens(r, s, mid), raw[r] \in {"none", "connecting"}
    PROVE  OrderInv'
<1>1. PICK p \in Packet : p = [id |-> mid, from |-> r, session |-> s]
  BY MakePacket, IdValues DEF OpeningIds
<1>2. /\ raw' = [raw EXCEPT ![r] = "open"] /\ session' = [session EXCEPT ![r] = s]
      /\ packets' = Append(packets, p)
  BY <1>1 DEF Opens
<1>3. RawOrdered BY <1>2 DEF RawOrdered, RakOK, RakNetTypeOK
<1>4. CASE session[r] = None
  <2>1. \A q \in Remotes : OpensFrom(p, q) => q = r BY <1>1 DEF OpensFrom
  <2>2. \A q \in Remotes : session'[q] = None => session[q] = None /\ q # r
    BY <1>2, NoneIsNothing DEF RakOK, RakNetTypeOK
  <2>. QED BY <1>2, <1>3, <1>4, <2>1, <2>2, AppendKeepsOrder
<1>5. CASE ~(~closed' /\ pumpPc' # "crashed") BY <1>5 DEF OrderInv
<1>6. ~closed' /\ pumpPc' # "crashed" => session[r] = None BY DEF OrderInv, OrderQuiet, Ordered
<1>. QED BY <1>4, <1>5, <1>6

LEMMA HangUpKeepsOrder ==
    ASSUME RakOK, OrderInv, OrderQuiet, NEW s \in Sessions, Known(s), NEW notify \in BOOLEAN,
           HangUp(s, notify)
    PROVE  OrderInv'
<1>1. Guid(s) \in Remotes BY DEF Guid, Known, RakOK, RakNetTypeOK
<1>2. CASE UNCHANGED rawVars BY <1>2, NothingOrdered DEF rawVars
<1>3. CASE Ends(Guid(s), ID_CONNECTION_LOST) BY <1>1, <1>3, EndsKeepsOrder, IdValues
<1>4. CASE raw' = [raw EXCEPT ![Guid(s)] = "closing"] /\ UNCHANGED <<session, packets>>
  <2>1. RawOrdered BY <1>1, <1>4 DEF RawOrdered, RakOK, RakNetTypeOK
  <2>. QED BY <1>4, <2>1, OrderKept
<1>. QED BY <1>2, <1>3, <1>4 DEF HangUp, RawCloseConnection, Ends

LEMMA RakNetKeepsOrder ==
    ASSUME BaseInv, OrderInv, RakNetMoves
    PROVE  OrderInv'
<1>. RakOK BY DEF BaseInv
<1>1. OrderQuiet
  <2>1. UNCHANGED <<pumpPc, packet, closed, connections>>
    BY DEF RakNetMoves, pumpVars, closeVars, tableVars
  <2>. QED BY <2>1, StillQuiet
<1>2. ASSUME NEW r \in Remotes, NEW s \in Sessions, RemoteConnects(r, s) \/ RemoteAccepts(r, s)
      PROVE  OrderInv'
  <2>1. PICK mid \in OpeningIds : Opens(r, s, mid)
    BY <1>2 DEF RemoteConnects, RemoteAccepts, OpeningIds
  <2>. QED BY <1>1, <1>2, <2>1, OpensKeepsOrder DEF RemoteConnects, RemoteAccepts
<1>3. ASSUME NEW r \in Remotes, RemoteRejects(r) PROVE OrderInv'
  <2>1. PICK mid \in Rejections : Ends(r, mid) BY <1>3 DEF RemoteRejects
  <2>2. mid \in Byte \ OpeningIds BY <2>1, IdValues
  <2>3. CASE session[r] = None BY <1>1, <2>1, <2>2, <2>3, EndsKeepsOrder
  <2>4. ~closed' /\ pumpPc' # "crashed" => session[r] = None
    BY <1>1, <1>3 DEF OrderInv, OrderQuiet, Ordered, RemoteRejects
  <2>. QED BY <2>3, <2>4 DEF OrderInv
<1>4. ASSUME NEW r \in Remotes, RemoteLeaves(r) \/ LocalCloseCompletes(r) PROVE OrderInv'
  <2>1. PICK mid \in {ID_DISCONNECTION_NOTIFICATION, ID_CONNECTION_LOST} : Ends(r, mid)
    BY <1>4 DEF RemoteLeaves, LocalCloseCompletes
  <2>. QED BY <1>1, <2>1, EndsKeepsOrder, IdValues
<1>5. ASSUME NEW r \in Remotes, RemoteSends(r) PROVE OrderInv'
  <2>1. PICK p \in Packet : p = [id |-> ID_USER_PACKET_ENUM, from |-> r, session |-> session[r]]
    BY MakePacket, IdValues DEF RakOK, RakNetTypeOK
  <2>2. packets' = Append(packets, p) /\ UNCHANGED <<raw, session>> BY <1>5, <2>1 DEF RemoteSends
  <2>3. \A q : ~OpensFrom(p, q) BY <2>1, IdValues DEF OpensFrom
  <2>. QED BY <1>1, <2>2, <2>3, AppendKeepsOrder DEF RawOrdered
<1>. QED BY <1>2, <1>3, <1>4, <1>5 DEF RakNetMoves, RakNetStep

LEMMA PopShrinks ==
    ASSUME BaseInv, NEW s, PopConnection(s)
    PROVE  \A r \in Remotes : connections'[r] \in {connections[r], None}
BY DEF PopConnection, BaseInv, TablesOK, TableTypeOK

LEMMA PumpKeepsOrder ==
    ASSUME BaseInv, OrderInv, PumpStep \/ PumpCrashes
    PROVE  OrderInv'
<1>1. CASE PumpReceives BY <1>1, ReceiveKeepsOrder
<1>2. CASE PumpCrashes
  <2>1. pumpPc' = "crashed" BY <1>2 DEF PumpCrashes, PumpGoesTo
  <2>. QED BY <2>1 DEF OrderInv
<1>3. CASE PumpFails BY <1>3 DEF PumpFails, BeginClose, closeVars, OrderInv
<1>4. CASE IncomingInserts \/ SucceededInserts
  <2>1. PICK r \in Remotes : r = packet.from /\ HoldsOpening(r)
    BY <1>4, PumpHolds, PumpLeaves, PacketProperties
       DEF IncomingInserts, SucceededInserts, BaseInv, HoldsOpening
  <2>2. /\ \A q \in Remotes : q # r => connections'[q] = connections[q]
        /\ pumpPc' \in {"accept_put", "succeeded_publish"}
        /\ UNCHANGED <<raw, session, packets, closed, packet>> /\ pumpPc # "crashed"
    BY <1>4, <2>1
       DEF IncomingInserts, SucceededInserts, BuildConnection, PumpGoesTo, closeVars, rawVars,
           BaseInv, TablesOK, TableTypeOK
  <2>3. pumpPc # "disconnected" BY <1>4 DEF IncomingInserts, SucceededInserts
  <2>4. OrderQuiet BY <2>1, <2>2, <2>3 DEF OrderQuiet, HoldsOpening, Occupied
  <2>. QED BY <2>2, <2>4, NothingOrdered
<1>5. CASE DisconnectedPops
  <2>1. PICK r \in Remotes : r = packet.from
    BY <1>5, PumpHolds, PacketProperties DEF DisconnectedPops, BaseInv
  <2>2. /\ connections' = [connections EXCEPT ![r] = None] /\ pumpPc = "disconnected"
        /\ pumpPc' \in {"check", "disconnected_mark"}
        /\ UNCHANGED <<raw, session, packets, closed>>
    BY <1>5, <2>1 DEF DisconnectedPops, PumpReturns, closeVars, rawVars
  <2>3. \A q \in Remotes : connections'[q] = IF q = r THEN None ELSE connections[q]
    BY <2>2 DEF BaseInv, TablesOK, TableTypeOK
  <2>4. OrderQuiet BY <2>1, <2>2, <2>3 DEF OrderQuiet, HoldsOpening, Occupied
  <2>. QED BY <2>2, <2>4, NothingOrdered
<1>6. CASE OverflowHangsUp
  <2>1. found \in Sessions /\ Known(found) /\ RakOK
    BY <1>6, PumpHolds, PumpLeaves DEF BaseInv, OverflowHangsUp
  <2>2. /\ UNCHANGED <<closed, connections>> /\ pumpPc = "overflow_hangup"
        /\ pumpPc' = "overflow_mailbox"
    BY <1>6 DEF OverflowHangsUp, PumpGoesTo, closeVars, tableVars
  <2>3. OrderQuiet BY <2>2 DEF OrderQuiet, HoldsOpening, Occupied
  <2>. QED BY <1>6, <2>1, <2>3, HangUpKeepsOrder DEF OverflowHangsUp
<1>7. ASSUME UNCHANGED <<rawVars, closed>>, pumpPc \notin {"crashed", "disconnected"},
             \A r \in Remotes : connections'[r] \in {connections[r], None},
             pumpPc' \in OpeningPump => pumpPc \in OpeningPump /\ packet' = packet
      PROVE  OrderInv'
  <2>1. OrderQuiet BY <1>7 DEF OrderQuiet, HoldsOpening, Occupied, OpeningPump
  <2>. QED BY <1>7, <2>1, NothingOrdered DEF rawVars
<1>8. CASE OverflowPops
  BY <1>7, <1>8, PopShrinks DEF OverflowPops, closeVars, PumpGoesTo, OpeningPump
<1>9. CASE \/ PumpChecks \/ PumpIdles \/ IncomingQueues \/ PumpPopsPending \/ SucceededPublishes
           \/ SucceededSets \/ FailedSets \/ MessageLooksUp \/ MessagePuts \/ OverflowMarks
           \/ OverflowClosesMailbox \/ DisconnectedMarks \/ DisconnectedClosesMailbox
  <2>1. UNCHANGED <<rawVars, closed, connections>> /\ pumpPc \notin {"crashed", "disconnected"}
    BY <1>9 DEF PumpChecks, PumpIdles, IncomingQueues, PumpPopsPending, SucceededPublishes,
       SucceededSets, FailedSets, MessageLooksUp, MessagePuts, OverflowMarks,
       OverflowClosesMailbox, DisconnectedMarks, DisconnectedClosesMailbox, closeVars, tableVars
  <2>2. pumpPc' \in OpeningPump => pumpPc \in OpeningPump /\ packet' = packet
    BY <1>9 DEF PumpChecks, PumpIdles, IncomingQueues, PumpPopsPending, SucceededPublishes,
       SucceededSets, FailedSets, MessageLooksUp, MessagePuts, OverflowMarks,
       OverflowClosesMailbox, DisconnectedMarks, DisconnectedClosesMailbox, PumpReturns,
       PumpGoesTo, OpeningPump
  <2>. QED BY <1>7, <2>1, <2>2
<1>. QED BY <1>1, <1>2, <1>3, <1>4, <1>5, <1>6, <1>8, <1>9 DEF PumpStep

LEMMA CloseKeepsOrder ==
    ASSUME BaseInv, OrderInv, NEW t \in Calls \cup Sessions, CloseStep(t)
    PROVE  OrderInv'
<1>1. OrderQuiet
  <2>1. UNCHANGED <<pumpPc, packet, closed>>
    BY DEF CloseStep, CloseChecks, ClosePops, CloseMarks, CloseHangsUp, CloseClosesMailbox,
       coreVars, pumpVars, closeVars
  <2>2. \A r \in Remotes : connections'[r] \in {connections[r], None}
    BY PopShrinks
       DEF CloseStep, CloseChecks, ClosePops, CloseMarks, CloseHangsUp, CloseClosesMailbox,
           coreVars, tableVars
  <2>. QED BY <2>1, <2>2, StillQuiet
<1>2. CASE CloseHangsUp(t)
  <2>1. pc[t] \in ClosePcs BY <1>2 DEF CloseHangsUp, ClosePcs
  <2>2. Closing(t) \in Sessions /\ Known(Closing(t)) BY <2>1, ClosingIsKnown
  <2>3. PICK notify \in BOOLEAN : HangUp(Closing(t), notify) BY <1>2 DEF CloseHangsUp
  <2>. QED BY <1>1, <2>2, <2>3, HangUpKeepsOrder DEF BaseInv
<1>3. CASE ~CloseHangsUp(t)
  BY <1>1, <1>3, NothingOrdered
     DEF CloseStep, CloseChecks, ClosePops, CloseMarks, CloseClosesMailbox, coreVars, rawVars
<1>. QED BY <1>2, <1>3

LEMMA ThreadsKeepOrder ==
    ASSUME BaseInv, OrderInv,
           \/ \E t \in Calls : CallStep(t) \/ CallTimesOut(t)
           \/ \E q \in Sessions : OwnerStep(q) \/ OwnerCloses(q)
           \/ \E a \in Acceptors : AcceptorStep(a) \/ AcceptTimesOut(a)
    PROVE  OrderInv'
<1>1. CASE \E t \in Calls \cup Sessions : CloseStep(t) BY <1>1, CloseKeepsOrder
<1>2. CASE ~\E t \in Calls \cup Sessions : CloseStep(t)
  <2>1. UNCHANGED <<pumpPc, packet, closed, connections, session, packets>>
    BY <1>2
       DEF CallStep, CallBegins, CallRegisters, CallDials, CallUndials, CallFinishes, CallAbandons,
       CallCancels, CallRewaits, CallTimesOut, PopPendingOf, OwnerStep, OwnerReceives,
       OwnerSeesEnd, OwnerCloses, AcceptorStep, AcceptBegins, AcceptGets, AcceptReputs,
       AcceptTimesOut, RawConnect, RawCancelConnectionAttempt,
       coreVars, rawVars, tableVars, pumpVars, closeVars
  <2>2. RawOrdered
    <3>1. CASE UNCHANGED raw BY <2>1, <3>1 DEF RawOrdered
    <3>2. ASSUME NEW c \in Calls, CallDials(c) \/ CallCancels(c) PROVE RawOrdered
      <4>1. Target[c] \in Remotes BY PeerAssumption
      <4>2. \A r \in Remotes : raw'[r] # raw[r] => raw[r] \in {"none", "connecting"}
        BY <3>2, <4>1
           DEF CallDials, CallCancels, RawConnect, RawCancelConnectionAttempt, ConnectResult,
               BaseInv, RakOK, RakNetTypeOK, RawStates
      <4>. QED BY <2>1, <4>2 DEF RawOrdered
    <3>. QED BY <1>2, <3>1, <3>2
         DEF CallStep, CallBegins, CallRegisters, CallUndials, CallFinishes, CallAbandons,
         CallRewaits, CallTimesOut, PopPendingOf, OwnerStep, OwnerReceives,
         OwnerSeesEnd, OwnerCloses, AcceptorStep, AcceptBegins, AcceptGets, AcceptReputs,
         AcceptTimesOut, coreVars, rawVars
  <2>3. OrderQuiet BY <2>1, StillQuiet
  <2>. QED BY <2>1, <2>2, <2>3, OrderKept
<1>. QED BY <1>1, <1>2

LEMMA OrderStep ==
    ASSUME BaseInv, OrderInv, [Next]_vars
    PROVE  OrderInv'
<1>1. CASE UNCHANGED vars
  <2>1. UNCHANGED <<pumpPc, packet, closed, connections, raw, session, packets>>
    BY <1>1 DEF vars, coreVars, rawVars, tableVars, pumpVars, closeVars
  <2>. QED BY <2>1, StillQuiet, NothingOrdered
<1>2. CASE PeerCloses BY <1>2 DEF PeerCloses, BeginClose, OrderInv
<1>3. CASE CloserStep
  <2>1. closed' /\ closed
    BY <1>3 DEF CloserStep, CloserJoinsPump, CloserShutsDown, FinishMarks, FinishClosesMailbox,
       FinishFailsPending, FinishQueuesSentinel, BaseInv, CloseOK, CloseInv, CloseTypeOK
  <2>. QED BY <2>1 DEF OrderInv
<1>. QED BY <1>1, <1>2, <1>3, RakNetKeepsOrder, PumpKeepsOrder, ThreadsKeepOrder DEF Next

LEMMA OrderInit == Init => OrderInv
<1>1. SUFFICES ASSUME Init, NEW r \in Remotes PROVE Ordered(r) BY DEF OrderInv
<1>2. raw[r] = "none" /\ session[r] = None /\ connections[r] = None /\ pumpPc = "check"
      /\ Len(packets) = 0
  BY <1>1, EmptySeq DEF Init, CoreInit, RakNetInit
<1>. QED BY <1>2 DEF Ordered, HoldsOpening, Occupied

-----------------------------------------------------------------------------
(* Nobody sets an owner going twice. *)

(* A thread moves by a step of its own, or an owner is set going. *)
Moves(t) == \/ t \in Calls /\ (CallStep(t) \/ CallTimesOut(t))
            \/ t \in Sessions /\ (OwnerStep(t) \/ OwnerCloses(t))

WokenBy(c, s) == CallFinishes(c) /\ pending[c].connection = s /\ pc'[c] = "returned"

Woken(s) == \/ \E a \in Acceptors : AcceptGets(a) /\ Head(acceptQueue) = s
            \/ \E c \in Calls : WokenBy(c, s)

LEMMA ThreadsMove ==
    ASSUME BaseInv, [Next]_vars, NEW t \in Calls \cup Sessions
    PROVE  pc'[t] = pc[t] \/ Moves(t) \/ (t \in Sessions /\ Woken(t))
<1>1. pc \in [Threads -> CallPcs \cup ClosePcs \cup OwnerPcs \cup AcceptorPcs]
  BY DEF BaseInv, ThreadsOK, ThreadTypeOK
<1>2. t \in Threads /\ t \notin Acceptors BY ThreadKinds
<1>3. \A u, step : u # t /\ Goes(u, step) => pc'[t] = pc[t] BY <1>1, <1>2 DEF Goes
<1>4. ASSUME NEW c \in Calls, c # t, CallStep(c) \/ CallTimesOut(c)
      PROVE  pc'[t] = pc[t] \/ (t \in Sessions /\ Woken(t))
  <2>1. CASE CallFinishes(c)
    <3>1. CASE Goes(c, "raised") BY <1>3, <1>4, <3>1
    <3>2. CASE /\ pending[c].connection # None
               /\ pc' = [pc EXCEPT ![c] = "returned", ![pending[c].connection] = "using"]
      <4>1. pending[c].connection \in Sessions
        BY <3>2 DEF BaseInv, ObjectsOK, ObjectTypeOK, PendingConnect
      <4>2. c \in Threads /\ c \notin Sessions BY ThreadKinds
      <4>3. pc'[c] = "returned" BY <1>1, <3>2, <4>1, <4>2
      <4>4. CASE t = pending[c].connection BY <2>1, <4>1, <4>3, <4>4 DEF Woken, WokenBy
      <4>5. CASE t # pending[c].connection BY <1>1, <1>2, <1>4, <3>2, <4>5
      <4>. QED BY <4>4, <4>5
    <3>. QED BY <2>1, <3>1, <3>2 DEF CallFinishes
  <2>2. CASE ~CallFinishes(c)
    <3>1. PICK step : Goes(c, step)
      BY <1>4, <2>2 DEF CallStep, CallBegins, CallRegisters, CallDials, CallUndials, CallAbandons,
         CallCancels, CallRewaits, CallTimesOut, CloseStep, CloseChecks, ClosePops, CloseMarks,
         CloseHangsUp, CloseClosesMailbox
    <3>. QED BY <1>3, <1>4, <3>1
  <2>. QED BY <2>1, <2>2
<1>5. ASSUME NEW s \in Sessions, s # t, OwnerStep(s) \/ OwnerCloses(s) PROVE pc'[t] = pc[t]
  BY <1>3, <1>5
     DEF OwnerStep, OwnerReceives, OwnerSeesEnd, OwnerCloses, CloseStep, CloseChecks, ClosePops,
         CloseMarks, CloseHangsUp, CloseClosesMailbox
<1>6. ASSUME NEW a \in Acceptors, AcceptorStep(a) \/ AcceptTimesOut(a)
      PROVE  pc'[t] = pc[t] \/ (t \in Sessions /\ Woken(t))
  <2>1. a # t BY <1>2
  <2>2. CASE AcceptGets(a) /\ pc' = [pc EXCEPT ![a] = "idle", ![Head(acceptQueue)] = "using"]
    <3>1. Head(acceptQueue) \in Sessions \cup {None} BY <2>2, QueueHead DEF AcceptGets
    <3>2. t # None BY NoneIsNothing
    <3>3. CASE t = Head(acceptQueue) BY <2>2, <3>1, <3>2, <3>3 DEF Woken
    <3>4. CASE t # Head(acceptQueue) BY <1>1, <1>2, <2>1, <2>2, <3>4
    <3>. QED BY <3>3, <3>4
  <2>3. CASE \E step : Goes(a, step) BY <1>3, <2>1, <2>3
  <2>. QED BY <1>6, <2>2, <2>3
       DEF AcceptorStep, AcceptBegins, AcceptGets, AcceptReputs, AcceptTimesOut
<1>7. CASE UNCHANGED pc BY <1>7
<1>8. CASE UNCHANGED vars BY <1>8 DEF vars
<1>. QED BY <1>4, <1>5, <1>6, <1>7, <1>8 DEF Next, Moves

(* What a thread that moves by itself may do. *)
LEMMA MovesWell ==
    ASSUME BaseInv, NEW t \in Calls \cup Sessions, Moves(t)
    PROVE  /\ t \in Sessions => pc[t] # "idle"
           /\ pc[t] = "close_mark" => CloseMarks(t)
           /\ t \in Calls => pc[t] # "returned"
<1>1. pc \in [Threads -> CallPcs \cup ClosePcs \cup OwnerPcs \cup AcceptorPcs] /\ t \in Threads
  BY ThreadKinds DEF BaseInv, ThreadsOK, ThreadTypeOK
<1>2. CASE CloseStep(t)
  BY <1>2 DEF CloseStep, CloseChecks, ClosePops, CloseMarks, CloseHangsUp, CloseClosesMailbox,
     ClosePcs
<1>3. CASE t \in Calls /\ ~CloseStep(t)
  <2>1. t \notin Sessions BY <1>3, ThreadKinds
  <2>2. CASE CallFinishes(t)
    <3>1. pending[t].event /\ pc[t] = "wait" BY <2>2 DEF CallFinishes
    <3>. QED BY <2>1, <3>1
  <2>3. CASE CallRewaits(t)
    <3>1. pending[t].event /\ pc[t] = "rewait" BY <2>3 DEF CallRewaits
    <3>. QED BY <2>1, <3>1
  <2>4. CASE ~CallFinishes(t) /\ ~CallRewaits(t)
    <3>1. /\ pc[t] \in {"idle", "register", "dial", "undial", "wait", "abandon", "cancel"}
          /\ \E step : Goes(t, step) /\ step \notin ClosePcs
      BY <1>3, <2>1, <2>4 DEF Moves, CallStep, CallBegins, CallRegisters, CallDials, CallUndials,
         CallAbandons, CallCancels, CallTimesOut, ClosePcs
    <3>. QED BY <1>1, <2>1, <3>1 DEF Goes
  <2>. QED BY <2>2, <2>3, <2>4
<1>4. CASE t \in Sessions /\ ~CloseStep(t)
  <2>1. t \notin Calls BY <1>4, ThreadKinds
  <2>2. pc[t] = "using"
    BY <1>4, <2>1 DEF Moves, OwnerStep, OwnerReceives, OwnerSeesEnd, OwnerCloses
  <2>. QED BY <2>1, <2>2
<1>. QED BY <1>2, <1>3, <1>4

-----------------------------------------------------------------------------

LEMMA DistinctAppended ==
    ASSUME BaseInv, QueueDistinct, NEW x, acceptQueue' = Append(acceptQueue, x),
           x \in Sessions \cup {None}, x # None => ~Queued(x)
    PROVE  /\ QueueDistinct'
           /\ \A s \in Sessions : Queued(s)' => Queued(s) \/ s = x
<1>1. acceptQueue \in Seq(Sessions \cup {None}) BY DEF BaseInv, QueueOK, QueueTypeOK
<1>2. PICK n \in Nat : n = Len(acceptQueue) BY <1>1, LenProperties
<1>3. /\ Len(acceptQueue') = n + 1 /\ acceptQueue'[n + 1] = x
      /\ \A i \in 1 .. n : acceptQueue'[i] = acceptQueue[i]
  BY <1>1, <1>2, AppendProperties
<1>4. \A i \in 1 .. n + 1 : i \in 1 .. n \/ i = n + 1 OBVIOUS
<1>5. QueueDistinct' BY <1>2, <1>3, <1>4 DEF QueueDistinct, Queued
<1>6. \A s \in Sessions : Queued(s)' => Queued(s) \/ s = x BY <1>2, <1>3, <1>4 DEF Queued
<1>. QED BY <1>5, <1>6

LEMMA DistinctShortened ==
    ASSUME BaseInv, QueueDistinct, acceptQueue # <<>>, acceptQueue' = Tail(acceptQueue)
    PROVE  /\ QueueDistinct'
           /\ Head(acceptQueue) \in Sessions \cup {None}
           /\ \A s \in Sessions : Queued(s)' => Queued(s) /\ s # Head(acceptQueue)
           /\ Head(acceptQueue) # None => Queued(Head(acceptQueue))
<1>. PICK n \in Nat : n = Len(acceptQueue) BY QueueHead
<1>1. /\ Head(acceptQueue) \in Sessions \cup {None}
      /\ Head(acceptQueue) = acceptQueue[1] /\ 1 \in 1 .. n /\ Len(acceptQueue') = n - 1
      /\ \A i \in 1 .. n - 1 : acceptQueue'[i] = acceptQueue[i + 1]
  BY QueueHead
<1>2. \A i \in 1 .. n - 1 : i + 1 \in 1 .. n /\ i + 1 # 1 OBVIOUS
<1>3. QueueDistinct'
  <2>1. SUFFICES ASSUME NEW i \in 1 .. n - 1, NEW j \in 1 .. n - 1,
                        acceptQueue'[i] = acceptQueue'[j], acceptQueue'[i] # None
                 PROVE  i = j
    BY <1>1 DEF QueueDistinct
  <2>2. i + 1 = j + 1 BY <1>1, <1>2, <2>1 DEF QueueDistinct
  <2>. QED BY <2>2
<1>4. ASSUME NEW s \in Sessions, Queued(s)' PROVE Queued(s) /\ s # Head(acceptQueue)
  <2>1. PICK i \in 1 .. n - 1 : acceptQueue[i + 1] = s BY <1>1, <1>4 DEF Queued
  <2>. QED BY <1>1, <1>2, <2>1, NoneIsNothing DEF Queued, QueueDistinct
<1>. QED BY <1>1, <1>3, <1>4 DEF Queued

PromisesStay == \A c \in Calls : pending'[c].connection = pending[c].connection

HandStays == \A s \in Sessions : InHand(s)' => InHand(s)

LEMMA WokenIsNew ==
    ASSUME BaseInv, OwnInv, NEW s \in Sessions, Woken(s)
    PROVE  /\ ~InHand(s) /\ ~Queued(s)'
           /\ \A c \in Calls : pending[c].connection = s => pc'[c] = "returned"
<1>1. ASSUME NEW a \in Acceptors, AcceptGets(a), Head(acceptQueue) = s
      PROVE  /\ ~InHand(s) /\ ~Queued(s)'
             /\ \A c \in Calls : pending[c].connection = s => pc'[c] = "returned"
  <2>1. acceptQueue # <<>> /\ acceptQueue' = Tail(acceptQueue) BY <1>1 DEF AcceptGets
  <2>2. Queued(s) /\ ~Queued(s)' BY <1>1, <2>1, DistinctShortened, NoneIsNothing DEF OwnInv
  <2>. QED BY <2>2 DEF OwnInv, Unpromised
<1>2. ASSUME NEW c \in Calls, WokenBy(c, s)
      PROVE  /\ ~InHand(s) /\ ~Queued(s)'
             /\ \A d \in Calls : pending[d].connection = s => pc'[d] = "returned"
  <2>1. pending[c].connection = s /\ pc'[c] = "returned" /\ s # None
    BY <1>2, NoneIsNothing DEF WokenBy
  <2>2. ~InHand(s) /\ ~Queued(s) BY <2>1 DEF OwnInv, Unpromised
  <2>3. UNCHANGED acceptQueue BY <1>2 DEF WokenBy, CallFinishes, coreVars
  <2>4. ~Queued(s)' BY <2>2, <2>3 DEF Queued
  <2>. QED BY <2>1, <2>2, <2>4 DEF OwnInv
<1>. QED BY <1>1, <1>2 DEF Woken

(* A step that hands no Connection on, except to its owner. *)
LEMMA OwnKept ==
    ASSUME BaseInv, OwnInv, [Next]_vars, PromisesStay, HandStays, QueueDistinct',
           \A s \in Sessions : Queued(s)' => Queued(s)
    PROVE  OwnInv'
<1>1. \A s \in Sessions : pc[s] = "idle" /\ ~Woken(s) => pc'[s] = "idle"
  BY ThreadsMove, MovesWell
<1>2. \A c \in Calls : pc[c] = "returned" => pc'[c] = "returned"
  <2>1. \A c \in Calls : c \notin Sessions BY ThreadKinds
  <2>. QED BY <2>1, ThreadsMove, MovesWell
<1>3. ASSUME NEW s \in Sessions, Queued(s)'
      PROVE  pc'[s] = "idle" /\ ~InHand(s)' /\ Unpromised(s)'
  BY <1>1, <1>3, WokenIsNew DEF OwnInv, HandStays, PromisesStay, Unpromised
<1>4. ASSUME NEW s \in Sessions, InHand(s)' PROVE pc'[s] = "idle" /\ Unpromised(s)'
  BY <1>1, <1>4, WokenIsNew DEF OwnInv, HandStays, PromisesStay, Unpromised
<1>5. ASSUME NEW c \in Calls, pending'[c].connection # None, pc'[c] # "returned"
      PROVE  pc'[pending'[c].connection] = "idle"
  <2>1. pending[c].connection \in Sessions /\ pending'[c].connection = pending[c].connection
    BY <1>5 DEF PromisesStay, BaseInv, ObjectsOK, ObjectTypeOK, PendingConnect
  <2>2. pc[pending[c].connection] = "idle" BY <1>2, <1>5, <2>1, NoneIsNothing DEF OwnInv
  <2>3. ~Woken(pending[c].connection) BY <1>5, <2>1, WokenIsNew
  <2>. QED BY <1>1, <2>1, <2>2, <2>3
<1>6. ASSUME NEW c \in Calls, NEW d \in Calls, pending'[c].connection = pending'[d].connection
      PROVE  c = d \/ pending'[c].connection = None
  BY <1>6 DEF OwnInv, PromisesStay
<1>. QED BY <1>3, <1>4, <1>5, <1>6 DEF OwnInv

LEMMA BuildsOwn ==
    ASSUME BaseInv, LifeInv, OwnInv, IncomingInserts \/ SucceededInserts, UNCHANGED pc
    PROVE  OwnInv'
<1>1. pumpPc \in OpeningPump BY DEF IncomingInserts, SucceededInserts, OpeningPump
<1>2. packet.session \in Sessions /\ packet.session # None /\ ~Built(packet.session)
  BY <1>1, HeldOpening, NoneIsNothing DEF LifeInv, OpeningInv, OpeningPump, Built
<1>3. UNCHANGED <<acceptQueue, pending, packet>> /\ pumpPc \notin BuiltPump
  BY DEF IncomingInserts, SucceededInserts, PumpGoesTo, BuiltPump
<1>4. /\ pc[packet.session] = "idle" /\ Unpromised(packet.session) /\ ~Queued(packet.session)
  BY <1>2 DEF LifeInv, BuiltInv, Unpromised, Queued
<1>5. QueueDistinct' /\ \A s \in Sessions : /\ Queued(s)' => Queued(s)
                                            /\ Unpromised(s)' <=> Unpromised(s)
                                            /\ InHand(s)' => s = packet.session
  BY <1>3 DEF OwnInv, QueueDistinct, Queued, Unpromised, InHand
<1>6. ASSUME NEW s \in Sessions, Queued(s)'
      PROVE  pc'[s] = "idle" /\ ~InHand(s)' /\ Unpromised(s)'
  BY <1>4, <1>5, <1>6 DEF OwnInv
<1>7. ASSUME NEW s \in Sessions, InHand(s)' PROVE pc'[s] = "idle" /\ Unpromised(s)'
  BY <1>4, <1>5, <1>7
<1>. QED BY <1>3, <1>5, <1>6, <1>7 DEF OwnInv

LEMMA QueuesOwn ==
    ASSUME BaseInv, OwnInv, IncomingQueues, UNCHANGED pc
    PROVE  OwnInv'
<1>1. /\ packet.session \in Sessions /\ acceptQueue' = Append(acceptQueue, packet.session)
      /\ pumpPc' = "check" /\ UNCHANGED pending /\ InHand(packet.session)
  BY PumpHolds, PumpLeaves
     DEF IncomingQueues, BaseInv, PumpReturns, objectVars, InHand, BuiltPump
<1>2. ~Queued(packet.session) BY <1>1 DEF OwnInv
<1>3. QueueDistinct' /\ \A s \in Sessions : Queued(s)' => Queued(s) \/ s = packet.session
  BY <1>1, <1>2, DistinctAppended DEF OwnInv
<1>4. \A s \in Sessions : ~InHand(s)' /\ (Unpromised(s)' <=> Unpromised(s))
  BY <1>1 DEF InHand, BuiltPump, Unpromised
<1>5. ASSUME NEW s \in Sessions, Queued(s)'
      PROVE  pc'[s] = "idle" /\ ~InHand(s)' /\ Unpromised(s)'
  BY <1>1, <1>3, <1>4, <1>5 DEF OwnInv
<1>. QED BY <1>1, <1>3, <1>4, <1>5 DEF OwnInv

LEMMA PublishesOwn ==
    ASSUME BaseInv, ResolutionInv, OwnInv, SucceededPublishes, UNCHANGED pc
    PROVE  OwnInv'
<1>1. PICK c \in Calls : c = popped
  BY PumpHolds, PumpLeaves DEF BaseInv, SucceededPublishes
<1>. PICK x \in Sessions : x = packet.session
  BY PumpHolds, PumpLeaves DEF BaseInv, SucceededPublishes
<1>2. /\ InHand(x) /\ pumpPc' = "set_event" /\ UNCHANGED acceptQueue
  BY DEF SucceededPublishes, PumpGoesTo, InHand, BuiltPump
<1>3. pending'[c].connection = x /\ \A d \in Calls : d # c => pending'[d] = pending[d]
  <2>1. pending \in [Calls -> PendingConnect] BY DEF BaseInv, ObjectsOK, ObjectTypeOK
  <2>2. pending' = [pending EXCEPT ![c].connection = x] BY <1>1 DEF SucceededPublishes
  <2>. QED BY <2>1, <2>2 DEF PendingConnect
<1>4. pc[x] = "idle" /\ Unpromised(x) /\ ~Queued(x) BY <1>2 DEF OwnInv
<1>5. QueueDistinct' /\ \A s \in Sessions : ~InHand(s)' /\ (Queued(s)' <=> Queued(s))
  BY <1>2 DEF OwnInv, QueueDistinct, InHand, BuiltPump, Queued
<1>6. \A s \in Sessions : Unpromised(s) /\ s # x => Unpromised(s)'
  BY <1>3 DEF Unpromised
<1>7. ASSUME NEW s \in Sessions, Queued(s)'
      PROVE  pc'[s] = "idle" /\ ~InHand(s)' /\ Unpromised(s)'
  BY <1>4, <1>5, <1>6, <1>7 DEF OwnInv
<1>8. ASSUME NEW d \in Calls, pending'[d].connection # None, pc'[d] # "returned"
      PROVE  pc'[pending'[d].connection] = "idle"
  BY <1>3, <1>4, <1>8 DEF OwnInv
<1>9. ASSUME NEW d \in Calls, NEW e \in Calls, pending'[d].connection = pending'[e].connection
      PROVE  d = e \/ pending'[d].connection = None
  <2>1. \A f \in Calls : pending'[f].connection = x => f = c BY <1>3, <1>4 DEF Unpromised
  <2>2. CASE d = c \/ e = c BY <1>3, <1>9, <2>1, <2>2
  <2>3. CASE d # c /\ e # c BY <1>3, <1>9, <2>3 DEF OwnInv
  <2>. QED BY <2>2, <2>3
<1>. QED BY <1>5, <1>7, <1>8, <1>9 DEF OwnInv

LEMMA OwnStep ==
    ASSUME BaseInv, ResolutionInv, LifeInv, OwnInv, [Next]_vars
    PROVE  OwnInv'
<1>1. UNCHANGED acceptQueue => QueueDistinct' /\ \A s \in Sessions : Queued(s)' => Queued(s)
  BY DEF OwnInv, QueueDistinct, Queued
<1>2. ASSUME acceptQueue' = Append(acceptQueue, None)
      PROVE  QueueDistinct' /\ \A s \in Sessions : Queued(s)' => Queued(s)
  BY <1>2, DistinctAppended, NoneIsNothing DEF OwnInv
<1>3. UNCHANGED pumpVars => HandStays BY DEF HandStays, InHand, pumpVars
<1>4. UNCHANGED pending => PromisesStay BY DEF PromisesStay
<1>5. CASE UNCHANGED vars \/ RakNetMoves \/ PeerCloses
  <2>1. UNCHANGED <<acceptQueue, pumpVars, pending>>
    BY <1>5 DEF vars, coreVars, RakNetMoves, PeerCloses, objectVars
  <2>. QED BY <1>1, <1>3, <1>4, <2>1, OwnKept
<1>6. CASE CloserStep
  <2>1. PromisesStay
    BY <1>4, <1>6, ResolvesStay
       DEF CloserStep, CloserJoinsPump, CloserShutsDown, FinishMarks, FinishClosesMailbox,
           FinishQueuesSentinel, ConnectionsStay, PromisesStay, objectVars
  <2>2. HandStays
    BY <1>3, <1>6
       DEF CloserStep, CloserJoinsPump, CloserShutsDown, FinishMarks, FinishClosesMailbox,
           FinishFailsPending, FinishQueuesSentinel, PumpGoesTo, HandStays, InHand, BuiltPump
  <2>3. UNCHANGED acceptQueue \/ acceptQueue' = Append(acceptQueue, None)
    BY <1>6
       DEF CloserStep, CloserJoinsPump, CloserShutsDown, FinishMarks, FinishClosesMailbox,
           FinishFailsPending, FinishQueuesSentinel
  <2>. QED BY <1>1, <1>2, <2>1, <2>2, <2>3, OwnKept
<1>7. CASE (PumpStep \/ PumpCrashes) /\ UNCHANGED pc
  <2>1. CASE IncomingInserts \/ SucceededInserts BY <1>7, <2>1, BuildsOwn
  <2>2. CASE IncomingQueues BY <1>7, <2>2, QueuesOwn
  <2>3. CASE SucceededPublishes BY <1>7, <2>3, PublishesOwn
  <2>4. CASE ~(IncomingInserts \/ SucceededInserts \/ IncomingQueues \/ SucceededPublishes)
    <3>1. PromisesStay
      BY <1>4, <1>7, <2>4, ResolvesStay
         DEF PumpStep, PumpCrashes, PumpChecks, PumpIdles, PumpReceives, PumpPopsPending,
         MessageLooksUp, MessagePuts, OverflowPops, OverflowMarks, OverflowHangsUp,
         OverflowClosesMailbox, DisconnectedPops, DisconnectedMarks, DisconnectedClosesMailbox,
         PumpFails, objectVars, ConnectionsStay, PromisesStay
    <3>2. UNCHANGED acceptQueue /\ pumpPc' \notin BuiltPump
      <4>1. PumpReceives => pumpPc' \notin BuiltPump
        <5>1. packets # <<>> => Head(packets).id \in Byte
          BY PacketProperties, RawReceiveOK DEF BaseInv, RakOK, RakNetTypeOK
        <5>. QED BY <5>1, RouteProperties DEF PumpReceives, PumpReturns, BuiltPump
      <4>. QED
        BY <1>7, <2>4, <4>1
         DEF PumpStep, PumpCrashes, PumpChecks, PumpIdles, PumpReceives, PumpPopsPending,
         SucceededSets, FailedSets,
         MessageLooksUp, MessagePuts, OverflowPops, OverflowMarks, OverflowHangsUp,
         OverflowClosesMailbox, DisconnectedPops, DisconnectedMarks, DisconnectedClosesMailbox,
         PumpFails, PumpGoesTo, PumpReturns, BuiltPump
    <3>3. HandStays BY <3>2 DEF HandStays, InHand
    <3>. QED BY <1>1, <3>1, <3>2, <3>3, OwnKept
  <2>. QED BY <2>1, <2>2, <2>3, <2>4
<1>8. CASE \/ \E t \in Calls : CallStep(t) \/ CallTimesOut(t)
           \/ \E q \in Sessions : OwnerStep(q) \/ OwnerCloses(q)
           \/ \E a \in Acceptors : AcceptorStep(a) \/ AcceptTimesOut(a)
  <2>1. PromisesStay /\ HandStays BY <1>3, <1>4, <1>8, ThreadsLeave
  <2>2. ASSUME NEW a \in Acceptors, AcceptGets(a)
        PROVE  QueueDistinct' /\ \A s \in Sessions : Queued(s)' => Queued(s)
    BY <2>2, DistinctShortened DEF AcceptGets, OwnInv
  <2>3. \/ UNCHANGED acceptQueue \/ acceptQueue' = Append(acceptQueue, None)
        \/ \E a \in Acceptors : AcceptGets(a)
    BY <1>8 DEF CallStep, CallBegins, CallRegisters, CallDials, CallUndials, CallFinishes,
       CallAbandons, CallCancels, CallRewaits, CallTimesOut, PopPendingOf, OwnerStep,
       OwnerReceives, OwnerSeesEnd, OwnerCloses, AcceptorStep, AcceptBegins, AcceptReputs,
       AcceptTimesOut, CloseStep, CloseChecks, ClosePops, CloseMarks, CloseHangsUp,
       CloseClosesMailbox, coreVars
  <2>. QED BY <1>1, <1>2, <2>1, <2>2, <2>3, OwnKept
<1>. QED BY <1>5, <1>6, <1>7, <1>8 DEF Next

LEMMA OwnInit == Init => OwnInv
<1>1. SUFFICES ASSUME Init PROVE OwnInv OBVIOUS
<1>2. /\ Len(acceptQueue) = 0 /\ pumpPc = "check"
      /\ \A c \in Calls : pending[c].connection = None /\ pc[c] = "idle"
  BY <1>1, EmptySeq, ThreadKinds DEF Init, CoreInit
<1>. QED BY <1>2 DEF OwnInv, QueueDistinct, Queued, InHand, BuiltPump

-----------------------------------------------------------------------------
(* A Connection that says it is connected is where somebody can end it. *)

LEMMA PumpMarks ==
    ASSUME BaseInv, [Next]_vars, pumpPc \in {"overflow_mark", "disconnected_mark"}
    PROVE  UNCHANGED <<pumpPc, found>> \/ MarkClosed(found)
<1>1. UNCHANGED pumpVars => UNCHANGED <<pumpPc, found>> BY DEF pumpVars
<1>2. PumpStep \/ PumpCrashes => MarkClosed(found)
  BY DEF PumpStep, PumpCrashes, PumpChecks, PumpIdles, PumpReceives, IncomingInserts,
     IncomingQueues, PumpPopsPending, SucceededInserts, SucceededPublishes, SucceededSets,
     FailedSets, MessageLooksUp, MessagePuts, OverflowPops, OverflowMarks, OverflowHangsUp,
     OverflowClosesMailbox, DisconnectedPops, DisconnectedMarks, DisconnectedClosesMailbox, PumpFails
<1>3. CloserStep => UNCHANGED pumpVars
  BY DEF CloserStep, CloserJoinsPump, CloserShutsDown, FinishMarks, FinishClosesMailbox,
     FinishFailsPending, FinishQueuesSentinel, BaseInv, CloseOK, CloseInv
<1>4. RakNetMoves \/ PeerCloses \/ UNCHANGED vars => UNCHANGED pumpVars
  BY DEF RakNetMoves, PeerCloses, vars, coreVars
<1>. QED BY <1>1, <1>2, <1>3, <1>4, ThreadsLeave DEF Next

LEMMA WokenIsIdle ==
    ASSUME BaseInv, OwnInv, NEW s \in Sessions, Woken(s)
    PROVE  pc[s] = "idle"
<1>1. ASSUME NEW a \in Acceptors, AcceptGets(a), Head(acceptQueue) = s PROVE pc[s] = "idle"
  <2>1. acceptQueue # <<>> /\ acceptQueue' = Tail(acceptQueue) BY <1>1 DEF AcceptGets
  <2>. QED BY <1>1, <2>1, DistinctShortened, NoneIsNothing DEF OwnInv
<1>2. ASSUME NEW c \in Calls, WokenBy(c, s) PROVE pc[s] = "idle"
  BY <1>2, NoneIsNothing DEF WokenBy, CallFinishes, OwnInv
<1>. QED BY <1>1, <1>2 DEF Woken

LEMMA EvictedStays ==
    ASSUME [Next]_vars
    PROVE  evicted \subseteq evicted'
<1>1. \A s : PopConnection(s) => evicted \subseteq evicted' BY DEF PopConnection
<1>2. CASE UNCHANGED vars \/ RakNetMoves \/ PeerCloses \/ CloserStep \/ PumpCrashes
  BY <1>2 DEF vars, coreVars, tableVars, RakNetMoves, PeerCloses, BeginClose, PumpCrashes,
     CloserStep, CloserJoinsPump, CloserShutsDown, FinishMarks, FinishClosesMailbox,
     FinishFailsPending, FinishQueuesSentinel
<1>3. CASE PumpStep
  BY <1>1, <1>3
     DEF PumpStep, PumpChecks, PumpIdles, PumpReceives, IncomingInserts,
     IncomingQueues, PumpPopsPending, SucceededInserts, SucceededPublishes, SucceededSets,
     FailedSets, MessageLooksUp, MessagePuts, OverflowPops, OverflowMarks, OverflowHangsUp,
     OverflowClosesMailbox, DisconnectedPops, DisconnectedMarks, DisconnectedClosesMailbox,
     PumpFails, BeginClose, tableVars
<1>4. CASE \/ \E t \in Calls : CallStep(t) \/ CallTimesOut(t)
           \/ \E q \in Sessions : OwnerStep(q) \/ OwnerCloses(q)
           \/ \E a \in Acceptors : AcceptorStep(a) \/ AcceptTimesOut(a)
  BY <1>1, <1>4
     DEF CallStep, CallBegins, CallRegisters, CallDials, CallUndials, CallFinishes, CallAbandons,
     CallCancels, CallRewaits, CallTimesOut, PopPendingOf, OwnerStep, OwnerReceives,
     OwnerSeesEnd, OwnerCloses, AcceptorStep, AcceptBegins, AcceptGets, AcceptReputs,
     AcceptTimesOut, CloseStep, CloseChecks, ClosePops, CloseMarks, CloseHangsUp,
     CloseClosesMailbox, coreVars, tableVars
<1>. QED BY <1>2, <1>3, <1>4 DEF Next

LEMMA KeptStays ==
    ASSUME BaseInv, ResolutionInv, OwnInv, [Next]_vars,
           NEW s \in Sessions, Kept(s), connState'[s] = "open"
    PROVE  Kept(s)'
<1>1. ~MarkClosed(s) BY DEF MarkClosed, BaseInv, ObjectsOK, ObjectTypeOK
<1>2. CASE s \in evicted BY <1>2, EvictedStays DEF Kept
<1>3. CASE pumpPc \in {"overflow_mark", "disconnected_mark"} /\ found = s
  <2>1. UNCHANGED <<pumpPc, found>> BY <1>1, <1>3, PumpMarks
  <2>. QED BY <1>3, <2>1 DEF Kept, BeingClosed
<1>4. ASSUME NEW t \in Calls \cup Sessions, pc[t] = "close_mark", Closing(t) = s
      PROVE  Kept(s)'
  <2>1. ~CloseMarks(t) BY <1>1, <1>4 DEF CloseMarks
  <2>2. ~(t \in Sessions /\ Woken(t)) BY <1>4, WokenIsIdle
  <2>3. pc'[t] = "close_mark" BY <1>4, <2>1, <2>2, ThreadsMove, MovesWell
  <2>4. Closing(t)' = s
    <3>1. CASE t \in Calls
      <4>1. pending'[t].connection = pending[t].connection
        BY <1>4, <3>1, PromisesKept DEF ClosePcs, BaseInv, ThreadsOK, ThreadInv
      <4>. QED BY <1>4, <3>1, <4>1 DEF Closing
    <3>2. CASE t \notin Calls BY <1>4, <3>2 DEF Closing
    <3>. QED BY <3>1, <3>2
  <2>. QED BY <2>3, <2>4 DEF Kept, BeingClosed
<1>. QED BY <1>2, <1>3, <1>4 DEF Kept, BeingClosed

(* A Connection leaves the table to be closed, or because another one of   *)
(* its guid is; an insert finds no Connection there.                       *)
Registered(s) == connections[peerOf[s]] = s

LEMMA PoppedIsKept ==
    ASSUME BaseInv, NEW s \in Sessions, Registered(s), Known(s), UNCHANGED peerOf,
           NEW x \in Sessions, PopConnection(x), s = x => BeingClosed(s)'
    PROVE  Registered(s)' \/ Kept(s)'
<1>1. PICK r \in Remotes : r = peerOf[s] BY DEF Known, BaseInv, RakOK, RakNetTypeOK
<1>2. CASE s = x BY <1>2 DEF Kept
<1>3. CASE s # x /\ peerOf[x] = r
  <2>1. s \in evicted' BY <1>1, <1>3, NoneIsNothing DEF Registered, PopConnection, Guid
  <2>. QED BY <2>1 DEF Kept
<1>4. CASE peerOf[x] # r
  BY <1>1, <1>4 DEF Registered, PopConnection, Guid, BaseInv, TablesOK, TableTypeOK
<1>. QED BY <1>2, <1>3, <1>4

LEMMA PumpRegisters ==
    ASSUME BaseInv, OrderInv, PumpStep \/ PumpCrashes, ~closed, ~closed', Grows,
           NEW s \in Sessions, Registered(s), Known(s)
    PROVE  Registered(s)' \/ Kept(s)'
<1>1. PICK r \in Remotes : r = peerOf[s] /\ r = peerOf'[s]
  BY DEF Known, BaseInv, RakOK, RakNetTypeOK, Grows
<1>2. CASE UNCHANGED connections BY <1>1, <1>2 DEF Registered
<1>3. CASE OverflowPops
  <2>1. found \in Sessions BY <1>3, PumpHolds, PumpLeaves DEF BaseInv, OverflowPops
  <2>2. s = found => BeingClosed(s)' BY <1>3 DEF OverflowPops, PumpGoesTo, BeingClosed
  <2>. QED BY <1>3, <2>1, <2>2, PoppedIsKept DEF OverflowPops, rawVars
<1>4. CASE DisconnectedPops
  <2>1. CASE packet.from = r
    <3>1. connections[packet.from] = s /\ s # None BY <1>1, <2>1, NoneIsNothing DEF Registered
    <3>2. found' = s /\ pumpPc' = "disconnected_mark" BY <1>4, <3>1 DEF DisconnectedPops
    <3>. QED BY <3>2 DEF Kept, BeingClosed
  <2>2. CASE packet.from # r
    BY <1>1, <1>4, <2>2 DEF DisconnectedPops, Registered, BaseInv, TablesOK, TableTypeOK
  <2>. QED BY <2>1, <2>2
<1>5. CASE IncomingInserts \/ SucceededInserts
  <2>1. packet.from \in Remotes /\ HoldsOpening(packet.from) /\ pumpPc # "crashed"
    BY <1>5, PumpHolds, PumpLeaves, PacketProperties
       DEF IncomingInserts, SucceededInserts, BaseInv, HoldsOpening
  <2>2. connections[packet.from] = None BY <2>1 DEF OrderInv, Ordered
  <2>3. packet.from # r BY <1>1, <2>2, NoneIsNothing DEF Registered
  <2>. QED BY <1>1, <1>5, <2>3
       DEF IncomingInserts, SucceededInserts, BuildConnection, Registered, BaseInv, TablesOK,
           TableTypeOK
<1>6. ~PumpFails \/ UNCHANGED connections BY DEF PumpFails, BeginClose, tableVars
<1>. QED BY <1>2, <1>3, <1>4, <1>5, <1>6
     DEF PumpStep, PumpCrashes, PumpChecks, PumpIdles, PumpReceives,
     IncomingQueues, PumpPopsPending, SucceededPublishes, SucceededSets,
     FailedSets, MessageLooksUp, MessagePuts, OverflowMarks, OverflowHangsUp,
     OverflowClosesMailbox, DisconnectedMarks, DisconnectedClosesMailbox, tableVars

LEMMA ThreadsRegister ==
    ASSUME BaseInv, Grows,
           \/ \E t \in Calls : CallStep(t) \/ CallTimesOut(t)
           \/ \E q \in Sessions : OwnerStep(q) \/ OwnerCloses(q)
           \/ \E a \in Acceptors : AcceptorStep(a) \/ AcceptTimesOut(a),
           NEW s \in Sessions, Registered(s), Known(s)
    PROVE  Registered(s)' \/ Kept(s)'
<1>1. peerOf'[s] = peerOf[s] BY DEF Known, Grows
<1>2. CASE UNCHANGED connections BY <1>1, <1>2 DEF Registered
<1>3. ASSUME NEW t \in Calls \cup Sessions, ClosePops(t) PROVE Registered(s)' \/ Kept(s)'
  <2>1. pc[t] \in ClosePcs /\ UNCHANGED <<pending, peerOf>>
    BY <1>3 DEF ClosePops, ClosePcs, objectVars, rawVars
  <2>2. Closing(t) \in Sessions /\ Closing(t)' = Closing(t)
    BY <2>1, ClosingIsKnown DEF Closing
  <2>3. pc'[t] = "close_mark"
    BY <1>3, GoesNowhereElse, ThreadKinds DEF ClosePops
  <2>4. s = Closing(t) => BeingClosed(s)' BY <2>2, <2>3 DEF BeingClosed
  <2>. QED BY <1>3, <2>1, <2>2, <2>4, PoppedIsKept DEF ClosePops
<1>4. \/ UNCHANGED connections \/ \E t \in Calls \cup Sessions : ClosePops(t)
  BY DEF CallStep, CallBegins, CallRegisters, CallDials, CallUndials, CallFinishes, CallAbandons,
     CallCancels, CallRewaits, CallTimesOut, PopPendingOf, OwnerStep, OwnerReceives,
     OwnerSeesEnd, OwnerCloses, AcceptorStep, AcceptBegins, AcceptGets, AcceptReputs,
     AcceptTimesOut, CloseStep, CloseChecks, CloseMarks, CloseHangsUp,
     CloseClosesMailbox, coreVars, tableVars
<1>. QED BY <1>2, <1>3, <1>4

LEMMA LiveIs ==
    LiveIsRegistered <=>
        \A s \in Sessions : connState[s] = "open" /\ ~closed => Registered(s) \/ Kept(s)
BY DEF LiveIsRegistered, Registered, Guid, Kept

LEMMA RegisteredStep ==
    ASSUME BaseInv, ResolutionInv, LifeInv, Grows, OrderInv, OwnInv,
           LiveIsRegistered, [Next]_vars
    PROVE  LiveIsRegistered'
<1>1. ASSUME ~closed', NEW s \in Sessions, connState'[s] = "open"
      PROVE  Registered(s)' \/ Kept(s)'
  <2>1. ~closed
    <3>1. closed \in BOOLEAN BY DEF BaseInv, CloseOK, CloseTypeOK
    <3>2. closed' = TRUE \/ UNCHANGED closed
      BY DEF Next, vars, coreVars, closeVars, RakNetMoves, PumpStep, PumpChecks, PumpIdles,
         PumpReceives, IncomingInserts, IncomingQueues, PumpPopsPending, SucceededInserts,
         SucceededPublishes, SucceededSets, FailedSets, MessageLooksUp, MessagePuts, OverflowPops,
         OverflowMarks, OverflowHangsUp, OverflowClosesMailbox, DisconnectedPops,
         DisconnectedMarks, DisconnectedClosesMailbox, PumpFails, PumpCrashes, PeerCloses,
         BeginClose, CloserStep, CloserJoinsPump, CloserShutsDown, FinishMarks,
         FinishClosesMailbox, FinishFailsPending, FinishQueuesSentinel,
         CallStep, CallBegins, CallRegisters, CallDials, CallUndials, CallFinishes, CallAbandons,
         CallCancels, CallRewaits, CallTimesOut, PopPendingOf, OwnerStep, OwnerReceives,
         OwnerSeesEnd, OwnerCloses, AcceptorStep, AcceptBegins, AcceptGets, AcceptReputs,
         AcceptTimesOut, CloseStep, CloseChecks, ClosePops, CloseMarks, CloseHangsUp,
         CloseClosesMailbox
    <3>. QED BY <1>1, <3>1, <3>2
  <2>2. CASE connState[s] = "open"
    <3>1. Known(s) BY <2>2 DEF LifeInv, OpeningInv
    <3>2. CASE Kept(s) BY <1>1, <3>2, KeptStays
    <3>3. CASE Registered(s)
      <4>1. CASE UNCHANGED <<connections, peerOf>> BY <3>3, <4>1 DEF Registered
      <4>2. CASE RakNetMoves
        <5>1. UNCHANGED connections /\ peerOf'[s] = peerOf[s]
          BY <3>1, <4>2 DEF RakNetMoves, tableVars, Known, Grows
        <5>. QED BY <3>3, <5>1 DEF Registered
      <4>3. CloserStep \/ PeerCloses => UNCHANGED <<connections, peerOf>>
        BY <1>1 DEF CloserStep, PeerCloses, BeginClose, CloserJoinsPump, CloserShutsDown,
           FinishMarks, FinishClosesMailbox, FinishFailsPending, FinishQueuesSentinel, RawShutdown,
           tableVars, rawVars
      <4>4. UNCHANGED vars => UNCHANGED <<connections, peerOf>>
        BY DEF vars, coreVars, tableVars, rawVars
      <4>. QED BY <1>1, <2>1, <3>1, <3>3, <4>1, <4>2, <4>3, <4>4, PumpRegisters, ThreadsRegister
           DEF Next
    <3>. QED BY <2>1, <2>2, <3>2, <3>3, LiveIs
  <2>3. CASE connState[s] # "open"
    <3>1. IncomingInserts \/ SucceededInserts BY <1>1, <2>3, StatesFollow
    <3>2. /\ connState' = [connState EXCEPT ![packet.session] = "open"]
          /\ connections' = [connections EXCEPT ![packet.from] = packet.session]
          /\ UNCHANGED peerOf
      BY <3>1 DEF IncomingInserts, SucceededInserts, BuildConnection, rawVars
    <3>3. packet.from \in Remotes /\ peerOf[packet.session] = packet.from
      BY <3>1, PumpHolds, PumpLeaves, PacketProperties
         DEF IncomingInserts, SucceededInserts, BaseInv
    <3>4. s = packet.session
      BY <1>1, <2>3, <3>2 DEF BaseInv, ObjectsOK, ObjectTypeOK
    <3>. QED BY <3>2, <3>3, <3>4 DEF Registered, BaseInv, TablesOK, TableTypeOK
  <2>. QED BY <2>2, <2>3
<1>2. (LiveIsRegistered <=>
        \A s \in Sessions : connState[s] = "open" /\ ~closed => Registered(s) \/ Kept(s))'
  BY LiveIs, PTL
<1>. QED BY <1>1, <1>2

-----------------------------------------------------------------------------
(* The teardown's snapshot. *)

LEMMA BeginCovers ==
    ASSUME BaseInv, ResolutionInv, LifeInv, OwnInv, LiveIsRegistered, [Next]_vars,
           NEW next, BeginClose(next), UNCHANGED connState
    PROVE  \A s \in Sessions : ~Missed(s)'
<1>1. SUFFICES ASSUME NEW s \in Sessions, connState'[s] = "open"
               PROVE  s \in closeConns' \/ Kept(s)'
  BY DEF Missed
<1>2. connState[s] = "open" /\ ~closed BY <1>1 DEF BeginClose
<1>3. Known(s) BY <1>2 DEF LifeInv, OpeningInv
<1>4. CASE Kept(s) BY <1>1, <1>4, KeptStays
<1>5. CASE Registered(s)
  <2>1. peerOf[s] \in Remotes /\ s # None
    BY <1>3, NoneIsNothing DEF Known, BaseInv, RakOK, RakNetTypeOK
  <2>. QED BY <1>5, <2>1 DEF Registered, BeginClose, TableOf
<1>. QED BY <1>2, <1>4, <1>5, LiveIs

(* The steps of the others, once the peer is closed. *)
LEMMA ClosedMoves ==
    ASSUME BaseInv, closed, [Next]_vars
    PROVE  /\ MayInsert' => MayInsert
           /\ IncomingInserts \/ SucceededInserts => MayInsert /\ ~MayInsert'
           /\ closeConns' = closeConns \/ \E s \in Sessions : FinishMarks(s)
           /\ ~PeerCloses
<1>1. UNCHANGED pumpVars => (MayInsert' => MayInsert) BY DEF pumpVars, MayInsert
<1>2. UNCHANGED closeVars => closeConns' = closeConns BY DEF closeVars
<1>3. IncomingInserts \/ SucceededInserts => MayInsert /\ ~MayInsert'
  BY DEF IncomingInserts, SucceededInserts, PumpGoesTo, MayInsert
<1>4. CASE PumpStep \/ PumpCrashes
  <2>1. MayInsert' => MayInsert
    BY <1>4 DEF PumpStep, PumpCrashes, PumpChecks, PumpIdles, PumpReceives, IncomingInserts,
     IncomingQueues, PumpPopsPending, SucceededInserts, SucceededPublishes, SucceededSets,
     FailedSets, MessageLooksUp, MessagePuts, OverflowPops, OverflowMarks, OverflowHangsUp,
     OverflowClosesMailbox, DisconnectedPops, DisconnectedMarks, DisconnectedClosesMailbox,
     PumpFails, PumpGoesTo, PumpReturns, MayInsert
  <2>2. closeConns' = closeConns
    BY <1>2, <1>4 DEF PumpStep, PumpCrashes, PumpChecks, PumpIdles, PumpReceives, IncomingInserts,
     IncomingQueues, PumpPopsPending, SucceededInserts, SucceededPublishes, SucceededSets,
     FailedSets, MessageLooksUp, MessagePuts, OverflowPops, OverflowMarks, OverflowHangsUp,
     OverflowClosesMailbox, DisconnectedPops, DisconnectedMarks, DisconnectedClosesMailbox,
     PumpFails, BeginClose
  <2>. QED BY <1>3, <2>1, <2>2 DEF PeerCloses, BeginClose
<1>5. CASE CloserStep
  <2>1. MayInsert' => MayInsert
    BY <1>1, <1>5 DEF CloserStep, CloserJoinsPump, CloserShutsDown, FinishMarks,
       FinishClosesMailbox, FinishFailsPending, FinishQueuesSentinel, PumpGoesTo, MayInsert
  <2>2. closeConns' = closeConns \/ \E s \in Sessions : FinishMarks(s)
    BY <1>5 DEF CloserStep, CloserJoinsPump, CloserShutsDown, FinishClosesMailbox,
       FinishFailsPending, FinishQueuesSentinel
  <2>. QED BY <1>3, <2>1, <2>2 DEF PeerCloses, BeginClose
<1>6. CASE \/ \E t \in Calls : CallStep(t) \/ CallTimesOut(t)
           \/ \E q \in Sessions : OwnerStep(q) \/ OwnerCloses(q)
           \/ \E a \in Acceptors : AcceptorStep(a) \/ AcceptTimesOut(a)
  <2>1. UNCHANGED closeVars
    BY <1>6
     DEF CallStep, CallBegins, CallRegisters, CallDials, CallUndials, CallFinishes, CallAbandons,
     CallCancels, CallRewaits, CallTimesOut, PopPendingOf, OwnerStep, OwnerReceives,
     OwnerSeesEnd, OwnerCloses, AcceptorStep, AcceptBegins, AcceptGets, AcceptReputs,
     AcceptTimesOut, CloseStep, CloseChecks, ClosePops, CloseMarks, CloseHangsUp,
     CloseClosesMailbox, coreVars
  <2>. QED BY <1>1, <1>2, <1>3, <1>6, <2>1, ThreadsLeave DEF PeerCloses, BeginClose
<1>7. CASE RakNetMoves \/ PeerCloses \/ UNCHANGED vars
  BY <1>1, <1>2, <1>3, <1>7 DEF RakNetMoves, PeerCloses, BeginClose, vars, coreVars
<1>. QED BY <1>4, <1>5, <1>6, <1>7 DEF Next

LEMMA MissedStays ==
    ASSUME BaseInv, ResolutionInv, LifeInv, OwnInv, closed, [Next]_vars,
           NEW s \in Sessions, Missed(s)'
    PROVE  Missed(s) \/ ((IncomingInserts \/ SucceededInserts) /\ s = packet.session)
<1>1. connState'[s] = "open" /\ s \notin closeConns' /\ ~Kept(s)' BY DEF Missed
<1>2. CASE connState[s] = "open"
  <2>1. ~Kept(s) BY <1>1, KeptStays
  <2>2. ~FinishMarks(s) BY <1>1 DEF FinishMarks, MarkClosed, BaseInv, ObjectsOK, ObjectTypeOK
  <2>3. s \notin closeConns BY <1>1, <2>2, ClosedMoves DEF FinishMarks
  <2>. QED BY <1>2, <2>1, <2>3 DEF Missed
<1>3. CASE connState[s] # "open"
  <2>1. IncomingInserts \/ SucceededInserts BY <1>1, <1>3, StatesFollow
  <2>2. connState' = [connState EXCEPT ![packet.session] = "open"]
    BY <2>1 DEF IncomingInserts, SucceededInserts, BuildConnection
  <2>3. s = packet.session BY <1>1, <1>3, <2>2 DEF BaseInv, ObjectsOK, ObjectTypeOK
  <2>. QED BY <2>1, <2>3
<1>. QED BY <1>2, <1>3

LEMMA DoneClosesNothing ==
    ASSUME BaseInv, closePhase = "done" => closeConns = {}, [Next]_vars, closePhase' = "done"
    PROVE  closeConns' = {}
<1>1. closed <=> closePhase # "open" BY DEF BaseInv, CloseOK, CloseInv
<1>2. CASE closed
  <2>1. closePhase = "done" \/ FinishQueuesSentinel
    <3>1. UNCHANGED closeVars => closePhase = "done" BY DEF closeVars
    <3>2. ~\E next : BeginClose(next) BY <1>2 DEF BeginClose
    <3>. QED BY <3>1, <3>2
     DEF Next, vars, coreVars, RakNetMoves, PeerCloses, PumpStep, PumpCrashes, PumpChecks,
     PumpIdles, PumpReceives, IncomingInserts,
     IncomingQueues, PumpPopsPending, SucceededInserts, SucceededPublishes, SucceededSets,
     FailedSets, MessageLooksUp, MessagePuts, OverflowPops, OverflowMarks, OverflowHangsUp,
     OverflowClosesMailbox, DisconnectedPops, DisconnectedMarks, DisconnectedClosesMailbox,
     PumpFails, CloserStep, CloserJoinsPump, CloserShutsDown, FinishMarks, FinishClosesMailbox,
     FinishFailsPending,
     CallStep, CallBegins, CallRegisters, CallDials, CallUndials, CallFinishes, CallAbandons,
     CallCancels, CallRewaits, CallTimesOut, PopPendingOf, OwnerStep, OwnerReceives,
     OwnerSeesEnd, OwnerCloses, AcceptorStep, AcceptBegins, AcceptGets, AcceptReputs,
     AcceptTimesOut, CloseStep, CloseChecks, ClosePops, CloseMarks, CloseHangsUp,
     CloseClosesMailbox
  <2>. QED BY <1>2, <2>1, ClosedMoves DEF FinishMarks, FinishQueuesSentinel
<1>3. CASE ~closed
  <2>1. closePhase = "open" BY <1>1, <1>3
  <2>2. UNCHANGED closeVars => closePhase' = "open" BY <2>1 DEF closeVars
  <2>. QED BY <2>1, <2>2
     DEF Next, vars, coreVars, RakNetMoves, PeerCloses, PumpStep, PumpCrashes, PumpChecks,
     PumpIdles, PumpReceives, IncomingInserts,
     IncomingQueues, PumpPopsPending, SucceededInserts, SucceededPublishes, SucceededSets,
     FailedSets, MessageLooksUp, MessagePuts, OverflowPops, OverflowMarks, OverflowHangsUp,
     OverflowClosesMailbox, DisconnectedPops, DisconnectedMarks, DisconnectedClosesMailbox,
     PumpFails, BeginClose, CloserStep, CloserJoinsPump, CloserShutsDown, FinishMarks,
     FinishClosesMailbox, FinishFailsPending, FinishQueuesSentinel,
     CallStep, CallBegins, CallRegisters, CallDials, CallUndials, CallFinishes, CallAbandons,
     CallCancels, CallRewaits, CallTimesOut, PopPendingOf, OwnerStep, OwnerReceives,
     OwnerSeesEnd, OwnerCloses, AcceptorStep, AcceptBegins, AcceptGets, AcceptReputs,
     AcceptTimesOut, CloseStep, CloseChecks, ClosePops, CloseMarks, CloseHangsUp,
     CloseClosesMailbox
<1>. QED BY <1>2, <1>3

LEMMA CoversStep ==
    ASSUME BaseInv, ResolutionInv, LifeInv, OwnInv, LiveIsRegistered, SnapshotCovers,
           [Next]_vars
    PROVE  SnapshotCovers'
<1>1. closePhase' = "done" => closeConns' = {} BY DoneClosesNothing DEF SnapshotCovers
<1>2. CASE closed
  <2>1. CASE IncomingInserts \/ SucceededInserts
    <3>1. ~MayInsert' /\ \A s \in Sessions : ~Missed(s)
      BY <1>2, <2>1, ClosedMoves DEF SnapshotCovers
    <3>2. \A s \in Sessions : Missed(s)' => s = packet.session BY <1>2, <3>1, MissedStays
    <3>. QED BY <1>1, <3>1, <3>2 DEF SnapshotCovers
  <2>2. CASE ~(IncomingInserts \/ SucceededInserts)
    <3>1. \A s \in Sessions : Missed(s)' => Missed(s) BY <1>2, <2>2, MissedStays
    <3>2. MayInsert' => MayInsert BY <1>2, ClosedMoves
    <3>. QED BY <1>1, <1>2, <3>1, <3>2 DEF SnapshotCovers
  <2>. QED BY <2>1, <2>2
<1>3. CASE \E next : BeginClose(next) /\ UNCHANGED connState
  <2>1. \A s \in Sessions : ~Missed(s)' BY <1>3, BeginCovers
  <2>. QED BY <1>1, <2>1 DEF SnapshotCovers
<1>4. CASE ~closed'
  BY <1>1, <1>4 DEF SnapshotCovers
<1>5. closed \/ ~closed' \/ \E next : BeginClose(next) /\ UNCHANGED connState
  <2>1. UNCHANGED closeVars /\ ~closed => ~closed' BY DEF closeVars
  <2>2. ~closed => closePhase = "open" BY DEF BaseInv, CloseOK, CloseInv
  <2>3. CloserStep => closed
    BY <2>2 DEF CloserStep, CloserJoinsPump, CloserShutsDown, FinishMarks, FinishClosesMailbox,
       FinishFailsPending, FinishQueuesSentinel
  <2>. QED BY <2>1, <2>3
     DEF Next, vars, coreVars, RakNetMoves, PeerCloses, PumpStep, PumpCrashes, PumpChecks,
     PumpIdles, PumpReceives, IncomingInserts,
     IncomingQueues, PumpPopsPending, SucceededInserts, SucceededPublishes, SucceededSets,
     FailedSets, MessageLooksUp, MessagePuts, OverflowPops, OverflowMarks, OverflowHangsUp,
     OverflowClosesMailbox, DisconnectedPops, DisconnectedMarks, DisconnectedClosesMailbox,
     PumpFails, objectVars,
     CallStep, CallBegins, CallRegisters, CallDials, CallUndials, CallFinishes, CallAbandons,
     CallCancels, CallRewaits, CallTimesOut, PopPendingOf, OwnerStep, OwnerReceives,
     OwnerSeesEnd, OwnerCloses, AcceptorStep, AcceptBegins, AcceptGets, AcceptReputs,
     AcceptTimesOut, CloseStep, CloseChecks, ClosePops, CloseMarks, CloseHangsUp,
     CloseClosesMailbox
<1>. QED BY <1>2, <1>3, <1>4, <1>5

LEMMA AtMostOne ==
    ASSUME BaseInv, SnapshotCovers
    PROVE  AtMostOneOrphan
<1>1. SUFFICES ASSUME closePhase = "done" PROVE Cardinality(Orphans) <= 1
  BY DEF AtMostOneOrphan
<1>2. closed /\ closeConns = {} BY <1>1 DEF BaseInv, CloseOK, CloseInv, SnapshotCovers
<1>3. \A s \in Orphans : s \in Sessions /\ Missed(s) BY <1>2 DEF Orphans, Missed, Kept
<1>4. \A s, q \in Orphans : s = q BY <1>2, <1>3 DEF SnapshotCovers
<1>5. CASE Orphans = {} BY <1>5, FS_EmptySet
<1>6. CASE Orphans # {}
  <2>1. PICK s : Orphans = {s} BY <1>4, <1>6
  <2>. QED BY <2>1, FS_Singleton
<1>. QED BY <1>5, <1>6

LEMMA LiveInit == Init => LiveIsRegistered /\ SnapshotCovers
BY DEF Init, CoreInit, LiveIsRegistered, SnapshotCovers

LiveIInv == /\ BaseInv /\ ResolutionInv /\ LifeInv
            /\ OrderInv /\ OwnInv /\ LiveIsRegistered /\ SnapshotCovers

LEMMA LiveInvariant == Spec => []LiveIInv
<1>1. Init => LiveIInv
  BY BaseInit, ResolutionInit, LifeInit, OrderInit, OwnInit, LiveInit DEF LiveIInv
<1>2. LiveIInv /\ [Next]_vars => LiveIInv'
  <2>1. SUFFICES ASSUME LiveIInv, [Next]_vars PROVE LiveIInv' OBVIOUS
  <2>2. BaseInv' /\ Grows /\ ResolutionInv'
    BY <2>1, BaseStep, ResolutionStep DEF LiveIInv
  <2>3. LifeInv' BY <2>1, <2>2, LifeStep DEF LiveIInv
  <2>4. OrderInv' /\ OwnInv'
    BY <2>1, <2>2, OrderStep, OwnStep DEF LiveIInv
  <2>5. LiveIsRegistered' /\ SnapshotCovers'
    BY <2>1, <2>2, RegisteredStep, CoversStep DEF LiveIInv
  <2>. QED BY <2>2, <2>3, <2>4, <2>5 DEF LiveIInv
<1>. QED BY <1>1, <1>2, PTL DEF Spec

(* While the peer is open, every Connection that says it is connected is   *)
(* in the table, being closed, or removed by the close of an older one of  *)
(* its guid (_peer.py, _close_connection, incoming_connection and          *)
(* connect_succeeded): an insert never replaces another Connection.        *)
THEOREM ConnectedIsRegistered == Spec => []LiveIsRegistered
<1>1. LiveIInv => LiveIsRegistered BY DEF LiveIInv
<1>. QED BY <1>1, LiveInvariant, PTL

(* A finished close() has left at most one Connection of the pump's making *)
(* connected (_peer.py, _begin_close and _finish_close).                   *)
THEOREM OneOrphanAtMost == Spec => []AtMostOneOrphan
<1>1. LiveIInv => AtMostOneOrphan BY AtMostOne DEF LiveIInv
<1>. QED BY <1>1, LiveInvariant, PTL

-----------------------------------------------------------------------------
(* A session RakNet has established gets its Connection: the announcement  *)
(* is on its way to the pump, or a connect() has timed out.                *)

(* Once the peer is closed, or the pump has crashed, that is how it ends.  *)
LEMMA RunningBefore ==
    ASSUME BaseInv, [Next]_vars, Running'
    PROVE  /\ Running /\ ~PumpCrashes /\ ~PumpFails /\ ~PeerCloses /\ ~CloserStep
<1>1. ~PumpCrashes BY DEF PumpCrashes, PumpGoesTo, Running
<1>2. ~PumpFails /\ ~PeerCloses BY DEF PumpFails, PeerCloses, BeginClose, closeVars, Running
<1>3. ~CloserStep
  <2>1. ASSUME CloserStep PROVE closed' /\ closed
    BY <2>1 DEF CloserStep, CloserJoinsPump, CloserShutsDown, FinishMarks, FinishClosesMailbox,
       FinishFailsPending, FinishQueuesSentinel, BaseInv, CloseOK, CloseInv, CloseTypeOK
  <2>. QED BY <2>1 DEF Running
<1>4. UNCHANGED closed
  <2>1. CASE UNCHANGED vars BY <2>1 DEF vars, coreVars, closeVars
  <2>2. CASE RakNetMoves BY <2>2 DEF RakNetMoves, closeVars
  <2>3. CASE PumpStep
    BY <1>2, <2>3 DEF PumpStep, PumpChecks, PumpIdles, PumpReceives, IncomingInserts,
       IncomingQueues, PumpPopsPending, SucceededInserts, SucceededPublishes, SucceededSets,
       FailedSets, MessageLooksUp, MessagePuts, OverflowPops, OverflowMarks, OverflowHangsUp,
       OverflowClosesMailbox, DisconnectedPops, DisconnectedMarks, DisconnectedClosesMailbox,
       closeVars
  <2>4. CASE \/ \E t \in Calls : CallStep(t) \/ CallTimesOut(t)
             \/ \E s \in Sessions : OwnerStep(s) \/ OwnerCloses(s)
             \/ \E a \in Acceptors : AcceptorStep(a) \/ AcceptTimesOut(a)
    BY <2>4 DEF CallStep, CallBegins, CallRegisters, CallDials, CallUndials, CallFinishes,
       CallAbandons, CallCancels, CallRewaits, CallTimesOut, PopPendingOf, OwnerStep,
       OwnerReceives, OwnerSeesEnd, OwnerCloses, AcceptorStep, AcceptBegins, AcceptGets,
       AcceptReputs, AcceptTimesOut, CloseStep, CloseChecks, ClosePops, CloseMarks, CloseHangsUp,
       CloseClosesMailbox, coreVars, closeVars
  <2>. QED BY <1>1, <1>2, <1>3, <2>1, <2>2, <2>3, <2>4 DEF Next
<1>5. pumpPc # "crashed"
  <2>1. SUFFICES ASSUME pumpPc = "crashed" PROVE pumpPc' = "crashed" BY DEF Running
  <2>2. CASE UNCHANGED vars BY <2>1, <2>2 DEF vars, coreVars, pumpVars
  <2>3. CASE RakNetMoves BY <2>1, <2>3 DEF RakNetMoves, pumpVars
  <2>4. ~PumpStep
    BY <1>2, <2>1 DEF PumpStep, PumpChecks, PumpIdles, PumpReceives, IncomingInserts,
       IncomingQueues, PumpPopsPending, SucceededInserts, SucceededPublishes, SucceededSets,
       FailedSets, MessageLooksUp, MessagePuts, OverflowPops, OverflowMarks, OverflowHangsUp,
       OverflowClosesMailbox, DisconnectedPops, DisconnectedMarks, DisconnectedClosesMailbox
  <2>. QED BY <1>1, <1>2, <1>3, <2>1, <2>2, <2>3, <2>4, ThreadsLeave DEF Next, pumpVars
<1>. QED BY <1>1, <1>2, <1>3, <1>4, <1>5 DEF Running

-----------------------------------------------------------------------------
(* The answers in the queue *)

LEMMA AppendAnswers ==
    ASSUME RakOK, NEW p \in Packet, packets' = Append(packets, p), NEW r
    PROVE  /\ Answered(r)' <=> Answered(r) \/ Resolves(p, r)
           /\ AnsweredOnce(r) /\ (Resolves(p, r) => ~Answered(r)) => AnsweredOnce(r)'
<1>1. packets \in Seq(Packet) BY DEF RakOK, RakNetTypeOK
<1>2. PICK n \in Nat : n = Len(packets) BY LenProperties DEF RakOK, RakNetTypeOK
<1>3. /\ Len(packets') = n + 1 /\ packets'[n + 1] = p
      /\ \A i \in 1 .. n : packets'[i] = packets[i]
  BY <1>1, <1>2, AppendProperties
<1>4. Answered(r)' <=> \E i \in 1 .. n + 1 : Resolves(packets'[i], r)
  BY <1>3 DEF Answered, Resolves
<1>5. \A i \in 1 .. n + 1 : Resolves(packets'[i], r) <=>
          \/ i \in 1 .. n /\ Resolves(packets[i], r)
          \/ i = n + 1 /\ Resolves(p, r)
  BY <1>3
<1>6. Answered(r)' <=> Answered(r) \/ Resolves(p, r)
  <2>1. n + 1 \in 1 .. n + 1 /\ \A i \in 1 .. n : i \in 1 .. n + 1 OBVIOUS
  <2>. QED BY <1>2, <1>4, <1>5, <2>1 DEF Answered
<1>7. ASSUME AnsweredOnce(r), Resolves(p, r) => ~Answered(r) PROVE AnsweredOnce(r)'
  <2>1. ASSUME NEW i \in 1 .. n + 1, NEW j \in 1 .. n + 1,
               Resolves(packets'[i], r), Resolves(packets'[j], r)
        PROVE  i = j
    BY <1>2, <1>5, <1>7, <2>1 DEF AnsweredOnce, Answered
  <2>. QED BY <1>3, <2>1 DEF AnsweredOnce, Resolves
<1>. QED BY <1>6, <1>7

LEMMA ReceiveAnswers ==
    ASSUME RakOK, NEW p, RawReceive(p), NEW r
    PROVE  /\ Answered(r)' => Answered(r)
           /\ Resolves(p, r) => Answered(r)
           /\ AnsweredOnce(r) => AnsweredOnce(r)' /\ (Resolves(p, r) => ~Answered(r)')
<1>1. /\ p = packets[1] /\ 1 \in 1 .. Len(packets)
      /\ \A i \in 1 .. Len(packets') :
             i + 1 \in 1 .. Len(packets) /\ packets'[i] = packets[i + 1] /\ i + 1 # 1
  BY ReceiveTakes
<1>2. \A i \in 1 .. Len(packets') : Resolves(packets'[i], r) <=> Resolves(packets[i + 1], r)
  BY <1>1
<1>3. Answered(r)' => Answered(r) BY <1>1, <1>2 DEF Answered, Resolves
<1>4. Resolves(p, r) => Answered(r) BY <1>1 DEF Answered
<1>5. ASSUME AnsweredOnce(r) PROVE AnsweredOnce(r)' /\ (Resolves(p, r) => ~Answered(r)')
  <2>1. ASSUME NEW i \in 1 .. Len(packets'), NEW j \in 1 .. Len(packets'),
               Resolves(packets'[i], r), Resolves(packets'[j], r)
        PROVE  i = j
    <3>1. i + 1 = j + 1 BY <1>1, <1>2, <1>5, <2>1 DEF AnsweredOnce
    <3>. QED BY <3>1
  <2>2. AnsweredOnce(r)' BY <2>1 DEF AnsweredOnce, Resolves
  <2>3. ASSUME Resolves(p, r), NEW i \in 1 .. Len(packets'), Resolves(packets'[i], r) PROVE FALSE
    BY <1>1, <1>2, <1>5, <2>3 DEF AnsweredOnce
  <2>. QED BY <2>2, <2>3 DEF Answered, Resolves
<1>. QED BY <1>3, <1>4, <1>5

(* A step starts no attempt, and an answer goes from RakNet to the queue   *)
(* and from there to the pump.                                             *)
AnswersMove(r) ==
    /\ AnsweredOnce(r) => AnsweredOnce(r)'
    /\ raw'[r] = "connecting" => raw[r] = "connecting"
    /\ \/ (Answered(r)' => Answered(r)) /\ (AtAnswer(r)' => AtAnswer(r))
       \/ raw[r] = "connecting" /\ raw'[r] # "connecting" /\ (AtAnswer(r)' => AtAnswer(r))
       \/ Answered(r) /\ ~Answered(r)' /\ raw'[r] = raw[r]

LEMMA AnswersFollow ==
    ASSUME NEW r, OneAnswer(r), AnswersMove(r)
    PROVE  OneAnswer(r)' /\ (Outstanding(r)' => Outstanding(r))
BY DEF OneAnswer, AnswersMove, Outstanding

LEMMA AnswersUntouched ==
    ASSUME UNCHANGED <<raw, packets, pumpPc, packet>>, NEW r
    PROVE  AnswersMove(r)
BY DEF AnswersMove, Answered, AnsweredOnce, AtAnswer

LEMMA AppendMoves ==
    ASSUME RakOK, NEW p \in Packet, packets' = Append(packets, p), UNCHANGED <<pumpPc, packet>>,
           NEW r \in Remotes, OneAnswer(r), raw'[r] = "connecting" => raw[r] = "connecting",
           Resolves(p, r) => raw[r] = "connecting" /\ raw'[r] # "connecting"
    PROVE  AnswersMove(r)
<1>1. /\ Answered(r)' <=> Answered(r) \/ Resolves(p, r)
      /\ AnsweredOnce(r) /\ (Resolves(p, r) => ~Answered(r)) => AnsweredOnce(r)'
  BY AppendAnswers
<1>2. AtAnswer(r)' <=> AtAnswer(r) BY DEF AtAnswer
<1>3. AnsweredOnce(r) => AnsweredOnce(r)' BY <1>1 DEF OneAnswer
<1>. QED BY <1>1, <1>2, <1>3 DEF AnswersMove

(* Packets that answer no attempt. *)
LEMMA NoAnswers ==
    ASSUME NEW p, NEW r, p.id \in {ID_CONNECTION_LOST, ID_DISCONNECTION_NOTIFICATION,
                                   ID_USER_PACKET_ENUM, ID_NEW_INCOMING_CONNECTION}
    PROVE  ~Resolves(p, r)
BY DEF Resolves, CONNECT_FAILURES, ID_NEW_INCOMING_CONNECTION, ID_CONNECTION_REQUEST_ACCEPTED,
       ID_CONNECTION_LOST, ID_DISCONNECTION_NOTIFICATION, ID_USER_PACKET_ENUM,
       ID_CONNECTION_ATTEMPT_FAILED, ID_ALREADY_CONNECTED, ID_NO_FREE_INCOMING_CONNECTIONS,
       ID_CONNECTION_BANNED, ID_INVALID_PASSWORD, ID_INCOMPATIBLE_PROTOCOL_VERSION,
       ID_IP_RECENTLY_CONNECTED

LEMMA EndsMoves ==
    ASSUME RakOK, NEW q \in Remotes, NEW mid \in Byte, Ends(q, mid), UNCHANGED <<pumpPc, packet>>,
           mid \in {ID_CONNECTION_LOST, ID_DISCONNECTION_NOTIFICATION} \/ raw[q] = "connecting",
           NEW r \in Remotes, OneAnswer(r)
    PROVE  AnswersMove(r)
<1>1. PICK p \in Packet : p = [id |-> mid, from |-> q, session |-> session[q]]
  BY MakePacket DEF RakOK, RakNetTypeOK
<1>2. packets' = Append(packets, p) /\ raw' = [raw EXCEPT ![q] = "none"] BY <1>1 DEF Ends
<1>3. Resolves(p, r) => r = q BY <1>1 DEF Resolves
<1>4. mid \in {ID_CONNECTION_LOST, ID_DISCONNECTION_NOTIFICATION} => ~Resolves(p, r)
  BY <1>1, NoAnswers
<1>5. raw'[r] = "connecting" => raw[r] = "connecting" BY <1>2 DEF RakOK, RakNetTypeOK
<1>6. Resolves(p, r) => raw[r] = "connecting" /\ raw'[r] # "connecting"
  BY <1>2, <1>3, <1>4 DEF RakOK, RakNetTypeOK
<1>. QED BY <1>2, <1>5, <1>6, AppendMoves

LEMMA OpensMoves ==
    ASSUME RakOK, NEW q \in Remotes, NEW s \in Sessions, NEW mid \in OpeningIds, Opens(q, s, mid),
           mid = ID_CONNECTION_REQUEST_ACCEPTED => raw[q] = "connecting",
           UNCHANGED <<pumpPc, packet>>, NEW r \in Remotes, OneAnswer(r)
    PROVE  AnswersMove(r)
<1>1. PICK p \in Packet : p = [id |-> mid, from |-> q, session |-> s]
  BY MakePacket, IdValues DEF OpeningIds
<1>2. packets' = Append(packets, p) /\ raw' = [raw EXCEPT ![q] = "open"] BY <1>1 DEF Opens
<1>3. Resolves(p, r) => r = q BY <1>1 DEF Resolves
<1>4. mid # ID_CONNECTION_REQUEST_ACCEPTED => ~Resolves(p, r)
  BY <1>1, NoAnswers DEF OpeningIds
<1>5. raw'[r] = "connecting" => raw[r] = "connecting" BY <1>2 DEF RakOK, RakNetTypeOK
<1>6. Resolves(p, r) => raw[r] = "connecting" /\ raw'[r] # "connecting"
  BY <1>2, <1>3, <1>4 DEF RakOK, RakNetTypeOK
<1>. QED BY <1>2, <1>5, <1>6, AppendMoves

LEMMA RakNetAnswers ==
    ASSUME BaseInv, RakNetMoves, NEW r \in Remotes, OneAnswer(r)
    PROVE  AnswersMove(r)
<1>. RakOK BY DEF BaseInv
<1>1. UNCHANGED <<pumpPc, packet>> BY DEF RakNetMoves, pumpVars
<1>2. ASSUME NEW q \in Remotes, NEW s \in Sessions, RemoteConnects(q, s) PROVE AnswersMove(r)
  <2>1. ID_NEW_INCOMING_CONNECTION # ID_CONNECTION_REQUEST_ACCEPTED
    BY DEF ID_NEW_INCOMING_CONNECTION, ID_CONNECTION_REQUEST_ACCEPTED
  <2>. QED BY <1>1, <1>2, <2>1, OpensMoves DEF RemoteConnects, OpeningIds
<1>3. ASSUME NEW q \in Remotes, NEW s \in Sessions, RemoteAccepts(q, s) PROVE AnswersMove(r)
  BY <1>1, <1>3, OpensMoves DEF RemoteAccepts, OpeningIds
<1>4. ASSUME NEW q \in Remotes, RemoteRejects(q) PROVE AnswersMove(r)
  BY <1>1, <1>4, EndsMoves, IdValues DEF RemoteRejects
<1>5. ASSUME NEW q \in Remotes, RemoteLeaves(q) \/ LocalCloseCompletes(q) PROVE AnswersMove(r)
  BY <1>1, <1>5, EndsMoves, IdValues DEF RemoteLeaves, LocalCloseCompletes
<1>6. ASSUME NEW q \in Remotes, RemoteSends(q) PROVE AnswersMove(r)
  <2>1. PICK p \in Packet : p = [id |-> ID_USER_PACKET_ENUM, from |-> q, session |-> session[q]]
    BY MakePacket, IdValues DEF RakOK, RakNetTypeOK
  <2>2. ~Resolves(p, r) BY <2>1, NoAnswers
  <2>3. packets' = Append(packets, p) /\ UNCHANGED raw BY <1>6, <2>1 DEF RemoteSends
  <2>. QED BY <1>1, <2>2, <2>3, AppendMoves
<1>. QED BY <1>2, <1>3, <1>4, <1>5, <1>6 DEF RakNetMoves, RakNetStep

LEMMA HangUpAnswers ==
    ASSUME RakOK, NEW s \in Sessions, Known(s), NEW notify \in BOOLEAN, HangUp(s, notify),
           NEW r \in Remotes, OneAnswer(r), AtAnswer(r)' => AtAnswer(r)
    PROVE  AnswersMove(r)
<1>1. PICK q \in Remotes : q = Guid(s) BY DEF Guid, Known, RakOK, RakNetTypeOK
<1>2. CASE UNCHANGED rawVars BY <1>2 DEF rawVars, AnswersMove, Answered, AnsweredOnce
<1>3. CASE raw' = [raw EXCEPT ![q] = "closing"] /\ UNCHANGED packets
  BY <1>1, <1>3 DEF AnswersMove, Answered, AnsweredOnce, RakOK, RakNetTypeOK
<1>4. CASE Ends(q, ID_CONNECTION_LOST)
  <2>1. PICK p \in Packet : p = [id |-> ID_CONNECTION_LOST, from |-> q, session |-> session[q]]
    BY MakePacket, IdValues DEF RakOK, RakNetTypeOK
  <2>2. ~Resolves(p, r) BY <2>1, NoAnswers
  <2>3. packets' = Append(packets, p) /\ raw' = [raw EXCEPT ![q] = "none"] BY <1>4, <2>1 DEF Ends
  <2>4. (Answered(r)' <=> Answered(r)) /\ (AnsweredOnce(r) => AnsweredOnce(r)')
    BY <2>2, <2>3, AppendAnswers
  <2>5. raw'[r] = "connecting" => raw[r] = "connecting" BY <2>3 DEF RakOK, RakNetTypeOK
  <2>. QED BY <2>4, <2>5 DEF AnswersMove
<1>. QED BY <1>1, <1>2, <1>3, <1>4 DEF HangUp, RawCloseConnection, Ends

(* What the pump takes from the queue. *)
LEMMA ReceivedAnswer ==
    ASSUME BaseInv, PumpReceives, NEW r \in Remotes, AtAnswer(r)'
    PROVE  RawReceive(packet') /\ Resolves(packet', r)
<1>. PICK p : p = Head(packets) OBVIOUS
<1>1. RawReceive(p) BY DEF PumpReceives
<1>2. pumpPc' = Route(p.id) /\ packet' = p BY DEF PumpReceives, PumpReturns, AtAnswer
<1>3. p \in Packet BY <1>1, RawReceiveOK DEF BaseInv
<1>4. Route(p.id) \in {"connect_succeeded", "connect_failed"} /\ p.from = r
  BY <1>2 DEF AtAnswer
<1>5. p.id \in CONNECT_FAILURES \cup {ID_CONNECTION_REQUEST_ACCEPTED}
  BY <1>3, <1>4, PacketProperties DEF Route
<1>. QED BY <1>1, <1>2, <1>4, <1>5 DEF Resolves

LEMMA PumpAnswers ==
    ASSUME BaseInv, PumpStep, NEW r \in Remotes, OneAnswer(r)
    PROVE  AnswersMove(r)
<1>1. CASE PumpReceives
  <2>. PICK p : p = Head(packets) OBVIOUS
  <2>1. RawReceive(p) /\ UNCHANGED raw BY <1>1 DEF PumpReceives, RawReceive
  <2>2. AnsweredOnce(r)' /\ (Resolves(p, r) => Answered(r) /\ ~Answered(r)') /\ (Answered(r)' => Answered(r))
    BY <2>1, ReceiveAnswers DEF OneAnswer, BaseInv
  <2>3. AtAnswer(r)' => Resolves(p, r)
    BY <1>1, <2>1, ReceivedAnswer DEF RawReceive
  <2>. QED BY <2>1, <2>2, <2>3 DEF AnswersMove
<1>2. CASE OverflowHangsUp
  <2>1. found \in Sessions /\ Known(found)
    BY <1>2, PumpHolds, PumpLeaves DEF BaseInv, OverflowHangsUp
  <2>2. ~AtAnswer(r)' BY <1>2 DEF OverflowHangsUp, PumpGoesTo, AtAnswer
  <2>. QED BY <1>2, <2>1, <2>2, HangUpAnswers DEF OverflowHangsUp, BaseInv
<1>3. CASE ~PumpReceives /\ ~OverflowHangsUp
  <2>1. UNCHANGED <<raw, packets>> /\ ~AtAnswer(r)'
    BY <1>3 DEF PumpStep, PumpChecks, PumpIdles, IncomingInserts, IncomingQueues, PumpPopsPending,
       SucceededInserts, SucceededPublishes, SucceededSets, FailedSets, MessageLooksUp, MessagePuts,
       OverflowPops, OverflowMarks, OverflowClosesMailbox, DisconnectedPops, DisconnectedMarks,
       DisconnectedClosesMailbox, PumpFails, PumpGoesTo, PumpReturns, AtAnswer, rawVars
  <2>. QED BY <2>1 DEF AnswersMove, Answered, AnsweredOnce
<1>. QED BY <1>1, <1>2, <1>3

(* A connect() that has been registered and has not raised starts the attempt. *)
StartsAttempt(r) ==
    /\ \E c \in Calls : CallDials(c) /\ Target[c] = r /\ pc'[c] = "wait"
    /\ raw'[r] = "connecting"
    /\ UNCHANGED <<packets, pumpPc, packet>>

LEMMA CloseAnswers ==
    ASSUME BaseInv, NEW t \in Calls \cup Sessions, CloseStep(t), UNCHANGED pumpVars,
           NEW r \in Remotes, OneAnswer(r)
    PROVE  AnswersMove(r)
<1>1. AtAnswer(r)' => AtAnswer(r) BY DEF AtAnswer, pumpVars
<1>2. CASE CloseHangsUp(t)
  <2>1. pc[t] \in ClosePcs BY <1>2 DEF CloseHangsUp, ClosePcs
  <2>2. Closing(t) \in Sessions /\ Known(Closing(t)) BY <2>1, ClosingIsKnown
  <2>3. PICK notify \in BOOLEAN : HangUp(Closing(t), notify) BY <1>2 DEF CloseHangsUp
  <2>. QED BY <1>1, <2>2, <2>3, HangUpAnswers DEF BaseInv
<1>3. CASE ~CloseHangsUp(t)
  <2>1. UNCHANGED <<raw, packets>>
    BY <1>3 DEF CloseStep, CloseChecks, ClosePops, CloseMarks, CloseClosesMailbox, coreVars, rawVars
  <2>. QED BY <1>1, <2>1 DEF AnswersMove, Answered, AnsweredOnce
<1>. QED BY <1>2, <1>3

LEMMA DialsAnswers ==
    ASSUME BaseInv, NEW c \in Calls, CallDials(c), NEW r \in Remotes
    PROVE  AnswersMove(r) \/ StartsAttempt(r)
<1>1. UNCHANGED <<packets, pumpPc, packet>> BY DEF CallDials, RawConnect, pumpVars
<1>2. Target[c] \in Remotes BY PeerAssumption
<1>3. CASE raw'[r] = "connecting" => raw[r] = "connecting"
  BY <1>1, <1>3 DEF AnswersMove, Answered, AnsweredOnce, AtAnswer
<1>4. CASE raw'[r] = "connecting" /\ raw[r] # "connecting"
  <2>1. r = Target[c] /\ ConnectResult(r) = "CONNECTION_ATTEMPT_STARTED"
    BY <1>2, <1>4 DEF CallDials, RawConnect, BaseInv, RakOK, RakNetTypeOK
  <2>2. pc'[c] = "wait"
    BY <2>1, ThreadKinds DEF CallDials, Goes, BaseInv, ThreadsOK, ThreadTypeOK
  <2>. QED BY <1>1, <1>4, <2>1, <2>2 DEF StartsAttempt
<1>. QED BY <1>3, <1>4

LEMMA ThreadAnswers ==
    ASSUME BaseInv, NEW r \in Remotes, OneAnswer(r),
           \/ \E t \in Calls : CallStep(t) \/ CallTimesOut(t)
           \/ \E s \in Sessions : OwnerStep(s) \/ OwnerCloses(s)
           \/ \E a \in Acceptors : AcceptorStep(a) \/ AcceptTimesOut(a)
    PROVE  AnswersMove(r) \/ StartsAttempt(r)
<1>1. UNCHANGED pumpVars BY ThreadsLeave
<1>2. UNCHANGED <<pumpPc, packet>> BY <1>1 DEF pumpVars
<1>3. CASE \E t \in Calls \cup Sessions : CloseStep(t) BY <1>1, <1>3, CloseAnswers
<1>4. CASE \E c \in Calls : CallDials(c) BY <1>4, DialsAnswers
<1>5. ASSUME NEW c \in Calls, CallCancels(c) PROVE AnswersMove(r)
  <2>1. UNCHANGED packets /\ (raw'[r] = "connecting" => raw[r] = "connecting")
    BY <1>5, PeerAssumption
       DEF CallCancels, RawCancelConnectionAttempt, BaseInv, RakOK, RakNetTypeOK
  <2>. QED BY <1>2, <2>1 DEF AnswersMove, Answered, AnsweredOnce, AtAnswer
<1>6. CASE /\ ~\E t \in Calls \cup Sessions : CloseStep(t)
           /\ ~\E c \in Calls : CallDials(c) \/ CallCancels(c)
  <2>1. UNCHANGED <<raw, packets>>
    BY <1>6
       DEF CallStep, CallBegins, CallRegisters, CallUndials, CallFinishes, CallAbandons,
       CallRewaits, CallTimesOut, PopPendingOf, OwnerStep, OwnerReceives,
       OwnerSeesEnd, OwnerCloses, AcceptorStep, AcceptBegins, AcceptGets, AcceptReputs,
       AcceptTimesOut, coreVars, rawVars
  <2>. QED BY <1>2, <2>1, AnswersUntouched
<1>. QED BY <1>3, <1>4, <1>5, <1>6

LEMMA AnswersStep ==
    ASSUME BaseInv, [Next]_vars, Running', NEW r \in Remotes, OneAnswer(r)
    PROVE  AnswersMove(r) \/ StartsAttempt(r)
<1>1. ~PumpCrashes /\ ~PeerCloses /\ ~CloserStep BY RunningBefore
<1>2. CASE UNCHANGED vars
  BY <1>2, AnswersUntouched DEF vars, coreVars, rawVars, pumpVars
<1>. QED BY <1>1, <1>2, RakNetAnswers, PumpAnswers, ThreadAnswers DEF Next

-----------------------------------------------------------------------------
(* The connect() an attempt belongs to *)

(* The only way out of the table before a timeout. *)
TakesEntry(r) == PumpPopsPending /\ packet.from = r

LEMMA CoreKeepsEntries ==
    ASSUME BaseInv, Running', NEW r \in Remotes,
           RakNetMoves \/ (PumpStep /\ ~PumpFails)
    PROVE  pendingConnects'[r] = pendingConnects[r] \/ TakesEntry(r)
<1>1. CASE PumpPopsPending
  <2>1. PICK q \in Remotes : q = packet.from
    BY <1>1, PumpHolds, PumpLeaves, PacketProperties DEF BaseInv, PumpPopsPending
  <2>. QED BY <1>1, <2>1 DEF PumpPopsPending, TakesEntry, BaseInv, TablesOK, TableTypeOK
<1>2. CASE ~PumpPopsPending
  BY <1>2 DEF RakNetMoves, PumpStep, PumpChecks, PumpIdles, PumpReceives, IncomingInserts,
     IncomingQueues, SucceededInserts, SucceededPublishes, SucceededSets, FailedSets,
     MessageLooksUp, MessagePuts, OverflowPops, OverflowMarks, OverflowHangsUp,
     OverflowClosesMailbox, DisconnectedPops, DisconnectedMarks, DisconnectedClosesMailbox,
     tableVars
<1>. QED BY <1>1, <1>2

LEMMA OthersKeepEntries ==
    ASSUME OneCallEach, BaseInv, NEW c \in Calls, NEW t \in Calls, t # c,
           CallStep(t) \/ CallTimesOut(t)
    PROVE  pendingConnects'[Target[c]] = pendingConnects[Target[c]]
<1>1. Target[c] # Target[t] /\ Target[c] \in Remotes /\ Target[t] \in Remotes
  BY PeerAssumption DEF OneCallEach
<1>2. UNCHANGED pendingConnects \/ \E e : pendingConnects' = [pendingConnects EXCEPT ![Target[t]] = e]
  BY DEF CallStep, CallBegins, CallRegisters, CallDials, CallUndials, CallFinishes, CallAbandons,
     CallCancels, CallRewaits, CallTimesOut, PopPendingOf, CloseStep, CloseChecks, ClosePops,
     CloseMarks, CloseHangsUp, CloseClosesMailbox, coreVars, tableVars
<1>. QED BY <1>1, <1>2 DEF BaseInv, TablesOK, TableTypeOK

(* Nothing but the step of a call moves the call or its entry. *)
LEMMA CallAlone ==
    ASSUME OneCallEach, BaseInv, [Next]_vars, Running', NEW c \in Calls,
           ~CallStep(c), ~CallTimesOut(c)
    PROVE  /\ pc'[c] = pc[c]
           /\ pendingConnects'[Target[c]] = pendingConnects[Target[c]] \/ TakesEntry(Target[c])
<1>1. ~PumpCrashes /\ ~PumpFails /\ ~PeerCloses /\ ~CloserStep BY RunningBefore
<1>2. Target[c] \in Remotes BY PeerAssumption
<1>3. CASE UNCHANGED vars BY <1>3 DEF vars, coreVars, tableVars
<1>4. CASE (RakNetMoves \/ PumpStep) /\ UNCHANGED pc BY <1>1, <1>2, <1>4, CoreKeepsEntries
<1>5. ASSUME NEW t \in Calls, CallStep(t) \/ CallTimesOut(t)
      PROVE  pc'[c] = pc[c] /\ pendingConnects'[Target[c]] = pendingConnects[Target[c]]
  <2>1. t # c BY <1>5
  <2>. QED BY <1>5, <2>1, CallWorld, OthersKeepEntries
<1>6. CASE \/ \E s \in Sessions : OwnerStep(s) \/ OwnerCloses(s)
           \/ \E a \in Acceptors : AcceptorStep(a) \/ AcceptTimesOut(a)
  <2>1. pc'[c] = pc[c] BY <1>6, UserWorld
  <2>2. UNCHANGED pendingConnects
    BY <1>6, CloseRawQuiet
       DEF OwnerStep, OwnerReceives, OwnerSeesEnd, OwnerCloses, AcceptorStep,
           AcceptBegins, AcceptGets, AcceptReputs, AcceptTimesOut, coreVars, tableVars
  <2>. QED BY <2>1, <2>2
<1>. QED BY <1>1, <1>3, <1>4, <1>5, <1>6 DEF Next

(* What the step of a call makes of it. *)
LEMMA CallDialled ==
    ASSUME BaseInv, ResolutionInv, NEW c \in Calls, CallStep(c) \/ CallTimesOut(c)
    PROVE  /\ Dialled(c) => Dialled(c)'
           /\ pc'[c] = "dial" => InTable(c)'
           /\ CallDials(c) /\ InTable(c) /\ pc'[c] = "wait" => Dialled(c)'
           /\ pc[c] \in {"cancel", "timedout"} => pc'[c] \in {"cancel", "timedout"}
<1>1. c \in Threads /\ c \notin Sessions BY ThreadKinds
<1>2. \A step : Goes(c, step) => pc'[c] = step
  BY <1>1 DEF Goes, BaseInv, ThreadsOK, ThreadTypeOK
<1>3. Target[c] \in Remotes /\ c # None BY PeerAssumption, NoneIsNothing
<1>4. pending[c].event => ~InTable(c) BY ResolvedIsOut
<1>. USE DEF Dialled, InTable
<1>5. CASE CallBegins(c) BY <1>2, <1>5 DEF CallBegins
<1>6. CASE CallRegisters(c) BY <1>2, <1>3, <1>6 DEF CallRegisters, BaseInv, TablesOK, TableTypeOK
<1>7. CASE CallDials(c) BY <1>2, <1>7 DEF CallDials, tableVars
<1>8. CASE CallUndials(c) BY <1>2, <1>8 DEF CallUndials
<1>9. CASE CallFinishes(c)
  <2>1. pc'[c] \in {"raised", "returned"}
    <3>1. pending[c].connection # None => pending[c].connection \in Sessions
      BY DEF BaseInv, ObjectsOK, ObjectTypeOK, PendingConnect
    <3>. QED BY <1>1, <1>2, <1>9, <3>1 DEF CallFinishes, BaseInv, ThreadsOK, ThreadTypeOK
  <2>. QED BY <1>4, <1>9, <2>1 DEF CallFinishes
<1>10. CASE CallTimesOut(c) BY <1>2, <1>10 DEF CallTimesOut, coreVars, tableVars
<1>11. CASE CallAbandons(c) BY <1>2, <1>3, <1>11 DEF CallAbandons
<1>12. CASE CallCancels(c) BY <1>2, <1>12 DEF CallCancels
<1>13. CASE CallRewaits(c) BY <1>2, <1>13 DEF CallRewaits, coreVars, tableVars
<1>14. CASE CloseStep(c)
  <2>1. UNCHANGED pendingConnects BY <1>14, CloseRawQuiet
  <2>2. pc[c] \in ClosePcs /\ pc'[c] \in ClosePcs \cup {"timedout"}
    BY <1>2, <1>14
       DEF CloseStep, CloseChecks, ClosePops, CloseMarks, CloseHangsUp, CloseClosesMailbox,
           AfterClose, ClosePcs
  <2>. QED BY <2>1, <2>2 DEF ClosePcs
<1>. QED BY <1>5, <1>6, <1>7, <1>8, <1>9, <1>10, <1>11, <1>12, <1>13, <1>14 DEF CallStep

LEMMA AttemptStep ==
    ASSUME OneCallEach, BaseInv, ResolutionInv, AttemptInv, [Next]_vars
    PROVE  AttemptInv'
<1>. SUFFICES ASSUME Running' PROVE
         /\ \A r \in Remotes : OneAnswer(r)'
         /\ \A r \in Remotes : Outstanding(r)' => \E c \in Calls : Target[c] = r /\ Dialled(c)'
         /\ \A c \in Calls : pc'[c] = "dial" => InTable(c)'
  BY DEF AttemptInv
<1>1. /\ \A r \in Remotes : OneAnswer(r)
      /\ \A r \in Remotes : Outstanding(r) => \E c \in Calls : Target[c] = r /\ Dialled(c)
      /\ \A c \in Calls : pc[c] = "dial" => InTable(c)
  BY RunningBefore DEF AttemptInv
<1>2. \A c \in Calls : pc[c] = "dial" => ~Outstanding(Target[c])
  BY <1>1, PeerAssumption DEF OneCallEach, Dialled
<1>3. ASSUME NEW r \in Remotes, TakesEntry(r)
      PROVE  Outstanding(r) /\ ~Outstanding(r)'
  <2>1. AtAnswer(r) /\ UNCHANGED <<raw, packets>> /\ ~AtAnswer(r)'
    BY <1>3 DEF TakesEntry, PumpPopsPending, PumpReturns, AtAnswer, rawVars
  <2>. QED BY <1>1, <2>1 DEF OneAnswer, Outstanding, Answered
<1>4. ASSUME NEW c \in Calls, Dialled(c) PROVE Dialled(c)' \/ TakesEntry(Target[c])
  <2>1. CASE CallStep(c) \/ CallTimesOut(c) BY <1>4, <2>1, CallDialled
  <2>2. CASE ~CallStep(c) /\ ~CallTimesOut(c) BY <1>4, <2>2, CallAlone DEF Dialled, InTable
  <2>. QED BY <2>1, <2>2
<1>5. ASSUME NEW c \in Calls, pc'[c] = "dial" PROVE InTable(c)'
  <2>1. CASE CallStep(c) \/ CallTimesOut(c) BY <1>5, <2>1, CallDialled
  <2>2. CASE ~CallStep(c) /\ ~CallTimesOut(c)
    <3>1. pc[c] = "dial" BY <1>5, <2>2, CallAlone
    <3>2. ~TakesEntry(Target[c]) BY <1>2, <1>3, <3>1, PeerAssumption
    <3>. QED BY <1>1, <2>2, <3>1, <3>2, CallAlone DEF InTable
  <2>. QED BY <2>1, <2>2
<1>6. ASSUME NEW r \in Remotes
      PROVE  /\ OneAnswer(r)'
             /\ Outstanding(r)' => \E c \in Calls : Target[c] = r /\ Dialled(c)'
  <2>1. CASE AnswersMove(r)
    <3>1. OneAnswer(r)' /\ (Outstanding(r)' => Outstanding(r)) BY <1>1, <2>1, AnswersFollow
    <3>. QED BY <1>1, <1>3, <1>4, <3>1
  <2>2. CASE StartsAttempt(r)
    <3>1. PICK c \in Calls : CallDials(c) /\ Target[c] = r /\ pc'[c] = "wait"
      BY <2>2 DEF StartsAttempt
    <3>2. pc[c] = "dial" BY <3>1 DEF CallDials
    <3>3. InTable(c) /\ ~Outstanding(r) BY <1>1, <1>2, <3>1, <3>2
    <3>4. Dialled(c)' BY <3>1, <3>3, CallDialled DEF CallStep
    <3>5. (Answered(r)' <=> Answered(r)) /\ (AtAnswer(r)' <=> AtAnswer(r))
          /\ (AnsweredOnce(r) <=> AnsweredOnce(r)')
      BY <2>2 DEF StartsAttempt, Answered, AnsweredOnce, AtAnswer
    <3>6. OneAnswer(r)' BY <1>1, <3>3, <3>5 DEF OneAnswer, Outstanding
    <3>. QED BY <3>1, <3>4, <3>6
  <2>. QED BY <1>1, <2>1, <2>2, AnswersStep
<1>. QED BY <1>5, <1>6

LEMMA AttemptInit == Init => AttemptInv
<1>1. SUFFICES ASSUME Init PROVE AttemptInv OBVIOUS
<1>2. Len(packets) = 0 BY <1>1, EmptySeq DEF Init, CoreInit, RakNetInit
<1>3. \A r \in Remotes : raw[r] = "none" /\ pumpPc = "check"
  BY <1>1 DEF Init, CoreInit, RakNetInit
<1>4. \A c \in Calls : pc[c] = "idle" BY <1>1, ThreadKinds DEF Init
<1>5. \A r : ~Answered(r) /\ AnsweredOnce(r) BY <1>2 DEF Answered, AnsweredOnce
<1>6. \A r \in Remotes : ~AtAnswer(r) BY <1>3 DEF AtAnswer
<1>. QED BY <1>3, <1>4, <1>5, <1>6 DEF AttemptInv, OneAnswer, Outstanding

-----------------------------------------------------------------------------
(* The announcement of a session, from the queue to its Connection *)

(* A Connection is built once and for all. *)
LEMMA BuiltStays ==
    ASSUME BaseInv, LifeInv, [Next]_vars, NEW s \in Sessions, Built(s)
    PROVE  Built(s)'
<1>1. connState \in [Sessions -> {"none", "open", "closed"}] BY DEF BaseInv, ObjectsOK, ObjectTypeOK
<1>2. CASE UNCHANGED connState BY <1>2 DEF Built
<1>3. CASE \E q : MarkClosed(q) BY <1>1, <1>3 DEF MarkClosed, Built
<1>4. CASE IncomingInserts \/ SucceededInserts
  BY <1>1, <1>4 DEF IncomingInserts, SucceededInserts, BuildConnection, Built
<1>. QED BY <1>2, <1>3, <1>4, StateMoves

(* What becomes of the packet in the pump's hands. *)
LEMMA PacketMoves ==
    ASSUME [Next]_vars
    PROVE  \/ UNCHANGED <<pumpPc, packet>>
           \/ PumpStep
           \/ PumpCrashes
           \/ FinishQueuesSentinel
<1>1. CASE UNCHANGED vars BY <1>1 DEF vars, coreVars, pumpVars
<1>2. CASE RakNetMoves \/ PeerCloses BY <1>2 DEF RakNetMoves, PeerCloses, pumpVars
<1>3. CASE CloserStep
  BY <1>3 DEF CloserStep, CloserJoinsPump, CloserShutsDown, FinishMarks, FinishClosesMailbox,
     FinishFailsPending, pumpVars
<1>. QED BY <1>1, <1>2, <1>3, ThreadsLeave DEF Next, pumpVars

(* The pump is at a packet until it returns to its loop. *)
LEMMA PacketStays ==
    ASSUME PumpStep, ~PumpReceives, packet' # None
    PROVE  /\ packet' = packet
           /\ pumpPc \in OpeningPcs => pumpPc' \in OpeningPcs
<1>1. CASE PumpReturns BY <1>1 DEF PumpReturns
<1>2. ~PumpIdles /\ ~IncomingQueues /\ ~SucceededSets /\ ~FailedSets /\ ~OverflowClosesMailbox
      /\ ~DisconnectedClosesMailbox
  BY DEF PumpIdles, IncomingQueues, SucceededSets, FailedSets, OverflowClosesMailbox,
     DisconnectedClosesMailbox, PumpReturns
<1>3. CASE PumpChecks \/ IncomingInserts \/ SucceededInserts \/ SucceededPublishes \/ PumpFails
  BY <1>3 DEF PumpChecks, IncomingInserts, SucceededInserts, SucceededPublishes, PumpFails,
     PumpGoesTo, OpeningPcs
<1>4. CASE PumpPopsPending BY <1>4 DEF PumpPopsPending, PumpReturns, OpeningPcs
<1>5. CASE MessageLooksUp \/ MessagePuts \/ OverflowPops \/ OverflowMarks \/ OverflowHangsUp
           \/ DisconnectedPops \/ DisconnectedMarks
  BY <1>5 DEF MessageLooksUp, MessagePuts, OverflowPops, OverflowMarks, OverflowHangsUp,
     DisconnectedPops, DisconnectedMarks, PumpReturns, PumpGoesTo, OpeningPcs
<1>. QED BY <1>2, <1>3, <1>4, <1>5 DEF PumpStep

LEMMA HandedStep ==
    ASSUME BaseInv, LifeInv, HandedInv, [Next]_vars
    PROVE  HandedInv'
<1>1. ASSUME pumpPc' = "set_event" PROVE Built(packet.session)'
  <2>1. CASE SucceededPublishes
    <3>1. pumpPc = "succeeded_publish" /\ UNCHANGED <<packet, connState>>
      BY <2>1 DEF SucceededPublishes, PumpGoesTo
    <3>. QED BY <3>1 DEF LifeInv, BuiltInv, Built
  <2>2. CASE pumpPc = "set_event" /\ packet' = packet
    <3>1. packet.session \in Sessions /\ Built(packet.session)
      BY <2>2, PumpHolds DEF OpeningPcs, BaseInv, HandedInv
    <3>. QED BY <2>2, <3>1, BuiltStays DEF Built
  <2>3. ~PumpReceives
    <3>1. SUFFICES ASSUME PumpReceives PROVE FALSE OBVIOUS
    <3>2. Head(packets) \in Packet BY <3>1, RawReceiveOK DEF PumpReceives, BaseInv
    <3>3. pumpPc' \in {"check", Route(Head(packets).id)} BY <3>1 DEF PumpReceives, PumpReturns
    <3>. QED BY <1>1, <3>2, <3>3, RouteProperties, PacketProperties
  <2>4. ~PumpCrashes /\ ~FinishQueuesSentinel
    BY <1>1 DEF PumpCrashes, FinishQueuesSentinel, PumpGoesTo
  <2>5. PumpStep => PumpReceives \/ SucceededPublishes
    BY <1>1 DEF PumpStep, PumpChecks, PumpIdles, IncomingInserts, IncomingQueues, PumpPopsPending,
       SucceededInserts, SucceededSets, FailedSets, MessageLooksUp, MessagePuts, OverflowPops,
       OverflowMarks, OverflowHangsUp, OverflowClosesMailbox, DisconnectedPops, DisconnectedMarks,
       DisconnectedClosesMailbox, PumpFails, PumpReturns, PumpGoesTo
  <2>. QED BY <1>1, <2>1, <2>2, <2>3, <2>4, <2>5, PacketMoves
<1>2. ASSUME packet' # None, packet'.id \in OpeningIds PROVE pumpPc' \in OpeningPcs
  <2>1. CASE PumpReceives
    <3>1. Head(packets) \in Packet BY <2>1, RawReceiveOK DEF PumpReceives, BaseInv
    <3>2. pumpPc' = Route(packet'.id) /\ packet' = Head(packets)
      BY <1>2, <2>1 DEF PumpReceives, PumpReturns
    <3>3. Route(packet'.id) \in {"incoming_connection", "connect_succeeded"}
      BY <1>2, <3>1, <3>2, RouteProperties, PacketProperties
    <3>. QED BY <3>2, <3>3 DEF OpeningPcs
  <2>2. CASE PumpCrashes \/ FinishQueuesSentinel
    <3>1. packet' = packet /\ pumpPc \in IdlePcs
      BY <2>2 DEF PumpCrashes, FinishQueuesSentinel, PumpGoesTo, IdlePcs, BaseInv, CloseOK, CloseInv
    <3>. QED BY <1>2, <3>1 DEF BaseInv, PumpOK, PumpInv
  <2>3. CASE PumpStep /\ ~PumpReceives BY <1>2, <2>3, PacketStays DEF HandedInv
  <2>. QED BY <1>2, <2>1, <2>2, <2>3, PacketMoves DEF HandedInv
<1>. QED BY <1>1, <1>2 DEF HandedInv

(* RakNet opens a session only by announcing it. *)
Announced(s) == \E i \in 1 .. Len(packets) : Opening(packets[i], s)

LEMMA OpeningOf ==
    ASSUME NEW p \in Packet, NEW s
    PROVE  Opening(p, s) <=> p.id \in OpeningIds /\ p.session = s
BY NoneIsNothing DEF Opening

LEMMA AppendAnnounces ==
    ASSUME RakOK, NEW p \in Packet, packets' = Append(packets, p), NEW s,
           Announced(s) \/ Opening(p, s)
    PROVE  Announced(s)'
<1>1. packets \in Seq(Packet) BY DEF RakOK, RakNetTypeOK
<1>2. PICK n \in Nat : n = Len(packets) BY LenProperties DEF RakOK, RakNetTypeOK
<1>3. /\ Len(packets') = n + 1 /\ packets'[n + 1] = p
      /\ \A i \in 1 .. n : packets'[i] = packets[i]
  BY <1>1, <1>2, AppendProperties
<1>4. n + 1 \in 1 .. n + 1 /\ \A i \in 1 .. n : i \in 1 .. n + 1 OBVIOUS
<1>. QED BY <1>2, <1>3, <1>4 DEF Announced, Opening

LEMMA ReceiveAnnounces ==
    ASSUME RakOK, NEW p, RawReceive(p), NEW s, Announced(s), ~Opening(p, s)
    PROVE  Announced(s)'
<1>1. packets \in Seq(Packet) /\ packets # <<>> BY DEF RawReceive, RakOK, RakNetTypeOK
<1>2. PICK n \in Nat : n = Len(packets) BY LenProperties DEF RakOK, RakNetTypeOK
<1>3. Len(packets') = n - 1 /\ \A i \in 1 .. n - 1 : packets'[i] = packets[i + 1]
  BY <1>1, <1>2, HeadTailProperties, EmptySeq DEF RawReceive
<1>4. PICK i \in 1 .. n : Opening(packets[i], s) BY <1>2 DEF Announced
<1>5. i # 1 BY <1>4, ReceiveTakes
<1>6. i - 1 \in 1 .. n - 1 /\ (i - 1) + 1 = i BY <1>5
<1>7. Opening(packets'[i - 1], s) BY <1>3, <1>4, <1>6
<1>. QED BY <1>3, <1>6, <1>7 DEF Announced, Opening

(* What a step does to RakNet, while the peer runs. *)
Steady ==
    /\ \A r \in Remotes : raw'[r] = "open" => raw[r] = "open"
    /\ UNCHANGED <<session, packets>>

RawMoves ==
    \/ Steady
    \/ \E r \in Remotes, mid \in Byte : Ends(r, mid)
    \/ \E r \in Remotes, s \in Sessions, mid \in OpeningIds : Opens(r, s, mid)
    \/ \E r \in Remotes : RemoteSends(r)
    \/ PumpReceives

LEMMA HangUpMoves ==
    ASSUME RakOK, NEW s \in Sessions, Known(s), NEW notify \in BOOLEAN, HangUp(s, notify)
    PROVE  RawMoves
<1>1. PICK q \in Remotes : q = Guid(s) BY DEF Guid, Known, RakOK, RakNetTypeOK
<1>2. CASE UNCHANGED rawVars BY <1>2 DEF rawVars, RawMoves, Steady
<1>3. CASE raw' = [raw EXCEPT ![q] = "closing"] /\ UNCHANGED <<session, packets>>
  BY <1>3 DEF RawMoves, Steady, RakOK, RakNetTypeOK
<1>4. CASE Ends(q, ID_CONNECTION_LOST) BY <1>4, IdValues DEF RawMoves
<1>. QED BY <1>1, <1>2, <1>3, <1>4 DEF HangUp, RawCloseConnection, Ends

LEMMA RawFollows ==
    ASSUME BaseInv, [Next]_vars, Running'
    PROVE  RawMoves
<1>. RakOK BY DEF BaseInv
<1>1. UNCHANGED <<raw, session, packets>> => RawMoves BY DEF RawMoves, Steady
<1>2. CASE RakNetMoves
  <2>1. ASSUME NEW q \in Remotes, NEW e \in Sessions, RemoteConnects(q, e) \/ RemoteAccepts(q, e)
        PROVE  RawMoves
    BY <2>1 DEF RemoteConnects, RemoteAccepts, OpeningIds, RawMoves
  <2>2. ASSUME NEW q \in Remotes, RemoteRejects(q) \/ RemoteLeaves(q) \/ LocalCloseCompletes(q)
        PROVE  RawMoves
    BY <2>2, IdValues DEF RemoteRejects, RemoteLeaves, LocalCloseCompletes, RawMoves
  <2>3. ASSUME NEW q \in Remotes, RemoteSends(q) PROVE RawMoves BY <2>3 DEF RawMoves
  <2>. QED BY <1>2, <2>1, <2>2, <2>3 DEF RakNetMoves, RakNetStep
<1>3. CASE PumpStep
  <2>1. CASE PumpReceives BY <2>1 DEF RawMoves
  <2>2. CASE OverflowHangsUp
    <3>1. found \in Sessions /\ Known(found)
      BY <2>2, PumpHolds, PumpLeaves DEF BaseInv, OverflowHangsUp
    <3>. QED BY <2>2, <3>1, HangUpMoves DEF OverflowHangsUp
  <2>3. CASE ~OverflowHangsUp /\ ~PumpReceives
    BY <1>1, <1>3, <2>3
       DEF PumpStep, PumpChecks, PumpIdles, IncomingInserts, IncomingQueues, PumpPopsPending,
           SucceededInserts, SucceededPublishes, SucceededSets, FailedSets, MessageLooksUp,
           MessagePuts, OverflowPops, OverflowMarks, OverflowClosesMailbox, DisconnectedPops,
           DisconnectedMarks, DisconnectedClosesMailbox, PumpFails, rawVars
  <2>. QED BY <2>1, <2>2, <2>3
<1>4. ASSUME NEW t \in Calls \cup Sessions, CloseStep(t) PROVE RawMoves
  <2>1. CASE CloseHangsUp(t)
    <3>1. pc[t] \in ClosePcs BY <2>1 DEF CloseHangsUp, ClosePcs
    <3>2. Closing(t) \in Sessions /\ Known(Closing(t)) BY <3>1, ClosingIsKnown
    <3>3. PICK notify \in BOOLEAN : HangUp(Closing(t), notify) BY <2>1 DEF CloseHangsUp
    <3>. QED BY <3>2, <3>3, HangUpMoves
  <2>2. CASE ~CloseHangsUp(t)
    BY <1>1, <1>4, <2>2 DEF CloseStep, CloseChecks, ClosePops, CloseMarks, CloseClosesMailbox,
       coreVars, rawVars
  <2>. QED BY <2>1, <2>2
<1>5. CASE UNCHANGED vars BY <1>1, <1>5 DEF vars, coreVars, rawVars
<1>6. ASSUME NEW c \in Calls, CallDials(c) \/ CallCancels(c) PROVE RawMoves
  BY <1>6, PeerAssumption
     DEF CallDials, CallCancels, RawConnect, RawCancelConnectionAttempt, RakOK, RakNetTypeOK,
         RawMoves, Steady
<1>7. CASE /\ ~\E t \in Calls \cup Sessions : CloseStep(t)
           /\ ~\E c \in Calls : CallDials(c) \/ CallCancels(c)
           /\ \/ \E t \in Calls : CallStep(t) \/ CallTimesOut(t)
              \/ \E q \in Sessions : OwnerStep(q) \/ OwnerCloses(q)
              \/ \E a \in Acceptors : AcceptorStep(a) \/ AcceptTimesOut(a)
  BY <1>1, <1>7
     DEF CallStep, CallBegins, CallRegisters, CallUndials, CallFinishes, CallAbandons,
     CallRewaits, CallTimesOut, PopPendingOf, OwnerStep, OwnerReceives,
     OwnerSeesEnd, OwnerCloses, AcceptorStep, AcceptBegins, AcceptGets, AcceptReputs,
     AcceptTimesOut, coreVars, rawVars
<1>. QED BY <1>2, <1>3, <1>4, <1>5, <1>6, <1>7, RunningBefore DEF Next

(* The announcement goes from RakNet to the queue and from there to the pump. *)
LEMMA AnnouncedStays ==
    ASSUME BaseInv, [Next]_vars, Running', NEW s \in Sessions, Announced(s)
    PROVE  Announced(s)' \/ Opening(packet, s)'
<1>. RakOK BY DEF BaseInv
<1>1. CASE Steady BY <1>1 DEF Steady, Announced
<1>2. ASSUME NEW q \in Remotes, NEW mid \in Byte, NEW e \in Sessions \cup {None},
             packets' = Append(packets, [id |-> mid, from |-> q, session |-> e])
      PROVE  Announced(s)'
  BY <1>2, MakePacket, AppendAnnounces
<1>3. CASE PumpReceives
  <2>. PICK p : p = Head(packets) OBVIOUS
  <2>1. RawReceive(p) /\ p \in Packet BY <1>3, RawReceiveOK DEF PumpReceives
  <2>2. CASE Opening(p, s)
    <3>1. p.id \in OpeningIds BY <2>2 DEF Opening
    <3>2. Route(p.id) \in {"incoming_connection", "connect_succeeded"}
      BY <2>1, <3>1, RouteProperties, PacketProperties
    <3>3. packet' = p BY <1>3, <3>2 DEF PumpReceives
    <3>. QED BY <2>2, <3>3 DEF Opening
  <2>. QED BY <2>1, <2>2, ReceiveAnnounces
<1>4. \A q \in Remotes : session[q] \in Sessions \cup {None} BY DEF RakOK, RakNetTypeOK
<1>5. ASSUME NEW q \in Remotes, RemoteSends(q) \/ \E mid \in Byte : Ends(q, mid)
      PROVE  Announced(s)'
  BY <1>2, <1>4, <1>5, IdValues DEF RemoteSends, Ends
<1>6. ASSUME NEW q \in Remotes, NEW e \in Sessions, NEW mid \in OpeningIds, Opens(q, e, mid)
      PROVE  Announced(s)'
  BY <1>2, <1>6, IdValues DEF Opens, OpeningIds
<1>. QED BY <1>1, <1>3, <1>5, <1>6, RawFollows DEF RawMoves

LEMMA SessionOpens ==
    ASSUME BaseInv, [Next]_vars, Running', NEW r \in Remotes, raw'[r] = "open"
    PROVE  \/ raw[r] = "open" /\ session'[r] = session[r]
           \/ Announced(session[r])'
<1>. RakOK BY DEF BaseInv
<1>1. CASE Steady BY <1>1 DEF Steady
<1>2. ASSUME NEW q \in Remotes, NEW mid \in Byte, Ends(q, mid)
      PROVE  raw[r] = "open" /\ session'[r] = session[r]
  BY <1>2 DEF Ends, RakOK, RakNetTypeOK
<1>3. ASSUME NEW q \in Remotes, NEW e \in Sessions, NEW mid \in OpeningIds, Opens(q, e, mid), q = r
      PROVE  Announced(session[r])'
  <2>1. PICK p \in Packet : p = [id |-> mid, from |-> q, session |-> e]
    BY MakePacket, IdValues DEF OpeningIds
  <2>2. Opening(p, e) BY <2>1, OpeningOf
  <2>3. packets' = Append(packets, p) /\ session'[r] = e
    BY <1>3, <2>1 DEF Opens, RakOK, RakNetTypeOK
  <2>4. Announced(e)' BY <2>2, <2>3, AppendAnnounces
  <2>. QED BY <2>3, <2>4 DEF Announced, Opening
<1>4. ASSUME NEW q \in Remotes, NEW e \in Sessions, NEW mid \in OpeningIds, Opens(q, e, mid), q # r
      PROVE  raw[r] = "open" /\ session'[r] = session[r]
  BY <1>4 DEF Opens, RakOK, RakNetTypeOK
<1>5. CASE PumpReceives \/ \E q \in Remotes : RemoteSends(q)
  BY <1>5 DEF PumpReceives, RawReceive, RemoteSends
<1>. QED BY <1>1, <1>2, <1>3, <1>4, <1>5, RawFollows DEF RawMoves

(* Only the pump drops an announcement: one whose Connection it has built, *)
(* or one that no pending connect waits for.                               *)
Drops(r) == TakesEntry(r) /\ pendingConnects[r] = None

LEMMA AnnouncementDropped ==
    ASSUME BaseInv, LifeInv, HandedInv, [Next]_vars, Running', NEW s \in Sessions,
           Opening(packet, s), connState[s] = "none"
    PROVE  Opening(packet, s)' \/ Drops(peerOf[s])
<1>1. packet # None /\ packet.id \in OpeningIds /\ packet.session = s BY DEF Opening
<1>2. pumpPc \in OpeningPcs BY <1>1 DEF HandedInv
<1>3. packet.session = s /\ peerOf[s] = packet.from BY <1>1, <1>2, PumpHolds DEF BaseInv
<1>4. pumpPc \notin {"accept_put", "set_event"}
  BY <1>1 DEF HandedInv, LifeInv, BuiltInv, Built
<1>5. ~PumpReceives /\ ~PumpIdles BY <1>2 DEF PumpReceives, PumpIdles, OpeningPcs
<1>6. CASE packet' = packet BY <1>6 DEF Opening
<1>7. CASE PumpStep /\ packet' = None
  <2>1. CASE PumpPopsPending
    <3>1. pendingConnects[packet.from] = None
      BY <1>1, <1>7, <2>1 DEF PumpPopsPending
    <3>. QED BY <1>3, <2>1, <3>1 DEF Drops, TakesEntry
  <2>2. ~PumpPopsPending => FALSE
    <3>1. SUFFICES ASSUME ~PumpPopsPending PROVE FALSE OBVIOUS
    <3>2. pumpPc \in {"incoming_connection", "connect_succeeded", "succeeded_insert", "succeeded_publish"}
      BY <1>2, <1>4 DEF OpeningPcs
    <3>3. packet' = packet
      BY <1>7, <3>1, <3>2
         DEF PumpStep, PumpChecks, PumpIdles, PumpReceives, IncomingInserts, IncomingQueues,
             SucceededInserts, SucceededPublishes, SucceededSets, FailedSets, MessageLooksUp,
             MessagePuts, OverflowPops, OverflowMarks, OverflowHangsUp, OverflowClosesMailbox,
             DisconnectedPops, DisconnectedMarks, DisconnectedClosesMailbox, PumpFails, PumpGoesTo
    <3>. QED BY <1>1, <1>7, <3>3
  <2>. QED BY <2>1, <2>2
<1>8. CASE PumpStep /\ packet' # None BY <1>5, <1>6, <1>8, PacketStays
<1>9. ~PumpCrashes /\ ~FinishQueuesSentinel
  BY <1>2 DEF PumpCrashes, FinishQueuesSentinel, OpeningPcs, BaseInv, CloseOK, CloseInv
<1>. QED BY <1>6, <1>7, <1>8, <1>9, PacketMoves

LEMMA ZombieStep ==
    ASSUME OneCallEach, BaseInv, ResolutionInv, LifeInv, AttemptInv, HandedInv,
           ZombieOnlyAfterTimeout, [Next]_vars
    PROVE  ZombieOnlyAfterTimeout'
<1>. SUFFICES ASSUME Running', NEW r \in Remotes, Zombie(r)'
              PROVE  \E c \in Calls : Target[c] = r /\ pc'[c] \in {"cancel", "timedout"}
  BY DEF ZombieOnlyAfterTimeout, Running
<1>1. Running BY RunningBefore
<1>2. ASSUME NEW c \in Calls, pc[c] \in {"cancel", "timedout"}
      PROVE  pc'[c] \in {"cancel", "timedout"}
  <2>1. CASE CallStep(c) \/ CallTimesOut(c) BY <1>2, <2>1, CallDialled
  <2>2. CASE ~CallStep(c) /\ ~CallTimesOut(c) BY <1>2, <2>2, CallAlone
  <2>. QED BY <2>1, <2>2
<1>3. CASE Zombie(r) BY <1>1, <1>2, <1>3 DEF ZombieOnlyAfterTimeout, Running
<1>4. CASE ~Zombie(r)
  <2>1. DOMAIN packets = 1 .. Len(packets) /\ DOMAIN packets' = 1 .. Len(packets')
    <3>1. packets \in Seq(Packet) /\ packets' \in Seq(Packet)
      BY BaseStep DEF BaseInv, RakOK, RakNetTypeOK
    <3>. QED BY <3>1, LenProperties
  <2>2. /\ raw'[r] = "open" /\ connState'[session'[r]] = "none"
        /\ ~Opening(packet, session[r])' /\ ~Announced(session[r])'
    BY <2>1 DEF Zombie, Announced
  <2>3. raw[r] = "open" /\ session'[r] = session[r] BY <2>2, SessionOpens
  <2>4. PICK s \in Sessions : s = session[r] /\ peerOf[s] = r
    BY <2>3 DEF BaseInv, RakOK, RakInv, RakNetTypeOK
  <2>5. connState[s] = "none" BY <2>2, <2>3, <2>4, BuiltStays DEF Built
  <2>6. ~Opening(packet, s)' /\ ~Announced(s)'
    BY <2>2, <2>3, <2>4 DEF Opening, Announced
  <2>7. ~Announced(s) BY <2>6, AnnouncedStays
  <2>8. Opening(packet, s) BY <1>4, <2>1, <2>3, <2>4, <2>5, <2>7 DEF Zombie, Announced
  <2>9. Drops(r) BY <2>4, <2>5, <2>6, <2>8, AnnouncementDropped
  <2>10. Outstanding(r)
    BY <2>9 DEF Drops, TakesEntry, PumpPopsPending, Outstanding, AtAnswer
  <2>11. PICK c \in Calls : Target[c] = r /\ Dialled(c) BY <1>1, <2>10 DEF AttemptInv
  <2>12. pc[c] \in {"cancel", "timedout"}
    BY <2>9, <2>11, NoneIsNothing DEF Drops, Dialled, InTable
  <2>. QED BY <1>2, <2>11, <2>12
<1>. QED BY <1>3, <1>4

LEMMA ZombieInit == Init => HandedInv /\ ZombieOnlyAfterTimeout
<1>1. SUFFICES ASSUME Init PROVE HandedInv /\ ZombieOnlyAfterTimeout OBVIOUS
<1>2. packet = None /\ pumpPc = "check" /\ \A r \in Remotes : raw[r] = "none"
  BY <1>1 DEF Init, CoreInit, RakNetInit
<1>3. HandedInv BY <1>2 DEF HandedInv
<1>. QED BY <1>2, <1>3 DEF ZombieOnlyAfterTimeout, Zombie

(* The announcement of a session reaches its Connection or the connect()   *)
(* that asked for it, and that one is still there unless it has timed out: *)
(* an established session is left behind only then (connect_succeeded).    *)
THEOREM ZombiesAfterTimeout ==
    ASSUME \A c, d \in Calls : Target[c] = Target[d] => c = d
    PROVE  Spec => []ZombieOnlyAfterTimeout
<1>. DEFINE Inv == /\ BaseInv /\ ResolutionInv /\ LifeInv
                   /\ AttemptInv /\ HandedInv /\ ZombieOnlyAfterTimeout
<1>1. Init => Inv BY BaseInit, ResolutionInit, LifeInit, AttemptInit, ZombieInit
<1>2. Inv /\ [Next]_vars => Inv'
  <2>1. SUFFICES ASSUME Inv, [Next]_vars PROVE Inv' OBVIOUS
  <2>2. BaseInv' /\ ResolutionInv' /\ LifeInv' BY <2>1, BaseStep, ResolutionStep, LifeStep
  <2>3. OneCallEach BY DEF OneCallEach
  <2>. QED BY <2>1, <2>2, <2>3, AttemptStep, HandedStep, ZombieStep
<1>3. Inv => ZombieOnlyAfterTimeout OBVIOUS
<1>. QED BY <1>1, <1>2, <1>3, PTL DEF Spec
=============================================================================
