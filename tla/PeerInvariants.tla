--------------------------- MODULE PeerInvariants ---------------------------
(***************************************************************************)
(* The inductive invariant of Peer: what the safety properties need to be  *)
(* known of every state for one step to preserve them.                     *)
(***************************************************************************)
EXTENDS Peer

-----------------------------------------------------------------------------
(* What the pump holds at each of its steps. *)

OpeningPcs == {"incoming_connection", "accept_put", "connect_succeeded",
               "succeeded_insert", "succeeded_publish", "set_event"}
FailedPcs  == {"connect_failed", "failed_set"}
MessagePcs == {"message", "deliver"}
PendingPcs == {"succeeded_insert", "succeeded_publish", "set_event", "failed_set"}
FoundPcs   == {"deliver", "overflow_pop", "overflow_mark", "overflow_hangup",
               "overflow_mailbox", "disconnected_mark", "disconnected_mailbox"}
IdlePcs    == {"check", "receive", "crashed", "failing", "exited"}

PumpInv ==
    /\ pumpPc \in IdlePcs <=> packet = None
    /\ pumpPc \in PendingPcs <=> popped # None
    /\ pumpPc \in FoundPcs <=> found # None
    /\ pumpPc \in OpeningPcs => packet.id \in OpeningIds
    /\ pumpPc \in FailedPcs => packet.id \in CONNECT_FAILURES
    /\ pumpPc \in MessagePcs => packet.id >= ID_USER_PACKET_ENUM

(* The teardown works on its snapshot once the pump has stopped. *)
CloseInv ==
    /\ closed <=> closePhase # "open"
    /\ closePhase \in {"shutdown", "finish"} => pumpPc \in {"exited", "failing"}

-----------------------------------------------------------------------------
(* Every session the layer has heard of has begun, with the right remote.  *)

Known(s) == peerOf[s] # None

PacketOK(p) == IF p.session = None THEN p.id \in Rejections
                                   ELSE peerOf[p.session] = p.from

PacketsOK == \A i \in 1 .. Len(packets) : PacketOK(packets[i])

RakInv ==
    /\ \A r \in Remotes : raw[r] \in {"open", "closing"} => session[r] # None
    /\ \A r \in Remotes : session[r] # None => peerOf[session[r]] = r
    /\ PacketsOK

TableInv ==
    \A r \in Remotes : connections[r] # None => peerOf[connections[r]] = r

ObjectInv ==
    \A c \in Calls : pending[c].connection # None => Known(pending[c].connection)

QueueInv ==
    \A i \in 1 .. Len(acceptQueue) : acceptQueue[i] # None => Known(acceptQueue[i])

HandsInv ==
    /\ packet # None => PacketOK(packet)
    /\ found # None => Known(found)

ThreadInv ==
    /\ \A c \in Calls : pc[c] \in ClosePcs => pending[c].connection # None
    /\ \A s \in Sessions : pc[s] # "idle" => Known(s)

(* The part every other part rests on, by what it is about. *)
RakOK     == RakNetTypeOK /\ RakInv
TablesOK  == TableTypeOK /\ TableInv
ObjectsOK == ObjectTypeOK /\ ObjectInv
QueueOK   == QueueTypeOK /\ QueueInv
PumpOK    == PumpTypeOK /\ PumpInv /\ HandsInv
CloseOK   == CloseTypeOK /\ CloseInv
ThreadsOK == ThreadTypeOK /\ ThreadInv

BaseInv == RakOK /\ TablesOK /\ ObjectsOK /\ QueueOK /\ PumpOK /\ CloseOK /\ ThreadsOK

-----------------------------------------------------------------------------
(* A pending connect is in at most one place, where it is unresolved: the  *)
(* table, the pump's hands or the snapshot of the teardown.                *)

Fresh(c) == /\ ~pending[c].event
            /\ pending[c].connection = None
            /\ pending[c].reason = None

InTable(c) == pendingConnects[Target[c]] = c

ResolutionInv ==
    /\ \A r \in Remotes : pendingConnects[r] # None => Target[pendingConnects[r]] = r
    /\ \A c \in Calls : pc[c] \in {"idle", "register"} =>
           Fresh(c) /\ ~InTable(c) /\ popped # c /\ c \notin closePends
    /\ \A c \in Calls : InTable(c) => Fresh(c) /\ popped # c /\ c \notin closePends
    /\ \A c \in closePends : Fresh(c) /\ popped # c
    /\ popped # None =>
           /\ ~pending[popped].event
           /\ pending[popped].reason = None
           /\ pending[popped].connection # None <=> pumpPc = "set_event"
    /\ ResolvedExactlyOnce

(* With at most one call per remote, nobody else's pop takes the entry.    *)
WaiterInv ==
    \A c \in Calls :
        pc[c] \in {"dial", "wait", "abandon", "rewait"} /\ ~pending[c].event =>
            \/ pc[c] # "rewait" /\ InTable(c)
            \/ popped = c
            \/ c \in closePends

-----------------------------------------------------------------------------
(* A session is announced once, before its Connection exists. *)

OpeningInv ==
    /\ \A i \in 1 .. Len(packets) : packets[i].id \in OpeningIds =>
           /\ connState[packets[i].session] = "none"
           /\ \A j \in 1 .. Len(packets) : packets[j].id \in OpeningIds /\ i # j =>
                  packets[j].session # packets[i].session
    /\ pumpPc \in {"incoming_connection", "connect_succeeded", "succeeded_insert"} =>
           /\ connState[packet.session] = "none"
           /\ \A i \in 1 .. Len(packets) : packets[i].id \in OpeningIds =>
                  packets[i].session # packet.session
    /\ \A s \in Sessions : connState[s] # "none" => Known(s)

(* Every reference to a Connection is to one that has been built. *)
Built(s) == connState[s] # "none"

BuiltInv ==
    /\ \A r \in Remotes : connections[r] # None => Built(connections[r])
    /\ \A c \in Calls : pending[c].connection # None => Built(pending[c].connection)
    /\ \A i \in 1 .. Len(acceptQueue) : acceptQueue[i] # None => Built(acceptQueue[i])
    /\ found # None => Built(found)
    /\ \A s \in closeConns : Built(s)
    /\ \A s \in Sessions : pc[s] # "idle" => Built(s)
    /\ pumpPc \in {"accept_put", "succeeded_publish"} => Built(packet.session)

(* Whoever is about to close a mailbox has set _closed before. *)
MarkedInv ==
    /\ pumpPc \in {"overflow_hangup", "overflow_mailbox", "disconnected_mailbox"} =>
           connState[found] = "closed"
    /\ marked # None => connState[marked] = "closed"
    /\ \A t \in Calls \cup Sessions : pc[t] \in {"close_hangup", "close_mailbox"} =>
           connState[Closing(t)] = "closed"

LifeInv == OpeningInv /\ BuiltInv /\ MarkedInv /\ ClosedMailboxMeansDisconnected

-----------------------------------------------------------------------------
(* A connect() that has not dialled yet gets no connection, and one that   *)
(* has given up keeps none: nobody writes its pending connect any more.    *)
(* This needs at most one call per remote, as WaiterInv does.              *)

Committed(c) == popped = c /\ pumpPc \in {"succeeded_insert", "succeeded_publish"}

Accepts(p, r) == p.id = ID_CONNECTION_REQUEST_ACCEPTED /\ p.from = r

NotDialled(c) ==
    /\ raw[Target[c]] # "connecting"
    /\ \A i \in 1 .. Len(packets) : ~Accepts(packets[i], Target[c])
    /\ ~(pumpPc = "connect_succeeded" /\ packet.from = Target[c])
    /\ ~Committed(c)
    /\ pending[c].connection = None

GivenUp(c) ==
    /\ ~InTable(c) /\ ~Committed(c)
    /\ pending[c].connection # None => connState[pending[c].connection] = "closed"

CallOK(c) ==
    /\ pc[c] \in {"idle", "register", "dial", "undial"} => NotDialled(c)
    /\ pc[c] \in {"cancel", "raised", "timedout"} => GivenUp(c)

GiveUpInv == \A c \in Calls : CallOK(c)

-----------------------------------------------------------------------------
(* RakNet ends a session before it opens another one with the same remote, *)
(* and says so in this order: when the pump comes to the second one it has *)
(* taken the first from the table, so no insert replaces a Connection.     *)

OpensFrom(p, r) == p.id \in OpeningIds /\ p.from = r

EndsFrom(p, r) ==
    p.id \in {ID_DISCONNECTION_NOTIFICATION, ID_CONNECTION_LOST} /\ p.from = r

(* RakNet announces a session with r at place k, or may do so next. *)
OpeningAt(r, k) ==
    \/ k \in 1 .. Len(packets) /\ OpensFrom(packets[k], r)
    \/ k = Len(packets) + 1 /\ session[r] = None

(* The end of a session with r comes between the places j and k. *)
EndBetween(r, j, k) == \E i \in j + 1 .. k - 1 : EndsFrom(packets[i], r)

HoldsOpening(r) ==
    /\ pumpPc \in {"incoming_connection", "connect_succeeded", "succeeded_insert"}
    /\ packet.from = r

(* The table has a connection of r, or is about to get one. *)
Occupied(r) ==
    \/ HoldsOpening(r)
    \/ connections[r] # None /\ ~(pumpPc = "disconnected" /\ packet.from = r)

Ordered(r) ==
    /\ raw[r] \in {"none", "connecting"} => session[r] = None
    /\ HoldsOpening(r) => connections[r] = None
    /\ \A k \in 1 .. Len(packets) + 1 : OpeningAt(r, k) =>
           /\ Occupied(r) => EndBetween(r, 0, k)
           /\ \A j \in 1 .. k - 1 : OpensFrom(packets[j], r) => EndBetween(r, j, k)

OrderInv == ~closed /\ pumpPc # "crashed" => \A r \in Remotes : Ordered(r)

-----------------------------------------------------------------------------
(* On its way to an owner a Connection is in one place only, and nobody    *)
(* has it yet: no thread that owns one is set going a second time.         *)

BuiltPump == {"accept_put", "succeeded_publish"}

Queued(s) == \E i \in 1 .. Len(acceptQueue) : acceptQueue[i] = s

InHand(s) == pumpPc \in BuiltPump /\ packet.session = s

Unpromised(s) == \A c \in Calls : pending[c].connection # s

QueueDistinct ==
    \A i, j \in 1 .. Len(acceptQueue) :
        acceptQueue[i] = acceptQueue[j] /\ acceptQueue[i] # None => i = j

OwnInv ==
    /\ QueueDistinct
    /\ \A s \in Sessions : Queued(s) => pc[s] = "idle" /\ ~InHand(s) /\ Unpromised(s)
    /\ \A s \in Sessions : InHand(s) => pc[s] = "idle" /\ Unpromised(s)
    /\ \A c \in Calls : pending[c].connection # None /\ pc[c] # "returned" =>
           pc[pending[c].connection] = "idle"
    /\ \A c, d \in Calls : pending[c].connection = pending[d].connection =>
           c = d \/ pending[c].connection = None

-----------------------------------------------------------------------------
(* Once the peer is closed, its teardown has every connected Connection in *)
(* its snapshot, but for one the pump built after that was taken.          *)

Kept(s) == BeingClosed(s) \/ s \in evicted

MayInsert == pumpPc \in {"receive", "incoming_connection", "connect_succeeded", "succeeded_insert"}

Missed(s) == connState[s] = "open" /\ s \notin closeConns /\ ~Kept(s)

SnapshotCovers ==
    /\ closed /\ MayInsert => \A s \in Sessions : ~Missed(s)
    /\ closed => \A s, q \in Sessions : Missed(s) /\ Missed(q) => s = q
    /\ closePhase = "done" => closeConns = {}

-----------------------------------------------------------------------------
(* An attempt is answered once, and until the pump has taken the answer    *)
(* to the table, the connect() that dialled is in the table or has timed   *)
(* out.  This needs at most one call per remote, as WaiterInv does.        *)

Running == ~closed /\ pumpPc # "crashed"

Resolves(p, r) ==
    p.from = r /\ p.id \in CONNECT_FAILURES \cup {ID_CONNECTION_REQUEST_ACCEPTED}

Answered(r) == \E i \in 1 .. Len(packets) : Resolves(packets[i], r)

AtAnswer(r) == pumpPc \in {"connect_succeeded", "connect_failed"} /\ packet.from = r

AnsweredOnce(r) ==
    \A i, j \in 1 .. Len(packets) : Resolves(packets[i], r) /\ Resolves(packets[j], r) => i = j

OneAnswer(r) ==
    /\ AnsweredOnce(r)
    /\ raw[r] = "connecting" => ~Answered(r) /\ ~AtAnswer(r)
    /\ AtAnswer(r) => ~Answered(r)

Outstanding(r) == raw[r] = "connecting" \/ Answered(r) \/ AtAnswer(r)

Dialled(c) ==
    /\ pc[c] \notin {"idle", "register", "dial", "undial"}
    /\ InTable(c) \/ pc[c] \in {"cancel", "timedout"}

AttemptInv ==
    Running => /\ \A r \in Remotes : OneAnswer(r)
               /\ \A r \in Remotes : Outstanding(r) => \E c \in Calls : Target[c] = r /\ Dialled(c)
               /\ \A c \in Calls : pc[c] = "dial" => InTable(c)

(* The pump lets go of the announcement of a session once it has built its *)
(* Connection, or has found no pending connect.                            *)
HandedInv ==
    /\ packet # None /\ packet.id \in OpeningIds => pumpPc \in OpeningPcs
    /\ pumpPc = "set_event" => Built(packet.session)
=============================================================================
