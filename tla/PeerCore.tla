------------------------------ MODULE PeerCore ------------------------------
(***************************************************************************)
(* The state of a Peer and everything its sync and asyncio flavours share: *)
(* the tables under _lock, the receive pump and its sink callbacks, and    *)
(* the teardown that close() and a pump crash go through.                  *)
(*                                                                         *)
(* A critical section under _lock is one action, since nothing inside one  *)
(* blocks; between two critical sections, and between a write another      *)
(* thread can see and the next, every thread may run.  A Connection object *)
(* is named by the session it was built for, a pending connect by the      *)
(* connect() call that made it.                                            *)
(***************************************************************************)
EXTENDS RakNet, MailboxData, FiniteSets

CONSTANT Calls         \* connect() calls, one thread each

ASSUME CallsAssumption ==
    /\ None \notin Calls
    /\ Calls \cap Sessions = {}

VARIABLES closed,           \* Peer._closed
          connections,      \* Peer._connections: guid -> Connection
          pendingConnects,  \* Peer._pending_connects: address -> _PendingConnect
          pending,          \* the fields of each _PendingConnect
          connState,        \* Connection: not built yet, or its _closed
          mailbox,          \* Connection._mailbox
          acceptQueue,      \* Peer._accept_queue
          pumpPc,           \* the pump thread: the callback or step it is at
          packet,           \*   the packet it routes
          popped,           \*   the pending connect it took from the table
          found,            \*   the Connection it took or looked up
          closePhase,       \* how far the one teardown is
          closeConns,       \*   connections of its snapshot still to close
          closePends,       \*   pending connects of its snapshot still to fail
          marked,           \*   the connection between _closed and mailbox.close
          evicted           \* history: connections another one's close removed
                            \*   from the table

tableVars  == <<connections, pendingConnects, evicted>>
objectVars == <<pending, connState, mailbox>>
pumpVars   == <<pumpPc, packet, popped, found>>
closeVars  == <<closed, closePhase, closeConns, closePends, marked>>
coreVars   == <<rawVars, tableVars, objectVars, acceptQueue, pumpVars, closeVars>>

PumpStates == {"check", "receive", "incoming_connection", "accept_put",
    "connect_succeeded", "succeeded_insert", "succeeded_publish", "set_event",
    "connect_failed", "failed_set", "message", "deliver", "overflow_pop",
    "overflow_mark", "overflow_hangup", "overflow_mailbox", "disconnected",
    "disconnected_mark", "disconnected_mailbox", "crashed", "failing", "exited"}

ClosePhases == {"open", "join", "shutdown", "finish", "done"}

PendingConnect == [event : BOOLEAN, connection : Sessions \cup {None},
                   reason : DefaultMessageIDTypes \cup {None}]

TableTypeOK ==
    /\ connections \in [Remotes -> Sessions \cup {None}]
    /\ pendingConnects \in [Remotes -> Calls \cup {None}]
    /\ evicted \subseteq Sessions

ObjectTypeOK ==
    /\ pending \in [Calls -> PendingConnect]
    /\ connState \in [Sessions -> {"none", "open", "closed"}]
    /\ mailbox \in [Sessions -> Mailboxes(Sessions)]

QueueTypeOK == acceptQueue \in Seq(Sessions \cup {None})

PumpTypeOK ==
    /\ pumpPc \in PumpStates
    /\ packet \in Packet \cup {None}
    /\ popped \in Calls \cup {None}
    /\ found \in Sessions \cup {None}

CloseTypeOK ==
    /\ closed \in BOOLEAN
    /\ closePhase \in ClosePhases
    /\ closeConns \subseteq Sessions
    /\ closePends \subseteq Calls
    /\ marked \in Sessions \cup {None}

CoreTypeOK ==
    RakNetTypeOK /\ TableTypeOK /\ ObjectTypeOK /\ QueueTypeOK /\ PumpTypeOK /\ CloseTypeOK

CoreInit ==
    /\ RakNetInit
    /\ closed = FALSE
    /\ connections = [r \in Remotes |-> None]
    /\ pendingConnects = [r \in Remotes |-> None]
    /\ pending = [c \in Calls |-> [event |-> FALSE, connection |-> None, reason |-> None]]
    /\ connState = [s \in Sessions |-> "none"]
    /\ mailbox = [s \in Sessions |-> EmptyMailbox]
    /\ acceptQueue = <<>>
    /\ pumpPc = "check"
    /\ packet = None /\ popped = None /\ found = None
    /\ closePhase = "open"
    /\ closeConns = {} /\ closePends = {} /\ marked = None
    /\ evicted = {}

-----------------------------------------------------------------------------
(* What the callbacks, Connection.close and the teardown are made of. *)

Guid(s) == peerOf[s]

(* _connections.pop(guid): whatever is registered under the guid of s goes. *)
PopConnection(s) ==
    /\ connections' = [connections EXCEPT ![Guid(s)] = None]
    /\ evicted' = evicted \cup ({connections[Guid(s)]} \ {s, None})

MarkClosed(s) == connState' = [connState EXCEPT ![s] = "closed"]

CloseMailbox(s, exc) == mailbox' = [mailbox EXCEPT ![s] = CloseWith(@, exc)]

(* raw.close_connection(guid), unless the peer is closed *)
HangUp(s, notify) ==
    IF closed THEN UNCHANGED rawVars ELSE RawCloseConnection(Guid(s), notify)

PumpReturns ==
    /\ pumpPc' = "check"
    /\ packet' = None /\ popped' = None /\ found' = None

PumpGoesTo(step) == pumpPc' = step /\ UNCHANGED <<packet, popped, found>>

-----------------------------------------------------------------------------
(* The pump: _pump_loop and Router.route. *)

PumpChecks_Forever ==
    /\ pumpPc = "check"
    /\ PumpGoesTo("receive")
    /\ UNCHANGED <<rawVars, tableVars, objectVars, acceptQueue, closeVars>>

PumpChecks ==
    /\ pumpPc = "check"
    /\ PumpGoesTo(IF closed THEN "exited" ELSE "receive")
    /\ UNCHANGED <<rawVars, tableVars, objectVars, acceptQueue, closeVars>>

(* Nothing queued: sleep a millisecond and go round again. *)
PumpIdles ==
    /\ pumpPc = "receive" /\ packets = <<>>
    /\ PumpReturns
    /\ UNCHANGED <<rawVars, tableVars, objectVars, acceptQueue, closeVars>>

PumpReceives_Unfiltered ==
    /\ pumpPc = "receive"
    /\ packets # <<>>
    /\ RawReceive(Head(packets))
    /\ pumpPc' = Route(Head(packets).id) /\ packet' = Head(packets)
    /\ UNCHANGED <<popped, found, tableVars, objectVars, acceptQueue, closeVars>>

PumpReceives ==
    /\ pumpPc = "receive"
    /\ packets # <<>>
    /\ RawReceive(Head(packets))
    /\ LET callback == Route(Head(packets).id) IN
         IF callback \in {"ignored", "pong"}
         THEN PumpReturns
         ELSE pumpPc' = callback /\ packet' = Head(packets)
              /\ UNCHANGED <<popped, found>>
    /\ UNCHANGED <<tableVars, objectVars, acceptQueue, closeVars>>

(* route raises: the packet is lost and _fail is next. *)
PumpCrashes ==
    /\ pumpPc = "receive"
    /\ packets # <<>>
    /\ RawReceive(Head(packets))
    /\ PumpGoesTo("crashed")
    /\ UNCHANGED <<tableVars, objectVars, acceptQueue, closeVars>>

(* incoming_connection *)

BuildConnection(s) ==
    /\ connState' = [connState EXCEPT ![s] = "open"]
    /\ connections' = [connections EXCEPT ![packet.from] = s]

IncomingInserts ==
    /\ pumpPc = "incoming_connection"
    /\ BuildConnection(packet.session)
    /\ PumpGoesTo("accept_put")
    /\ UNCHANGED <<rawVars, pendingConnects, evicted, pending, mailbox, acceptQueue, closeVars>>

IncomingQueues_NotWhenClosed ==
    /\ pumpPc = "accept_put"
    /\ acceptQueue' = IF closed THEN acceptQueue ELSE Append(acceptQueue, packet.session)
    /\ PumpReturns
    /\ UNCHANGED <<rawVars, tableVars, objectVars, closeVars>>

IncomingQueues ==
    /\ pumpPc = "accept_put"
    /\ acceptQueue' = Append(acceptQueue, packet.session)
    /\ PumpReturns
    /\ UNCHANGED <<rawVars, tableVars, objectVars, closeVars>>

(* connect_succeeded and connect_failed; _pop_pending *)

PumpPopsPending_Keeps ==
    /\ pumpPc \in {"connect_succeeded", "connect_failed"}
    /\ IF pendingConnects[packet.from] = None
       THEN PumpReturns
       ELSE /\ popped' = pendingConnects[packet.from]
            /\ pumpPc' = IF pumpPc = "connect_succeeded"
                         THEN "succeeded_insert" ELSE "failed_set"
            /\ UNCHANGED <<packet, found>>
    /\ UNCHANGED <<rawVars, tableVars, objectVars, acceptQueue, closeVars>>

PumpPopsPending ==
    /\ pumpPc \in {"connect_succeeded", "connect_failed"}
    /\ pendingConnects' = [pendingConnects EXCEPT ![packet.from] = None]
    /\ IF pendingConnects[packet.from] = None
       THEN PumpReturns
       ELSE /\ popped' = pendingConnects[packet.from]
            /\ pumpPc' = IF pumpPc = "connect_succeeded"
                         THEN "succeeded_insert" ELSE "failed_set"
            /\ UNCHANGED <<packet, found>>
    /\ UNCHANGED <<rawVars, connections, evicted, objectVars, acceptQueue, closeVars>>

SucceededInserts ==
    /\ pumpPc = "succeeded_insert"
    /\ BuildConnection(packet.session)
    /\ PumpGoesTo("succeeded_publish")
    /\ UNCHANGED <<rawVars, pendingConnects, evicted, pending, mailbox, acceptQueue, closeVars>>

SucceededPublishes ==
    /\ pumpPc = "succeeded_publish"
    /\ pending' = [pending EXCEPT ![popped].connection = packet.session]
    /\ PumpGoesTo("set_event")
    /\ UNCHANGED <<rawVars, tableVars, connState, mailbox, acceptQueue, closeVars>>

SucceededSets ==
    /\ pumpPc = "set_event"
    /\ pending' = [pending EXCEPT ![popped].event = TRUE]
    /\ PumpReturns
    /\ UNCHANGED <<rawVars, tableVars, connState, mailbox, acceptQueue, closeVars>>

(* reason is read after the event only, so both writes are one step. *)
FailedSets ==
    /\ pumpPc = "failed_set"
    /\ pending' = [pending EXCEPT ![popped] = [@ EXCEPT !.reason = packet.id, !.event = TRUE]]
    /\ PumpReturns
    /\ UNCHANGED <<rawVars, tableVars, connState, mailbox, acceptQueue, closeVars>>

(* message and _overflow *)

MessageLooksUp ==
    /\ pumpPc = "message"
    /\ IF connections[packet.from] = None
       THEN PumpReturns
       ELSE /\ found' = connections[packet.from]
            /\ pumpPc' = "deliver"
            /\ UNCHANGED <<packet, popped>>
    /\ UNCHANGED <<rawVars, tableVars, objectVars, acceptQueue, closeVars>>

MessagePuts ==
    /\ pumpPc = "deliver"
    /\ IF Full(mailbox[found])
       THEN PumpGoesTo("overflow_pop") /\ UNCHANGED mailbox
       ELSE /\ mailbox' = [mailbox EXCEPT ![found] = PutItem(@, packet.session)]
            /\ PumpReturns
    /\ UNCHANGED <<rawVars, tableVars, pending, connState, acceptQueue, closeVars>>

OverflowPops ==
    /\ pumpPc = "overflow_pop"
    /\ PopConnection(found)
    /\ PumpGoesTo("overflow_mark")
    /\ UNCHANGED <<rawVars, pendingConnects, objectVars, acceptQueue, closeVars>>

OverflowMarks_Missing ==
    /\ pumpPc = "overflow_mark"
    /\ PumpGoesTo("overflow_hangup")
    /\ UNCHANGED <<rawVars, tableVars, objectVars, acceptQueue, closeVars>>

OverflowMarks ==
    /\ pumpPc = "overflow_mark"
    /\ MarkClosed(found)
    /\ PumpGoesTo("overflow_hangup")
    /\ UNCHANGED <<rawVars, tableVars, pending, mailbox, acceptQueue, closeVars>>

OverflowHangsUp ==
    /\ pumpPc = "overflow_hangup"
    /\ HangUp(found, TRUE)
    /\ PumpGoesTo("overflow_mailbox")
    /\ UNCHANGED <<tableVars, objectVars, acceptQueue, closeVars>>

OverflowClosesMailbox ==
    /\ pumpPc = "overflow_mailbox"
    /\ CloseMailbox(found, "ConnectionClosedError")
    /\ PumpReturns
    /\ UNCHANGED <<rawVars, tableVars, pending, connState, acceptQueue, closeVars>>

(* disconnected *)

DisconnectedPops_SkipsMark ==
    /\ pumpPc = "disconnected"
    /\ connections' = [connections EXCEPT ![packet.from] = None]
    /\ IF connections[packet.from] = None
       THEN PumpReturns
       ELSE /\ found' = connections[packet.from]
            /\ pumpPc' = "disconnected_mailbox"
            /\ UNCHANGED <<packet, popped>>
    /\ UNCHANGED <<rawVars, pendingConnects, evicted, objectVars, acceptQueue, closeVars>>

DisconnectedPops ==
    /\ pumpPc = "disconnected"
    /\ connections' = [connections EXCEPT ![packet.from] = None]
    /\ IF connections[packet.from] = None
       THEN PumpReturns
       ELSE /\ found' = connections[packet.from]
            /\ pumpPc' = "disconnected_mark"
            /\ UNCHANGED <<packet, popped>>
    /\ UNCHANGED <<rawVars, pendingConnects, evicted, objectVars, acceptQueue, closeVars>>

DisconnectedMarks ==
    /\ pumpPc = "disconnected_mark"
    /\ MarkClosed(found)
    /\ PumpGoesTo("disconnected_mailbox")
    /\ UNCHANGED <<rawVars, tableVars, pending, mailbox, acceptQueue, closeVars>>

DisconnectedClosesMailbox ==
    /\ pumpPc = "disconnected_mailbox"
    /\ CloseMailbox(found, IF packet.id = ID_DISCONNECTION_NOTIFICATION
                           THEN "ConnectionClosedOK" ELSE "ConnectionClosedError")
    /\ PumpReturns
    /\ UNCHANGED <<rawVars, tableVars, pending, connState, acceptQueue, closeVars>>

-----------------------------------------------------------------------------
(* The teardown: _begin_close, join, shutdown, _finish_close. *)

TableOf(t) == {t[r] : r \in Remotes} \ {None}

BeginClose_KeepsPendings(next) ==
    /\ ~closed
    /\ closed' = TRUE
    /\ closePhase' = next
    /\ closeConns' = TableOf(connections)
    /\ closePends' = TableOf(pendingConnects)
    /\ connections' = [r \in Remotes |-> None]
    /\ UNCHANGED <<pendingConnects, marked, evicted>>

BeginClose_ClearsFirst(next) ==
    /\ ~closed
    /\ closed' = TRUE
    /\ closePhase' = next
    /\ closeConns' = {}
    /\ closePends' = TableOf(pendingConnects)
    /\ connections' = [r \in Remotes |-> None]
    /\ pendingConnects' = [r \in Remotes |-> None]
    /\ UNCHANGED <<marked, evicted>>

BeginClose_ForgetsPendings(next) ==
    /\ ~closed
    /\ closed' = TRUE
    /\ closePhase' = next
    /\ closeConns' = TableOf(connections)
    /\ closePends' = {}
    /\ connections' = [r \in Remotes |-> None]
    /\ pendingConnects' = [r \in Remotes |-> None]
    /\ UNCHANGED <<marked, evicted>>

(* _begin_close; a second caller finds _closed set and does nothing. *)
BeginClose(next) ==
    /\ ~closed
    /\ closed' = TRUE
    /\ closePhase' = next
    /\ closeConns' = TableOf(connections)
    /\ closePends' = TableOf(pendingConnects)
    /\ connections' = [r \in Remotes |-> None]
    /\ pendingConnects' = [r \in Remotes |-> None]
    /\ UNCHANGED <<marked, evicted>>

PeerCloses ==
    /\ BeginClose("join")
    /\ UNCHANGED <<rawVars, objectVars, acceptQueue, pumpVars>>

(* _fail begins the teardown from the pump, or leaves it to the closer. *)
PumpFails ==
    /\ pumpPc = "crashed"
    /\ \/ /\ closed
          /\ PumpGoesTo("exited")
          /\ UNCHANGED <<tableVars, closeVars>>
       \/ /\ BeginClose("shutdown")
          /\ PumpGoesTo("failing")
    /\ UNCHANGED <<rawVars, objectVars, acceptQueue>>

CloserJoinsPump ==
    /\ closePhase = "join" /\ pumpPc = "exited"
    /\ closePhase' = "shutdown"
    /\ UNCHANGED <<rawVars, tableVars, objectVars, acceptQueue, pumpVars,
                   closed, closeConns, closePends, marked>>

CloserShutsDown ==
    /\ closePhase = "shutdown"
    /\ RawShutdown
    /\ closePhase' = "finish"
    /\ UNCHANGED <<tableVars, objectVars, acceptQueue, pumpVars,
                   closed, closeConns, closePends, marked>>

FinishMarks(s) ==
    /\ closePhase = "finish" /\ marked = None
    /\ s \in closeConns
    /\ MarkClosed(s)
    /\ marked' = s
    /\ closeConns' = closeConns \ {s}
    /\ UNCHANGED <<rawVars, tableVars, pending, mailbox, acceptQueue, pumpVars,
                   closed, closePhase, closePends>>

FinishClosesMailbox ==
    /\ closePhase = "finish" /\ marked # None
    /\ CloseMailbox(marked, IF pumpPc = "failing" THEN "ConnectionClosedError"
                                                  ELSE "ConnectionClosedOK")
    /\ marked' = None
    /\ UNCHANGED <<rawVars, tableVars, pending, connState, acceptQueue, pumpVars,
                   closed, closePhase, closeConns, closePends>>

FinishFailsPending_NoEvent(c) ==
    /\ closePhase = "finish" /\ marked = None /\ closeConns = {}
    /\ c \in closePends
    /\ pending' = [pending EXCEPT ![c].reason = ID_CONNECTION_ATTEMPT_FAILED]
    /\ closePends' = closePends \ {c}
    /\ UNCHANGED <<rawVars, tableVars, connState, mailbox, acceptQueue, pumpVars,
                   closed, closePhase, closeConns, marked>>

FinishFailsPending(c) ==
    /\ closePhase = "finish" /\ marked = None /\ closeConns = {}
    /\ c \in closePends
    /\ pending' = [pending EXCEPT ![c] = [@ EXCEPT !.reason = ID_CONNECTION_ATTEMPT_FAILED,
                                                    !.event = TRUE]]
    /\ closePends' = closePends \ {c}
    /\ UNCHANGED <<rawVars, tableVars, connState, mailbox, acceptQueue, pumpVars,
                   closed, closePhase, closeConns, marked>>

(* The sentinel that wakes accept(); a crashed pump then re-raises. *)
FinishQueuesSentinel ==
    /\ closePhase = "finish" /\ marked = None
    /\ closeConns = {} /\ closePends = {}
    /\ acceptQueue' = Append(acceptQueue, None)
    /\ closePhase' = "done"
    /\ PumpGoesTo("exited")
    /\ UNCHANGED <<rawVars, tableVars, objectVars, closed, closeConns, closePends, marked>>

-----------------------------------------------------------------------------
(* The pump thread, but for the crash, which nothing obliges to happen. *)
PumpStep ==
    \/ PumpChecks \/ PumpIdles \/ PumpReceives
    \/ IncomingInserts \/ IncomingQueues
    \/ PumpPopsPending \/ SucceededInserts \/ SucceededPublishes \/ SucceededSets
    \/ FailedSets
    \/ MessageLooksUp \/ MessagePuts
    \/ OverflowPops \/ OverflowMarks \/ OverflowHangsUp \/ OverflowClosesMailbox
    \/ DisconnectedPops \/ DisconnectedMarks \/ DisconnectedClosesMailbox
    \/ PumpFails

(* The thread that tears the peer down, from the moment it began. *)
CloserStep ==
    \/ CloserJoinsPump \/ CloserShutsDown
    \/ \E s \in Sessions : FinishMarks(s)
    \/ FinishClosesMailbox
    \/ \E c \in Calls : FinishFailsPending(c)
    \/ FinishQueuesSentinel

RakNetMoves ==
    /\ RakNetStep
    /\ UNCHANGED <<tableVars, objectVars, acceptQueue, pumpVars, closeVars>>
=============================================================================
