-------------------------------- MODULE Peer --------------------------------
(***************************************************************************)
(* The threads that use a sync Peer: connect() calls, threads that loop on *)
(* accept() as serve_forever does, and the owner of each connection (the   *)
(* handler thread of _run_handler, or whoever connect() returned to),      *)
(* together with the pump, the teardown and RakNet of PeerCore.            *)
(*                                                                         *)
(* pc gives the step each thread is at.  A thread that owns a connection   *)
(* is named by its session.  Threads die with pc "raised", "returned",     *)
(* "timedout" (a connect that raised TimeoutError) or "ended".             *)
(***************************************************************************)
EXTENDS PeerCore

CONSTANTS Acceptors,     \* threads that call accept()
          Target         \* the remote each connect() call dials

ASSUME PeerAssumption ==
    /\ Target \in [Calls -> Remotes]
    /\ Acceptors \cap (Calls \cup Sessions) = {}
    /\ None \notin Acceptors

VARIABLE pc

vars == <<coreVars, pc>>

Threads == Calls \cup Sessions \cup Acceptors

CallPcs == {"idle", "register", "dial", "undial", "wait", "abandon", "cancel",
            "rewait", "returned", "raised", "timedout"}
ClosePcs == {"close", "close_pop", "close_mark", "close_hangup", "close_mailbox"}
OwnerPcs == {"idle", "using", "ended"}
AcceptorPcs == {"idle", "get", "reput", "raised"}

ThreadTypeOK ==
    /\ pc \in [Threads -> CallPcs \cup ClosePcs \cup OwnerPcs \cup AcceptorPcs]
    /\ \A c \in Calls : pc[c] \in CallPcs \cup ClosePcs
    /\ \A s \in Sessions : pc[s] \in OwnerPcs \cup ClosePcs
    /\ \A a \in Acceptors : pc[a] \in AcceptorPcs

TypeOK == CoreTypeOK /\ ThreadTypeOK

Init == CoreInit /\ pc = [t \in Threads |-> "idle"]

Goes(t, step) == pc' = [pc EXCEPT ![t] = step]

-----------------------------------------------------------------------------
(* connect() and the helpers it calls *)

(* _start_connect, up to the lock: a closed peer, too few attempts and a   *)
(* host that does not resolve all raise.                                   *)
CallBegins(c) ==
    /\ pc[c] = "idle"
    /\ \/ ~closed /\ Goes(c, "register")
       \/ Goes(c, "raised")
    /\ UNCHANGED coreVars

CallRegisters(c) ==
    /\ pc[c] = "register"
    /\ \/ closed /\ Goes(c, "raised") /\ UNCHANGED pendingConnects
       \/ /\ ~closed
          /\ pendingConnects' = [pendingConnects EXCEPT ![Target[c]] = c]
          /\ Goes(c, "dial")
    /\ UNCHANGED <<rawVars, connections, evicted, objectVars, acceptQueue, pumpVars, closeVars>>

CallDials(c) ==
    /\ pc[c] = "dial"
    /\ RawConnect(Target[c])
    /\ Goes(c, IF ConnectResult(Target[c]) = "CONNECTION_ATTEMPT_STARTED"
               THEN "wait" ELSE "undial")
    /\ UNCHANGED <<tableVars, objectVars, acceptQueue, pumpVars, closeVars>>

(* pop(key): the entry of another call to the same address goes as well. *)
PopPendingOf(c) ==
    /\ pendingConnects' = [pendingConnects EXCEPT ![Target[c]] = None]
    /\ UNCHANGED <<rawVars, connections, evicted, objectVars, acceptQueue, pumpVars, closeVars>>

CallUndials(c) ==
    /\ pc[c] = "undial"
    /\ PopPendingOf(c)
    /\ Goes(c, "raised")

(* _finish_connect *)
CallFinishes(c) ==
    /\ pc[c] = "wait" /\ pending[c].event
    /\ \/ /\ pending[c].reason # None
          /\ Goes(c, "raised")
       \/ /\ pending[c].reason = None /\ pending[c].connection # None
          /\ pc' = [pc EXCEPT ![c] = "returned", ![pending[c].connection] = "using"]
    /\ UNCHANGED coreVars

CallTimesOut(c) ==
    /\ pc[c] = "wait" /\ ~pending[c].event
    /\ Goes(c, "abandon")
    /\ UNCHANGED coreVars

CallAbandons(c) ==
    /\ pc[c] = "abandon"
    /\ PopPendingOf(c)
    /\ Goes(c, IF pendingConnects[Target[c]] = None THEN "rewait" ELSE "cancel")

CallCancels(c) ==
    /\ pc[c] = "cancel"
    /\ RawCancelConnectionAttempt(Target[c])
    /\ Goes(c, "timedout")
    /\ UNCHANGED <<tableVars, objectVars, acceptQueue, pumpVars, closeVars>>

CallRewaits_NoReap(c) ==
    /\ pc[c] = "rewait" /\ pending[c].event
    /\ Goes(c, "timedout")
    /\ UNCHANGED coreVars

CallRewaits(c) ==
    /\ pc[c] = "rewait" /\ pending[c].event
    /\ Goes(c, IF pending[c].connection = None THEN "timedout" ELSE "close")
    /\ UNCHANGED coreVars

-----------------------------------------------------------------------------
(* Connection.close, by the owner of a connection or by a connect() call   *)
(* that gives back the one it did not wait for.                            *)

Closing(t) == IF t \in Calls THEN pending[t].connection ELSE t

AfterClose(t) == IF t \in Calls THEN "timedout" ELSE "ended"

CloseChecks(t) ==
    /\ pc[t] = "close"
    /\ Goes(t, IF connState[Closing(t)] = "closed" THEN AfterClose(t) ELSE "close_pop")
    /\ UNCHANGED coreVars

ClosePops(t) ==
    /\ pc[t] = "close_pop"
    /\ PopConnection(Closing(t))
    /\ Goes(t, "close_mark")
    /\ UNCHANGED <<rawVars, pendingConnects, objectVars, acceptQueue, pumpVars, closeVars>>

CloseMarks(t) ==
    /\ pc[t] = "close_mark"
    /\ MarkClosed(Closing(t))
    /\ Goes(t, "close_hangup")
    /\ UNCHANGED <<rawVars, tableVars, pending, mailbox, acceptQueue, pumpVars, closeVars>>

(* notify is the owner's argument; the reaper leaves it at True. *)
CloseHangsUp(t) ==
    /\ pc[t] = "close_hangup"
    /\ \E notify \in IF t \in Calls THEN {TRUE} ELSE BOOLEAN : HangUp(Closing(t), notify)
    /\ Goes(t, "close_mailbox")
    /\ UNCHANGED <<tableVars, objectVars, acceptQueue, pumpVars, closeVars>>

CloseClosesMailbox(t) ==
    /\ pc[t] = "close_mailbox"
    /\ CloseMailbox(Closing(t), "ConnectionClosedOK")
    /\ Goes(t, AfterClose(t))
    /\ UNCHANGED <<rawVars, tableVars, pending, connState, acceptQueue, pumpVars, closeVars>>

CloseStep(t) ==
    CloseChecks(t) \/ ClosePops(t) \/ CloseMarks(t) \/ CloseHangsUp(t) \/ CloseClosesMailbox(t)

-----------------------------------------------------------------------------
(* The owner of a connection: recv() until ConnectionClosed, or close().   *)

OwnerReceives(s) ==
    /\ pc[s] = "using"
    /\ mailbox[s].items # <<>>
    /\ mailbox' = [mailbox EXCEPT ![s] = TakeItem(@)]
    /\ UNCHANGED <<rawVars, tableVars, pending, connState, acceptQueue, pumpVars, closeVars, pc>>

OwnerSeesEnd(s) ==
    /\ pc[s] = "using"
    /\ mailbox[s].items = <<>> /\ mailbox[s].exc # None
    /\ Goes(s, "close")
    /\ UNCHANGED coreVars

OwnerCloses(s) ==
    /\ pc[s] = "using"
    /\ Goes(s, "close")
    /\ UNCHANGED coreVars

-----------------------------------------------------------------------------
(* accept(), in a loop *)

AcceptBegins(a) ==
    /\ pc[a] = "idle"
    /\ Goes(a, IF closed THEN "raised" ELSE "get")
    /\ UNCHANGED coreVars

AcceptGets(a) ==
    /\ pc[a] = "get"
    /\ acceptQueue # <<>>
    /\ acceptQueue' = Tail(acceptQueue)
    /\ IF Head(acceptQueue) = None
       THEN Goes(a, "reput")
       ELSE pc' = [pc EXCEPT ![a] = "idle", ![Head(acceptQueue)] = "using"]
    /\ UNCHANGED <<rawVars, tableVars, objectVars, pumpVars, closeVars>>

AcceptTimesOut(a) ==
    /\ pc[a] = "get"
    /\ acceptQueue = <<>>
    /\ Goes(a, "idle")
    /\ UNCHANGED coreVars

AcceptReputs_Swallows(a) ==
    /\ pc[a] = "reput"
    /\ Goes(a, "raised")
    /\ UNCHANGED coreVars

(* The sentinel goes back for the next accept(). *)
AcceptReputs(a) ==
    /\ pc[a] = "reput"
    /\ acceptQueue' = Append(acceptQueue, None)
    /\ Goes(a, "raised")
    /\ UNCHANGED <<rawVars, tableVars, objectVars, pumpVars, closeVars>>

-----------------------------------------------------------------------------
(* What a call does until something stops it or it has to wait; timeouts   *)
(* and voluntary closes are left to chance.                                *)
CallStep(c) ==
    \/ CallBegins(c) \/ CallRegisters(c) \/ CallDials(c) \/ CallUndials(c)
    \/ CallFinishes(c) \/ CallAbandons(c) \/ CallCancels(c) \/ CallRewaits(c)
    \/ CloseStep(c)

OwnerStep(s) == OwnerReceives(s) \/ OwnerSeesEnd(s) \/ CloseStep(s)

AcceptorStep(a) == AcceptBegins(a) \/ AcceptGets(a) \/ AcceptReputs(a)

Next ==
    \/ RakNetMoves /\ UNCHANGED pc
    \/ PumpStep /\ UNCHANGED pc
    \/ PumpCrashes /\ UNCHANGED pc
    \/ PeerCloses /\ UNCHANGED pc
    \/ CloserStep /\ UNCHANGED pc
    \/ \E c \in Calls : CallStep(c) \/ CallTimesOut(c)
    \/ \E s \in Sessions : OwnerStep(s) \/ OwnerCloses(s)
    \/ \E a \in Acceptors : AcceptorStep(a) \/ AcceptTimesOut(a)

Spec == Init /\ [][Next]_vars

(* Every thread that can run is run.  RakNet answers every attempt: it     *)
(* makes a bounded number of tries and then gives up, with a packet.       *)
Answers(r) == RemoteRejects(r) \/ \E s \in Sessions : RemoteAccepts(r, s)

Fairness ==
    /\ WF_vars(PumpStep /\ UNCHANGED pc)
    /\ WF_vars(CloserStep /\ UNCHANGED pc)
    /\ \A c \in Calls : WF_vars(CallStep(c))
    /\ \A s \in Sessions : WF_vars(OwnerStep(s))
    /\ \A a \in Acceptors : WF_vars(AcceptorStep(a))
    /\ \A r \in Remotes : WF_vars(RakNetMoves /\ Answers(r) /\ UNCHANGED pc)

FairSpec == Spec /\ Fairness

-----------------------------------------------------------------------------
(* Safety *)

(* A pending connect whose event is set has been resolved one way: it has  *)
(* a connection or a reason, never both and never neither, whichever of    *)
(* the pump, the teardown and the timeout got to it (the assert of         *)
(* _finish_connect, _peer.py:409, is the "never neither").                 *)
ResolvedExactlyOnce ==
    \A c \in Calls : pending[c].event =>
        ((pending[c].connection = None) # (pending[c].reason = None))

(* Nobody touches a pending connect once its event is set, though the pump *)
(* and the teardown keep references to it outside the lock.                *)
ResolutionIsFinal ==
    [][\A c \in Calls : pending[c].event => pending'[c] = pending[c]]_vars

(* A connection whose recv() can raise ConnectionClosed says it is not     *)
(* connected (the tests assert it right after the exception,               *)
(* test_sync.py:133 and 186).                                              *)
ClosedMailboxMeansDisconnected ==
    \A s \in Sessions : mailbox[s].exc # None => connState[s] = "closed"

(* A connect() blocked on an unset event is still known to the thread that *)
(* has to set it: it is in the table (while it may time out), or the pump  *)
(* has it, or the teardown has it.                                         *)
WaiterIsReachable ==
    \A c \in Calls :
        pc[c] \in {"wait", "abandon", "rewait"} /\ ~pending[c].event =>
            \/ pc[c] # "rewait" /\ pendingConnects[Target[c]] = c
            \/ popped = c
            \/ c \in closePends

(* Some thread took s from the table and is about to set its _closed. *)
BeingClosed(s) ==
    \/ \E t \in Calls \cup Sessions : pc[t] = "close_mark" /\ Closing(t) = s
    \/ pumpPc \in {"overflow_mark", "disconnected_mark"} /\ found = s

(* While the peer is open, a connection that says it is connected is in    *)
(* the table (so that the pump can feed it and end it), unless a thread is *)
(* closing it or the close of an older connection of its guid removed it.  *)
LiveIsRegistered ==
    \A s \in Sessions : connState[s] = "open" /\ ~closed =>
        connections[Guid(s)] = s \/ BeingClosed(s) \/ s \in evicted

(* Connections that a finished close() left connected for ever. *)
Orphans == {s \in Sessions : connState[s] = "open" /\ ~BeingClosed(s) /\ s \notin evicted}

(* The teardown misses at most the one connection the pump was inserting   *)
(* when the snapshot was taken.                                            *)
AtMostOneOrphan == closePhase = "done" => Cardinality(Orphans) <= 1

Opening(p, s) == p # None /\ p.id \in OpeningIds /\ p.session = s

(* RakNet holds an open session that no Connection stands for, nor will. *)
Zombie(r) ==
    /\ raw[r] = "open" /\ connState[session[r]] = "none"
    /\ ~Opening(packet, session[r])
    /\ \A i \in DOMAIN packets : ~Opening(packets[i], session[r])

(* Only a connect() that timed out, or the end of the pump, can leave an   *)
(* established session behind without a Connection.                        *)
ZombieOnlyAfterTimeout ==
    \A r \in Remotes : Zombie(r) =>
        \/ closed \/ pumpPc = "crashed"
        \/ \E c \in Calls : Target[c] = r /\ pc[c] \in {"cancel", "timedout"}

(* No connection is left open with nobody to close it: it has an owner,    *)
(* or it is on its way to one through the accept queue or through the      *)
(* connect() call it was made for, however that call ends.                 *)
EveryConnectionHasAHolder ==
    \A s \in Sessions : connState[s] = "open" =>
        \/ pc[s] # "idle"
        \/ \E i \in DOMAIN acceptQueue : acceptQueue[i] = s
        \/ pumpPc \in {"accept_put", "succeeded_publish"} /\ packet.session = s
        \/ \E c \in Calls : pending[c].connection = s /\ pc[c] \notin {"raised", "timedout"}

-----------------------------------------------------------------------------
(* Liveness *)

(* close() joins the pump, tears everything down and returns. *)
CloseCompletes == closed ~> closePhase = "done"

(* Closing the peer ends every accept(), however many threads wait. *)
AcceptorsWake == \A a \in Acceptors : closed ~> pc[a] = "raised"

(* connect() returns or raises, also without a timeout and also when its   *)
(* timeout races with the answer.                                          *)
ConnectReturns ==
    \A c \in Calls : pc[c] = "wait" ~> pc[c] \in {"returned", "raised", "timedout"}

-----------------------------------------------------------------------------
(* What a comment, a test or the README says and the code does not keep.   *)

(* "The pump resolved the attempt between our timeout and the pop; it is   *)
(* committed to set the event" (_peer.py:295): whoever found the table     *)
(* without its entry has an event that some thread is about to set.        *)
PumpIsCommitted ==
    \A c \in Calls : pc[c] = "rewait" /\ ~pending[c].event =>
        popped = c \/ c \in closePends

(* "Returns True if the attempt was still pending (we cancelled it)"       *)
(* (_peer.py:397): a cancelled attempt leaves no session behind.           *)
CancelledAttemptIsGone ==
    \A c \in Calls : pc[c] = "timedout" => ~Zombie(Target[c])

(* "iterates until the peer disconnects" (README.md:47): the loop over a   *)
(* connection ends, so a close() that has run to its end left none of the  *)
(* peer's connections connected.                                           *)
CloseEndsEveryConnection ==
    closePhase = "done" => \A s \in Sessions : connState[s] # "open"

(* The same loop when the remote leaves and the peer stays open. *)
IterationEnds ==
    \A s \in Sessions :
        (connState[s] = "open" /\ session[Guid(s)] # s) ~>
            (mailbox[s].exc # None \/ closed)
=============================================================================
