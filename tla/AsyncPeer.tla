------------------------------ MODULE AsyncPeer ------------------------------
(***************************************************************************)
(* The asyncio Peer, a subclass of the sync one: the tables, the pump and  *)
(* the teardown are those of PeerCore, and a step of Peer is used as it    *)
(* stands where the method is inherited.  What differs is that connect(),  *)
(* accept(), close() and the owner of a connection are tasks, that a task  *)
(* can be cancelled at each await, and that what a task gave to a worker   *)
(* thread (_start_connect, the join of the pump, raw.shutdown) goes on     *)
(* without it.                                                             *)
(*                                                                         *)
(* A task runs from one await to the next before another task of the loop  *)
(* does; the pump and the workers run at any time.  What a thread hands to *)
(* the loop with call_soon_threadsafe takes effect when a task next looks: *)
(* the loop runs callbacks in order, and a task may look late.             *)
(***************************************************************************)
EXTENDS Peer

(* pc[c] is the step of the worker of a connect() call until the task goes *)
(* on itself.                                                              *)
VARIABLES task,        \* how far the task of each connect() call is
          closeLost    \* the task in close() was cancelled

asyncVars == <<vars, task, closeLost>>

(* "unreaped": cancelled after the pump took the entry and before it       *)
(* assigned the connection.                                                *)
TaskStates == {"starting", "waiting", "cancelled", "unreaped"}

AsyncTypeOK ==
    /\ TypeOK
    /\ task \in [Calls -> TaskStates]
    /\ closeLost \in BOOLEAN

AsyncInit ==
    /\ Init
    /\ task = [c \in Calls |-> "starting"]
    /\ closeLost = FALSE

TaskGoes(c, state) == task' = [task EXCEPT ![c] = state] /\ UNCHANGED closeLost

SameTasks == UNCHANGED <<task, closeLost>>

(* Between two awaits. *)
SectionPcs == {"abandon", "cancel", "rewait", "reput"} \cup ClosePcs

(* No task but t is between two awaits; the teardown is one, unless it is  *)
(* that of a crashed pump, which runs in its own thread.                   *)
LoopIsFree(t) ==
    /\ marked = None \/ pumpPc = "failing"
    /\ \A u \in Threads \ {t} : pc[u] \notin SectionPcs

-----------------------------------------------------------------------------
(* connect() *)

(* _start_connect in a worker thread *)
WorkerStep(c) ==
    /\ CallBegins(c) \/ CallRegisters(c) \/ CallDials(c) \/ CallUndials(c)
    /\ SameTasks

(* The task gets the result of its worker and waits for the event. *)
ConnectStarted(c) ==
    /\ task[c] = "starting" /\ pc[c] = "wait"
    /\ LoopIsFree(c)
    /\ TaskGoes(c, "waiting")
    /\ UNCHANGED vars

(* Cancelled before it has the result: nobody waits for the attempt. *)
StartIsCancelled(c) ==
    /\ task[c] = "starting" /\ pc[c] \in {"register", "dial", "undial", "wait"}
    /\ TaskGoes(c, "cancelled")
    /\ UNCHANGED vars

ConnectFinishes(c) ==
    /\ task[c] = "waiting" /\ LoopIsFree(c)
    /\ CallFinishes(c)
    /\ SameTasks

(* CancelledError out of event.wait(), perhaps after the event was set. *)
WaitIsCancelled(c) ==
    /\ task[c] = "waiting" /\ pc[c] = "wait"
    /\ LoopIsFree(c)
    /\ Goes(c, "abandon")
    /\ SameTasks /\ UNCHANGED coreVars

ConnectReaps_Never(c) ==
    /\ pc[c] = "rewait"
    /\ Goes(c, "timedout")
    /\ TaskGoes(c, IF pending[c].connection = None THEN "unreaped" ELSE "waiting")
    /\ UNCHANGED coreVars

(* The pump has the entry: what it has already assigned is closed. *)
ConnectReaps(c) ==
    /\ pc[c] = "rewait"
    /\ IF pending[c].connection = None
       THEN Goes(c, "timedout") /\ TaskGoes(c, "unreaped")
       ELSE Goes(c, "close") /\ SameTasks
    /\ UNCHANGED coreVars

ConnectCleansUp(c) ==
    \/ ConnectReaps(c)
    \/ (CallAbandons(c) \/ CallCancels(c) \/ CloseStep(c)) /\ SameTasks

-----------------------------------------------------------------------------
(* The task that owns a connection, and the tasks that loop on accept() *)

HandlerStep(s) ==
    /\ LoopIsFree(s)
    /\ OwnerStep(s)
    /\ SameTasks

(* The handler returns, raises or is cancelled. *)
HandlerEnds(s) ==
    /\ LoopIsFree(s)
    /\ OwnerCloses(s)
    /\ SameTasks

AcceptStep(a) ==
    /\ LoopIsFree(a)
    /\ AcceptorStep(a)
    /\ SameTasks

(* A cancelled get() has taken nothing, also if an item is there. *)
AcceptIsCancelled(a) ==
    /\ pc[a] = "get"
    /\ Goes(a, "idle")
    /\ SameTasks /\ UNCHANGED coreVars

-----------------------------------------------------------------------------
(* close() *)

CloseBegins ==
    /\ LoopIsFree(None)
    /\ PeerCloses
    /\ SameTasks /\ UNCHANGED pc

(* The snapshot of _begin_close goes with the task; a worker that has      *)
(* begun raw.shutdown ends it all the same.                                *)
CloseIsCancelled ==
    /\ closePhase \in {"join", "shutdown"} /\ pumpPc # "failing"
    /\ closeLost' = TRUE
    /\ UNCHANGED <<vars, task>>

(* The teardown of the pump thread cannot be cancelled.  A finishing task  *)
(* marks a connection and closes its mailbox without an await.             *)
TeardownStep ==
    /\ \/ CloserShutsDown
       \/ /\ ~closeLost
          /\ CloserJoinsPump \/ FinishClosesMailbox
       \/ /\ ~closeLost
          /\ pumpPc = "failing" \/ LoopIsFree(None)
          /\ \/ \E s \in Sessions : FinishMarks(s)
             \/ \E c \in Calls : FinishFailsPending(c)
             \/ FinishQueuesSentinel
    /\ SameTasks /\ UNCHANGED pc

-----------------------------------------------------------------------------
ConnectStep(c) ==
    WorkerStep(c) \/ ConnectStarted(c) \/ ConnectFinishes(c) \/ ConnectCleansUp(c)

PumpRuns == PumpStep /\ SameTasks /\ UNCHANGED pc

AsyncNext ==
    \/ RakNetMoves /\ SameTasks /\ UNCHANGED pc
    \/ PumpRuns
    \/ PumpCrashes /\ SameTasks /\ UNCHANGED pc
    \/ CloseBegins \/ CloseIsCancelled \/ TeardownStep
    \/ \E c \in Calls : ConnectStep(c) \/ StartIsCancelled(c) \/ WaitIsCancelled(c)
    \/ \E s \in Sessions : HandlerStep(s) \/ HandlerEnds(s)
    \/ \E a \in Acceptors : AcceptStep(a) \/ AcceptIsCancelled(a)

AsyncSpec == AsyncInit /\ [][AsyncNext]_asyncVars

(* The loop runs every task that is ready, and the threads run; nobody has *)
(* to cancel anything.                                                     *)
AsyncFairness ==
    /\ WF_asyncVars(PumpRuns)
    /\ WF_asyncVars(TeardownStep)
    /\ \A c \in Calls : WF_asyncVars(ConnectStep(c))
    /\ \A s \in Sessions : WF_asyncVars(HandlerStep(s))
    /\ \A a \in Acceptors : WF_asyncVars(AcceptStep(a))

AsyncFairSpec == AsyncSpec /\ AsyncFairness

-----------------------------------------------------------------------------
(* Safety *)

(* The task of a connect() let go of the attempt before it could close the *)
(* connection: cancelled while the worker started the attempt, or while    *)
(* the pump was about to publish its result.                               *)
LetGo(c) == task[c] \in {"cancelled", "unreaped"}

(* A connection that is open has a task that will close it, or is on its   *)
(* way to one, however connect() is cancelled.  One that has none because  *)
(* its connect() had to let go stays in the table, where the pump can end  *)
(* it and close() finds it, as long as the peer is open and no close of an *)
(* older connection of its guid takes it away.                             *)
TaskHoldsConnection ==
    \A s \in Sessions : connState[s] = "open" =>
        \/ pc[s] # "idle"
        \/ \E i \in DOMAIN acceptQueue : acceptQueue[i] = s
        \/ pumpPc \in {"accept_put", "succeeded_publish"} /\ packet.session = s
        \/ \E c \in Calls :
               /\ pending[c].connection = s
               /\ \/ ~LetGo(c) /\ pc[c] \notin {"raised", "timedout"}
                  \/ /\ LetGo(c)
                     /\ \/ connections[Guid(s)] = s \/ closed
                        \/ BeingClosed(s) \/ s \in evicted

(* A task that waits for its event is known to the thread that has to set  *)
(* it, unless the close() that took it from the table was cancelled.       *)
TaskIsReachable ==
    \A c \in Calls :
        pc[c] = "wait" /\ task[c] = "waiting" /\ ~pending[c].event =>
            \/ pendingConnects[Target[c]] = c
            \/ popped = c
            \/ c \in closePends

-----------------------------------------------------------------------------
(* Liveness *)

(* A close(), or a crash of the pump, ends every connect() and every       *)
(* accept() that waits; a close() that is itself cancelled need not.       *)
CloseEndsEveryTask ==
    closed ~> \/ closeLost
              \/ /\ \A a \in Acceptors : pc[a] = "raised"
                 /\ \A c \in Calls : pc[c] = "wait" => task[c] = "cancelled"

-----------------------------------------------------------------------------
(* What a comment says and the code does not keep. *)

(* "False if the pump already resolved it (caller must reap any orphaned   *)
(* connection)" (_peer.py:397): a connect() that gave up its attempt, and  *)
(* is done, leaves no connection of it connected.                          *)
OrphanIsReaped ==
    \A c \in Calls :
        pc[c] = "timedout" /\ pending[c].connection # None =>
            connState[pending[c].connection] = "closed"
=============================================================================
