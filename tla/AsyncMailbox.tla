---------------------------- MODULE AsyncMailbox -----------------------------
(***************************************************************************)
(* The _AsyncMailbox of an asyncio connection.  The pump puts from its own *)
(* thread, anyone closes, and tasks of the event loop await get().  Both   *)
(* sides meet in the loop: put() and close() only schedule callbacks with  *)
(* call_soon_threadsafe, which the loop runs in order, and the end of the  *)
(* connection is an item, _CLOSED, of the queue the tasks take from.       *)
(*                                                                         *)
(* Code of the loop runs to its next await in one action.  Python switches *)
(* threads at calls only, so put() checks and counts in one action and     *)
(* schedules in another.  The loop is open for as long as there are tasks: *)
(* the RuntimeError of a closed loop, with nobody left to read, is left    *)
(* out.                                                                    *)
(***************************************************************************)
EXTENDS MailboxData, SequencesExt, FiniteSets

CONSTANTS Tasks,         \* tasks that await get(), one call after another
          MaxMessages,   \* messages put: a bound of the model
          MaxCloses      \* closes scheduled at one time: a bound of the model

ASSUME AsyncMailboxAssumption ==
    /\ None \notin Tasks
    /\ MaxMessages \in Nat
    /\ MaxCloses \in Nat \ {0}

VARIABLES size,          \* _size
          pump,          \* where the pump is in put()
          scheduled,     \* callbacks of the loop, oldest first
          queue,         \* _queue: message numbers and CLOSED
          exc,           \* _exc
          drained,       \* _drained
          getters,       \* the tasks asleep in _queue.get(), oldest first
          pc,            \* where each task is
          sent,          \* history: messages scheduled
          taken,         \* history: the last message a get() returned
          ended,         \* history: the reason of the first close()
          mark,          \* history: messages scheduled before it
          told           \* history: the reasons get() raised

vars == <<size, pump, scheduled, queue, exc, drained, getters, pc,
          sent, taken, ended, mark, told>>

pumpSide == <<size, pump, sent, ended, mark>>
loopSide == <<queue, exc, drained, getters, pc, taken, told>>

CLOSED == 0              \* messages are numbered from 1

(* put_nowait(item), or _close() with a reason *)
Callbacks == [item : 0 .. MaxMessages, exc : Reasons \cup {None}]

TypeOK ==
    /\ size \in 0 .. IF MaxQueue = None THEN MaxMessages ELSE MaxQueue
    /\ pump \in {"idle", "counted", "refused"}
    /\ scheduled \in Seq(Callbacks)
    /\ queue \in Seq(0 .. MaxMessages)
    /\ exc \in Reasons \cup {None}
    /\ drained \in BOOLEAN
    /\ getters \in Seq(Tasks)
    /\ pc \in [Tasks -> {"idle", "waiting", "woken"}]
    /\ sent \in 0 .. MaxMessages
    /\ taken \in 0 .. MaxMessages
    /\ ended \in Reasons \cup {None}
    /\ mark \in 0 .. MaxMessages
    /\ told \subseteq Reasons

Init ==
    /\ size = 0 /\ pump = "idle" /\ scheduled = <<>>
    /\ queue = <<>> /\ exc = None /\ drained = FALSE
    /\ getters = <<>> /\ pc = [t \in Tasks |-> "idle"]
    /\ sent = 0 /\ taken = 0 /\ ended = None /\ mark = 0 /\ told = {}

-----------------------------------------------------------------------------
(* put() and close(), in the pump's thread or another. *)

AtBound == MaxQueue # None /\ size >= MaxQueue

PutCounts_NoBound ==
    /\ pump = "idle" /\ sent < MaxMessages
    /\ size' = size + 1
    /\ pump' = "counted"
    /\ UNCHANGED <<scheduled, sent, ended, mark, loopSide>>

PutCounts ==
    /\ pump = "idle" /\ sent < MaxMessages
    /\ ~AtBound
    /\ size' = size + 1
    /\ pump' = "counted"
    /\ UNCHANGED <<scheduled, sent, ended, mark, loopSide>>

PutRefused ==
    /\ pump = "idle" /\ sent < MaxMessages
    /\ AtBound
    /\ pump' = "refused"
    /\ UNCHANGED <<size, scheduled, sent, ended, mark, loopSide>>

PutSchedules ==
    /\ pump = "counted"
    /\ pump' = "idle"
    /\ sent' = sent + 1
    /\ scheduled' = Append(scheduled, [item |-> sent + 1, exc |-> None])
    /\ UNCHANGED <<size, ended, mark, loopSide>>

Closes == {i \in 1 .. Len(scheduled) : scheduled[i].item = CLOSED}

Close(reason) ==
    /\ Cardinality(Closes) < MaxCloses
    /\ scheduled' = Append(scheduled, [item |-> CLOSED, exc |-> reason])
    /\ ended' = IF ended = None THEN reason ELSE ended
    /\ mark' = IF ended = None THEN sent ELSE mark
    /\ UNCHANGED <<size, sent, loopSide>>

(* After a refused put the pump closes, see Peer._overflow; every other    *)
(* close comes when it comes.                                              *)
Overflow == pump = "refused" /\ pump' = "idle" /\ Close("ConnectionClosedError")

CloseAtAnyTime == \E reason \in Reasons : Close(reason) /\ UNCHANGED pump

-----------------------------------------------------------------------------
(* The loop.  asyncio.Queue keeps its getters in a FIFO; put_nowait wakes  *)
(* the first of them, which stays out of the queue whether or not it then  *)
(* finds an item.                                                          *)

Rest(seq) == SubSeq(seq, 2, Len(seq))

WakesNext(threads) ==
    /\ pc' = [t \in Tasks |-> IF getters # <<>> /\ t = Head(getters) THEN "woken" ELSE threads[t]]
    /\ getters' = Rest(getters)

RunsPut(item) ==
    /\ item # CLOSED
    /\ queue' = Append(queue, item)
    /\ WakesNext(pc)
    /\ UNCHANGED exc

(* The first reason stays, and is enqueued once. *)
RunsClose(callback) ==
    /\ callback.item = CLOSED
    /\ IF exc = None
       THEN /\ exc' = callback.exc
            /\ queue' = Append(queue, CLOSED)
            /\ WakesNext(pc)
       ELSE UNCHANGED <<exc, queue, getters, pc>>

LoopRuns ==
    /\ scheduled # <<>>
    /\ RunsPut(Head(scheduled).item) \/ RunsClose(Head(scheduled))
    /\ scheduled' = Rest(scheduled)
    /\ UNCHANGED <<pumpSide, drained, taken, told>>

-----------------------------------------------------------------------------
(* get() *)

Idle(t) == [pc EXCEPT ![t] = "idle"]

Raises(t) ==
    /\ pc' = Idle(t)
    /\ told' = told \cup {exc}
    /\ UNCHANGED <<size, queue, drained, getters, taken>>

Waits(t) ==
    /\ queue = <<>>
    /\ getters' = Append(getters, t)
    /\ pc' = [pc EXCEPT ![t] = "waiting"]
    /\ UNCHANGED <<size, queue, drained, taken, told>>

TakesItem(t) ==
    /\ queue # <<>> /\ Head(queue) # CLOSED
    /\ queue' = Rest(queue)
    /\ size' = size - 1
    /\ taken' = Head(queue)
    /\ pc' = Idle(t)
    /\ UNCHANGED <<drained, getters, told>>

TakesClosed_NotPutBack(t) ==
    /\ queue # <<>> /\ Head(queue) = CLOSED
    /\ drained' = TRUE
    /\ queue' = Rest(queue)
    /\ pc' = Idle(t)
    /\ told' = told \cup {exc}
    /\ UNCHANGED <<size, getters, taken>>

TakesClosed_Counted(t) ==
    /\ queue # <<>> /\ Head(queue) = CLOSED
    /\ drained' = TRUE
    /\ queue' = Append(Rest(queue), CLOSED)
    /\ size' = IF size > 0 THEN size - 1 ELSE 0
    /\ WakesNext(Idle(t))
    /\ told' = told \cup {exc}
    /\ UNCHANGED taken

(* _CLOSED goes back for the next getter. *)
TakesClosed(t) ==
    /\ queue # <<>> /\ Head(queue) = CLOSED
    /\ drained' = TRUE
    /\ queue' = Append(Rest(queue), CLOSED)
    /\ WakesNext(Idle(t))
    /\ told' = told \cup {exc}
    /\ UNCHANGED <<size, taken>>

Gets(t) == Waits(t) \/ TakesItem(t) \/ TakesClosed(t)

Enter_ChecksExc(t) ==
    /\ pc[t] = "idle"
    /\ IF exc # None THEN Raises(t) ELSE Gets(t)
    /\ UNCHANGED <<pump, scheduled, exc, sent, ended, mark>>

Enter(t) ==
    /\ pc[t] = "idle"
    /\ IF drained THEN Raises(t) ELSE Gets(t)
    /\ UNCHANGED <<pump, scheduled, exc, sent, ended, mark>>

(* A get() that was woken does not look at _drained again. *)
Resume(t) ==
    /\ pc[t] = "woken"
    /\ Gets(t)
    /\ UNCHANGED <<pump, scheduled, exc, sent, ended, mark>>

(* asyncio.Queue: a cancelled getter that was woken wakes the next one, if *)
(* there is something to take.                                             *)
Cancel(t) ==
    /\ \/ /\ pc[t] = "waiting"
          /\ pc' = Idle(t)
          /\ \E i \in 1 .. Len(getters) : getters[i] = t /\ getters' = RemoveAt(getters, i)
       \/ /\ pc[t] = "woken"
          /\ IF queue = <<>> THEN pc' = Idle(t) /\ UNCHANGED getters ELSE WakesNext(Idle(t))
    /\ UNCHANGED <<pumpSide, scheduled, queue, exc, drained, taken, told>>

Next ==
    \/ PutCounts \/ PutRefused \/ PutSchedules \/ Overflow \/ CloseAtAnyTime
    \/ LoopRuns
    \/ \E t \in Tasks : Enter(t) \/ Resume(t) \/ Cancel(t)

Spec == Init /\ [][Next]_vars

(* The loop runs what is ready. *)
FairSpec == Spec /\ WF_vars(LoopRuns) /\ \A t \in Tasks : WF_vars(Resume(t))

-----------------------------------------------------------------------------
Items == {i \in 1 .. Len(queue) : queue[i] # CLOSED}

(* _put callbacks; the others are _close. *)
Puts == {i \in 1 .. Len(scheduled) : scheduled[i].item # CLOSED}

(* _size, which two threads write, is the number of messages that are      *)
(* between put() and a reader: it neither drifts nor counts the end, which *)
(* get() takes and puts back.                                              *)
SizeIsBacklog ==
    size = Cardinality(Items) + Cardinality(Puts) + (IF pump = "counted" THEN 1 ELSE 0)

(* Every task in get() when close() is called comes back: one _CLOSED in   *)
(* the queue is passed on from getter to getter, cancelled ones included.  *)
EndReachesEveryone == \A t \in Tasks : (ended # None /\ pc[t] # "idle") ~> pc[t] = "idle"

(* The mailbox is the same pipe as the threaded one, messages and end      *)
(* being ordered by the calls of put() and close(): the loop keeps their   *)
(* order, a cancelled get() takes nothing, and the end comes last.         *)
ThePipe == INSTANCE Pipe WITH delivered <- taken

ImplementsPipe == ThePipe!Spec
=============================================================================
