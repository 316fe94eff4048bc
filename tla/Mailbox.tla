------------------------------- MODULE Mailbox -------------------------------
(***************************************************************************)
(* The _Mailbox of a sync connection: one thread (the pump) puts, any      *)
(* thread may close it, and threads block in get() and poll() on its       *)
(* threading.Condition.                                                    *)
(*                                                                         *)
(* The methods hold the condition's lock, so an action is what a thread    *)
(* does between taking the lock and releasing it or going to sleep.  The   *)
(* Condition keeps its sleepers in a FIFO queue and notify() takes its     *)
(* first one, awake or not: a wait() that times out leaves the queue only  *)
(* once it has the lock again.                                             *)
(***************************************************************************)
EXTENDS MailboxData, SequencesExt, FiniteSets

CONSTANTS Getters,       \* threads that call get(), one call after another
          Pollers,       \* threads that call poll()
          MaxMessages    \* messages put: the bound of the model

ASSUME MailboxThreads ==
    /\ Getters \cap Pollers = {}
    /\ MaxMessages \in Nat

VARIABLES box,           \* _items, as message numbers, and _exc
          refused,       \* the pump's put() returned False
          waiters,       \* the sleepers of _cond, oldest first
          pc,            \* where each thread is
          sent,          \* history: messages put
          taken,         \* history: the last message a get() returned
          mark,          \* history: messages put when the mailbox was closed
          told,          \* history: the reasons get() raised
          polled         \* history: a poll() used up a notification

vars == <<box, refused, waiters, pc, sent, taken, mark, told, polled>>

Threads == Getters \cup Pollers

(* "waiting" is asleep, "notified" and "expired" are awake without the lock *)
Pcs == {"idle", "waiting", "notified", "expired"}

TypeOK ==
    /\ box \in Mailboxes(1 .. MaxMessages)
    /\ refused \in BOOLEAN
    /\ waiters \in Seq(Threads)
    /\ pc \in [Threads -> Pcs]
    /\ sent \in 0 .. MaxMessages
    /\ taken \in 0 .. MaxMessages
    /\ mark \in 0 .. MaxMessages
    /\ told \subseteq Reasons
    /\ polled \in BOOLEAN

Init ==
    /\ box = EmptyMailbox
    /\ refused = FALSE
    /\ waiters = <<>>
    /\ pc = [t \in Threads |-> "idle"]
    /\ sent = 0 /\ taken = 0 /\ mark = 0 /\ told = {}
    /\ polled = FALSE

(* threading.Condition: wakes the sleepers of ts, off the queue *)
Wakes(ts) ==
    pc' = [t \in Threads |-> IF t \in ts /\ pc[t] = "waiting" THEN "notified" ELSE pc[t]]

-----------------------------------------------------------------------------
(* The pump, and whoever closes. *)

Put_NotifiesOnFirst ==
    /\ ~refused /\ sent < MaxMessages
    /\ ~Full(box)
    /\ box' = PutItem(box, sent + 1)
    /\ sent' = sent + 1
    /\ IF waiters = <<>> \/ box.items # <<>>
       THEN UNCHANGED <<waiters, pc>>
       ELSE Wakes({Head(waiters)}) /\ waiters' = Tail(waiters)
    /\ UNCHANGED <<refused, taken, mark, told, polled>>

Put ==
    /\ ~refused /\ sent < MaxMessages
    /\ ~Full(box)
    /\ box' = PutItem(box, sent + 1)
    /\ sent' = sent + 1
    /\ IF waiters = <<>>
       THEN UNCHANGED <<waiters, pc>>
       ELSE Wakes({Head(waiters)}) /\ waiters' = Tail(waiters)
    /\ UNCHANGED <<refused, taken, mark, told, polled>>

PutRefused ==
    /\ ~refused /\ sent < MaxMessages
    /\ Full(box)
    /\ refused' = TRUE
    /\ UNCHANGED <<box, waiters, pc, sent, taken, mark, told, polled>>

Close_NotifiesOne(exc) ==
    /\ box' = CloseWith(box, exc)
    /\ mark' = IF box.exc = None THEN sent ELSE mark
    /\ IF waiters = <<>>
       THEN UNCHANGED <<waiters, pc>>
       ELSE Wakes({Head(waiters)}) /\ waiters' = Tail(waiters)
    /\ UNCHANGED <<sent, taken, told, polled>>

(* After a refused put the pump closes, see Peer._overflow; every other    *)
(* close comes when it comes.                                              *)
Close(exc) ==
    /\ box' = CloseWith(box, exc)
    /\ mark' = IF box.exc = None THEN sent ELSE mark
    /\ Wakes(Range(waiters)) /\ waiters' = <<>>
    /\ UNCHANGED <<sent, taken, told, polled>>

Overflow ==
    /\ refused /\ refused' = FALSE
    /\ Close("ConnectionClosedError")

CloseAtAnyTime == \E exc \in Reasons : Close(exc) /\ UNCHANGED refused

-----------------------------------------------------------------------------
(* get() and poll() *)

GetReturns_ReasonFirst ==
    \/ /\ box.items # <<>> /\ box.exc = None
       /\ box' = TakeItem(box)
       /\ taken' = Head(box.items)
       /\ UNCHANGED told
    \/ /\ box.exc # None
       /\ told' = told \cup {box.exc}
       /\ UNCHANGED <<box, taken>>

(* get: an item if there is one, else the reason *)
GetReturns ==
    \/ /\ box.items # <<>>
       /\ box' = TakeItem(box)
       /\ taken' = Head(box.items)
       /\ UNCHANGED told
    \/ /\ box.items = <<>>
       /\ told' = told \cup {box.exc}
       /\ UNCHANGED <<box, taken>>

Returns_NoRecheck(t) ==
    /\ \/ t \in Getters /\ GetReturns
       \/ t \in Pollers /\ UNCHANGED <<box, taken, told>>
    /\ pc' = [pc EXCEPT ![t] = "idle"]

(* The predicate of wait_for holds, and t holds the lock. *)
Returns(t) ==
    /\ Ready(box)
    /\ \/ t \in Getters /\ GetReturns
       \/ t \in Pollers /\ UNCHANGED <<box, taken, told>>
    /\ pc' = [pc EXCEPT ![t] = "idle"]

Sleeps(t) ==
    /\ ~Ready(box)
    /\ waiters' = Append(waiters, t)
    /\ pc' = [pc EXCEPT ![t] = "waiting"]
    /\ UNCHANGED <<box, taken, told>>

Enter(t) ==
    /\ pc[t] = "idle"
    /\ (Returns(t) /\ UNCHANGED waiters) \/ Sleeps(t)
    /\ UNCHANGED <<refused, sent, mark, polled>>

Wake(t) ==
    /\ pc[t] = "notified"
    /\ (Returns(t) /\ UNCHANGED waiters) \/ Sleeps(t)
    /\ polled' = (polled \/ t \in Pollers)
    /\ UNCHANGED <<refused, sent, mark>>

(* The wait times out; t is still in the queue. *)
Expire(t) ==
    /\ pc[t] = "waiting"
    /\ pc' = [pc EXCEPT ![t] = "expired"]
    /\ UNCHANGED <<box, refused, waiters, sent, taken, mark, told, polled>>

(* threading.Condition: a wait() that timed out takes itself off the queue *)
Dequeues(t) ==
    \/ \E i \in 1 .. Len(waiters) : waiters[i] = t /\ waiters' = RemoveAt(waiters, i)
    \/ ~Contains(waiters, t) /\ UNCHANGED waiters

(* With the lock again it looks once more, and else raises TimeoutError or *)
(* returns False.                                                          *)
TimedOut(t) ==
    /\ pc[t] = "expired"
    /\ \/ Returns(t)
       \/ ~Ready(box) /\ pc' = [pc EXCEPT ![t] = "idle"] /\ UNCHANGED <<box, taken, told>>
    /\ Dequeues(t)
    /\ polled' = (polled \/ (t \in Pollers /\ ~Contains(waiters, t)))
    /\ UNCHANGED <<refused, sent, mark>>

Next ==
    \/ Put \/ PutRefused \/ Overflow \/ CloseAtAnyTime
    \/ \E t \in Threads : Enter(t) \/ Wake(t) \/ Expire(t) \/ TimedOut(t)

Spec == Init /\ [][Next]_vars

(* A thread that is awake gets the lock in the end. *)
FairSpec == Spec /\ \A t \in Threads : WF_vars(Wake(t) \/ TimedOut(t))

-----------------------------------------------------------------------------
(* Threads that were notified, or expired while the notification was sent  *)
(* to them, and have not looked at the mailbox since.                      *)
OnTheirWay ==
    {t \in Threads : pc[t] = "notified" \/ (pc[t] = "expired" /\ ~Contains(waiters, t))}

(* No get() sleeps on while a message it could have waits: put() wakes one *)
(* sleeper per message, so there are as many threads on their way as       *)
(* messages left, unless a poll() took the notification and left the       *)
(* message.                                                                *)
NoLostWakeup ==
    (\E t \in Getters : pc[t] = "waiting") /\ ~polled =>
        Len(box.items) <= Cardinality(OnTheirWay)

(* Nobody is asleep on a closed mailbox, nor can fall asleep on it. *)
ClosedWakesEveryone == box.exc # None => \A t \in Threads : pc[t] # "waiting"

(* Every thread that was asleep when the mailbox was closed comes back. *)
CloseReleases == \A t \in Threads : (box.exc # None /\ pc[t] # "idle") ~> pc[t] = "idle"

(* The mailbox is a pipe to its readers, however many there are. *)
ThePipe == INSTANCE Pipe WITH delivered <- taken, ended <- box.exc

ImplementsPipe == ThePipe!Spec
=============================================================================
