-------------------------------- MODULE Ping ---------------------------------
(***************************************************************************)
(* ping() of both layers: the table _pending_pings, with one entry per     *)
(* address, the pump's pong() callback, and the teardown of the peer.      *)
(*                                                                         *)
(* A ping() of the threaded layer waits on a threading.Event, with a       *)
(* timeout; one of the asyncio layer waits on an asyncio.Event, which the  *)
(* pump sets through the loop, and may be cancelled at any time, also      *)
(* while _start_ping runs in a thread of its own, which then runs on.      *)
(* Names are resolved before anything else and keep no state.              *)
(***************************************************************************)
EXTENDS PythonNone

CONSTANTS Calls,         \* calls of ping()
          Addresses,     \* addresses that can be pinged, as table keys
          Answers        \* what a pong can carry: its guid and data

ASSUME PingAssumption == None \notin Calls \cup Addresses \cup Answers

VARIABLES layer,         \* which Peer class: "sync" or "asyncio"; never changes
          at,            \* the address each call pings; never changes
          pc,            \* where each call is
          abandoned,     \* calls cancelled while _start_ping was running
          pings,         \* _pending_pings
          pong,          \* _PendingPing.pong
          event,         \* _PendingPing.event is set
          scheduled,     \* events the loop was told to set
          popped,        \* the pump: what pong() popped
          pumpPc,        \* where the pump is
          closed,        \* _closed
          closePhase,    \* where the one teardown is
          closePings     \* pings _finish_close has not set yet

calls == <<pc, abandoned>>
objects == <<pong, event, scheduled>>
pump == <<popped, pumpPc>>
teardown == <<closed, closePhase, closePings>>
vars == <<layer, at, calls, pings, objects, pump, teardown>>

Returned == {"pong", "peer is closed", "timed out", "failed"}

(* "expired" ran into its timeout or was cancelled; "failing" was refused  *)
(* by RakNet; both still have to remove the entry.                         *)
CallPcs == {"idle", "pinging", "waiting", "expired", "failing"} \cup Returned

TypeOK ==
    /\ layer \in {"sync", "asyncio"}
    /\ at \in [Calls -> Addresses]
    /\ pc \in [Calls -> CallPcs]
    /\ abandoned \subseteq Calls
    /\ pings \in [Addresses -> Calls \cup {None}]
    /\ pong \in [Calls -> Answers \cup {None}]
    /\ event \in [Calls -> BOOLEAN]
    /\ scheduled \subseteq Calls
    /\ popped \in Calls \cup {None}
    /\ pumpPc \in {"idle", "popped", "answered", "stopped"}
    /\ (popped # None) <=> (pumpPc \in {"popped", "answered"})
    /\ closed \in BOOLEAN
    /\ closePhase \in {"open", "joining", "finishing", "done"}
    /\ closePings \subseteq Calls

Init ==
    /\ layer \in {"sync", "asyncio"}
    /\ at \in [Calls -> Addresses]
    /\ pc = [c \in Calls |-> "idle"] /\ abandoned = {}
    /\ pings = [a \in Addresses |-> None]
    /\ pong = [c \in Calls |-> None]
    /\ event = [c \in Calls |-> FALSE] /\ scheduled = {}
    /\ popped = None /\ pumpPc = "idle"
    /\ closed = FALSE /\ closePhase = "open" /\ closePings = {}

Goes(c, to) == pc' = [pc EXCEPT ![c] = to]

(* Sets c's event: at once, or by a callback of the loop. *)
Sets(c) ==
    IF layer = "sync"
    THEN event' = [event EXCEPT ![c] = TRUE] /\ UNCHANGED scheduled
    ELSE scheduled' = scheduled \cup {c} /\ UNCHANGED event

-----------------------------------------------------------------------------
(* ping() *)

Starts_UnlockedCheck(c) ==
    /\ pc[c] = "idle"
    /\ pings' = [pings EXCEPT ![at[c]] = c]
    /\ Goes(c, "pinging")
    /\ UNCHANGED <<layer, at, abandoned, objects, pump, teardown>>

(* Registers, replacing what the address had, unless the peer is closed. *)
Starts(c) ==
    /\ pc[c] = "idle"
    /\ IF closed
       THEN Goes(c, "peer is closed") /\ UNCHANGED pings
       ELSE pings' = [pings EXCEPT ![at[c]] = c] /\ Goes(c, "pinging")
    /\ UNCHANGED <<layer, at, abandoned, objects, pump, teardown>>

(* raw.ping sends one, or returns False. *)
Pings(c) ==
    /\ pc[c] = "pinging"
    /\ \/ Goes(c, IF c \in abandoned THEN "timed out" ELSE "waiting")
       \/ Goes(c, "failing")
    /\ UNCHANGED <<layer, at, abandoned, pings, objects, pump, teardown>>

(* The entry of the address goes, whoever's it is. *)
Removes(c) == pings' = [pings EXCEPT ![at[c]] = None]

Fails(c) ==
    /\ pc[c] = "failing"
    /\ Removes(c)
    /\ Goes(c, "failed")
    /\ UNCHANGED <<layer, at, abandoned, objects, pump, teardown>>

Finishes(c) ==
    /\ pc[c] = "waiting" /\ event[c]
    /\ Goes(c, IF pong[c] = None THEN "peer is closed" ELSE "pong")
    /\ UNCHANGED <<layer, at, abandoned, pings, objects, pump, teardown>>

(* The wait times out, or its task is cancelled; the event may be set in   *)
(* the same moment.                                                        *)
Expires(c) ==
    /\ pc[c] = "waiting"
    /\ Goes(c, "expired")
    /\ UNCHANGED <<layer, at, abandoned, pings, objects, pump, teardown>>

TimesOut_KeepsEntry(c) ==
    /\ pc[c] = "expired"
    /\ Goes(c, "timed out")
    /\ UNCHANGED <<layer, at, abandoned, pings, objects, pump, teardown>>

TimesOut(c) ==
    /\ pc[c] = "expired"
    /\ Removes(c)
    /\ Goes(c, "timed out")
    /\ UNCHANGED <<layer, at, abandoned, objects, pump, teardown>>

(* The task is cancelled while it awaits the thread of _start_ping. *)
CancelledWhileStarting(c) ==
    /\ layer = "asyncio"
    /\ pc[c] = "pinging" /\ c \notin abandoned
    /\ abandoned' = abandoned \cup {c}
    /\ UNCHANGED <<layer, at, pc, pings, objects, pump, teardown>>

CallStep(c) ==
    \/ Starts(c) \/ Pings(c) \/ Fails(c) \/ Finishes(c)
    \/ Expires(c) \/ TimesOut(c) \/ CancelledWhileStarting(c)

LoopSets(c) ==
    /\ c \in scheduled
    /\ scheduled' = scheduled \ {c}
    /\ event' = [event EXCEPT ![c] = TRUE]
    /\ UNCHANGED <<layer, at, calls, pings, pong, pump, teardown>>

-----------------------------------------------------------------------------
(* The pump.  A pong may be late, come twice or unasked, or not at all;    *)
(* one that finds no entry is dropped.                                     *)

PongPops_Keeps(a) ==
    /\ pumpPc = "idle" /\ pings[a] # None
    /\ popped' = pings[a]
    /\ pumpPc' = "popped"
    /\ UNCHANGED <<layer, at, calls, pings, objects, teardown>>

PongPops(a) ==
    /\ pumpPc = "idle" /\ pings[a] # None
    /\ popped' = pings[a]
    /\ pings' = [pings EXCEPT ![a] = None]
    /\ pumpPc' = "popped"
    /\ UNCHANGED <<layer, at, calls, objects, teardown>>

PongAnswers_SetsFirst ==
    /\ pumpPc = "popped"
    /\ pumpPc' = "answered"
    /\ Sets(popped)
    /\ UNCHANGED <<layer, at, calls, pings, pong, popped, teardown>>

PongAnswers ==
    /\ pumpPc = "popped"
    /\ \E answer \in Answers : pong' = [pong EXCEPT ![popped] = answer]
    /\ pumpPc' = "answered"
    /\ UNCHANGED <<layer, at, calls, pings, event, scheduled, popped, teardown>>

PongSets_KeepsPopped ==
    /\ pumpPc = "answered"
    /\ Sets(popped)
    /\ pumpPc' = "idle"
    /\ UNCHANGED <<layer, at, calls, pings, pong, popped, teardown>>

PongSets ==
    /\ pumpPc = "answered"
    /\ Sets(popped)
    /\ popped' = None /\ pumpPc' = "idle"
    /\ UNCHANGED <<layer, at, calls, pings, pong, teardown>>

PumpStops ==
    /\ pumpPc = "idle" /\ closed
    /\ pumpPc' = "stopped"
    /\ UNCHANGED <<layer, at, calls, pings, objects, popped, teardown>>

-----------------------------------------------------------------------------
(* The teardown: of close(), or of a pump that crashed. *)

BeginClose_ForgetsPings(phase) ==
    /\ ~closed /\ closed' = TRUE
    /\ closePings' = {}
    /\ pings' = [a \in Addresses |-> None]
    /\ closePhase' = phase

BeginClose(phase) ==
    /\ ~closed /\ closed' = TRUE
    /\ closePings' = {pings[a] : a \in Addresses} \ {None}
    /\ pings' = [a \in Addresses |-> None]
    /\ closePhase' = phase

PeerCloses ==
    /\ BeginClose("joining")
    /\ UNCHANGED <<layer, at, calls, objects, pump>>

(* A callback other than pong() raises. *)
PumpCrashes ==
    /\ pumpPc = "idle"
    /\ BeginClose("finishing")
    /\ pumpPc' = "stopped"
    /\ UNCHANGED <<layer, at, calls, objects, popped>>

CloserJoins ==
    /\ closePhase = "joining" /\ pumpPc = "stopped"
    /\ closePhase' = "finishing"
    /\ UNCHANGED <<layer, at, calls, pings, objects, pump, closed, closePings>>

FinishSets_Skips ==
    /\ closePhase = "finishing" /\ closePings # {}
    /\ closePings' = {}
    /\ UNCHANGED <<layer, at, calls, pings, objects, pump, closed, closePhase>>

FinishSets ==
    /\ closePhase = "finishing"
    /\ \E c \in closePings : Sets(c) /\ closePings' = closePings \ {c}
    /\ UNCHANGED <<layer, at, calls, pings, pong, pump, closed, closePhase>>

FinishEnds ==
    /\ closePhase = "finishing" /\ closePings = {}
    /\ closePhase' = "done"
    /\ UNCHANGED <<layer, at, calls, pings, objects, pump, closed, closePings>>

Next ==
    \/ \E c \in Calls : CallStep(c) \/ LoopSets(c)
    \/ \E a \in Addresses : PongPops(a)
    \/ PongAnswers \/ PongSets \/ PumpStops \/ PumpCrashes
    \/ PeerCloses \/ CloserJoins \/ FinishSets \/ FinishEnds

Spec == Init /\ [][Next]_vars

(* Threads and the loop run; no timeout, pong, crash or close need come. *)
Fairness ==
    /\ \A c \in Calls : WF_vars(Pings(c) \/ Fails(c) \/ Finishes(c) \/ TimesOut(c)) /\ WF_vars(LoopSets(c))
    /\ WF_vars(PongAnswers \/ PongSets \/ PumpStops)
    /\ WF_vars(CloserJoins \/ FinishSets \/ FinishEnds)

FairSpec == Spec /\ Fairness

-----------------------------------------------------------------------------
(* Who shares an address with c; the table has one entry for all of them. *)
Rivals(c) == {d \in Calls \ {c} : at[d] = at[c]}

(* Somebody will set c's event, or can. *)
Reachable(c) ==
    \/ pings[at[c]] = c
    \/ popped = c
    \/ c \in closePings \cup scheduled
    \/ event[c]

(* A ping() that waits has not been forgotten by pong() and the teardown,  *)
(* which pop entries and set events outside the lock, unless another ping  *)
(* of the address took its entry away.                                     *)
PingIsReachable ==
    \A c \in Calls : pc[c] = "waiting" =>
        Reachable(c) \/ \E d \in Rivals(c) : pc[d] # "idle"

(* ping() says that the peer is closed only when it is: an event without a *)
(* pong comes from the teardown alone.                                     *)
ClosedIsTrue == \A c \in Calls : pc[c] = "peer is closed" => closed

(* The table holds no entry of a ping that is over, except the one that    *)
(* _start_ping registers for a task already cancelled.                     *)
NoStaleEntries ==
    \A a \in Addresses : pings[a] # None =>
        pc[pings[a]] \notin Returned \/ pings[a] \in abandoned

(* What a ping() found when its event was set stays: a second pong, or the *)
(* teardown, does not write it again.                                      *)
ResultIsFinal == [][\A c \in Calls : event[c] => pong'[c] = pong[c]]_vars

(* close() ends every ping(), those that wait without a timeout included,  *)
(* if no other ping has its address.                                       *)
CloseEndsPings ==
    \A c \in Calls : (closed /\ pc[c] # "idle" /\ Rivals(c) = {}) ~> pc[c] \in Returned
=============================================================================
