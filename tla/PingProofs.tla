----------------------------- MODULE PingProofs ------------------------------
(***************************************************************************)
(* Theorems about Ping, for any number of calls and addresses.  A ping is  *)
(* handed from the table to the pump or to the teardown's snapshot, is     *)
(* with one of them at a time, and its event is not set before it has left *)
(* them all.                                                               *)
(***************************************************************************)
EXTENDS Ping, TLAPS

(* c's event is set, or the loop was told to set it. *)
Resolved(c) == event[c] \/ c \in scheduled

EntryInv ==
    \A a \in Addresses, c \in Calls : pings[a] = c =>
        at[c] = a /\ pc[c] # "idle" /\ c # popped /\ c \notin closePings /\ ~Resolved(c)

HandInv ==
    \A c \in Calls : popped = c => pc[c] # "idle" /\ c \notin closePings /\ ~Resolved(c)

SnapshotInv == \A c \in Calls : c \in closePings => pc[c] # "idle" /\ ~Resolved(c)

FreshInv == \A c \in Calls : pc[c] = "idle" => ~Resolved(c)

OwnerInv == EntryInv /\ HandInv /\ SnapshotInv /\ FreshInv

(* Why an event was set. *)
TruthInv ==
    /\ \A c \in Calls : Resolved(c) => pong[c] # None \/ closed
    /\ pumpPc = "answered" => pong[popped] # None
    /\ closePings # {} => closed

(* PingIsReachable, from the registration on. *)
WaitInv ==
    \A c \in Calls : pc[c] \in {"pinging", "waiting"} =>
        Reachable(c) \/ \E d \in Rivals(c) : pc[d] # "idle"

IInv == TypeOK /\ OwnerInv /\ TruthInv /\ WaitInv /\ ClosedIsTrue /\ NoStaleEntries

-----------------------------------------------------------------------------
(* Types *)

LEMMA TypeInit == Init => TypeOK
BY PingAssumption DEF Init, TypeOK, CallPcs

(* A call that goes on. *)
LEMMA GoesProperties ==
    ASSUME TypeOK, NEW c \in Calls, NEW to \in CallPcs, Goes(c, to)
    PROVE  /\ pc' \in [Calls -> CallPcs]
           /\ pc'[c] = to
           /\ \A d \in Calls : d # c => pc'[d] = pc[d]
BY DEF TypeOK, Goes

(* The entry of an address goes. *)
LEMMA RemovesProperties ==
    ASSUME TypeOK, NEW c \in Calls, Removes(c)
    PROVE  /\ pings' \in [Addresses -> Calls \cup {None}]
           /\ pings'[at[c]] = None
           /\ \A a \in Addresses : a # at[c] => pings'[a] = pings[a]
BY DEF TypeOK, Removes

(* An event is set, in either layer. *)
LEMMA SetsProperties ==
    ASSUME TypeOK, NEW c \in Calls, Sets(c)
    PROVE  /\ event' \in [Calls -> BOOLEAN]
           /\ scheduled' \subseteq Calls
           /\ \A d \in Calls : Resolved(d)' <=> Resolved(d) \/ d = c
<1>1. CASE layer = "sync"
  BY <1>1 DEF Sets, TypeOK, Resolved
<1>2. CASE layer # "sync"
  BY <1>2 DEF Sets, TypeOK, Resolved
<1>. QED BY <1>1, <1>2

(* The teardown takes the table. *)
LEMMA BeginCloseProperties ==
    ASSUME TypeOK, NEW phase \in {"joining", "finishing"}, BeginClose(phase)
    PROVE  /\ ~closed /\ closed' = TRUE /\ closePhase' = phase
           /\ pings' \in [Addresses -> Calls \cup {None}]
           /\ \A a \in Addresses : pings'[a] = None
           /\ closePings' \subseteq Calls
           /\ \A a \in Addresses : pings[a] # None => pings[a] \in closePings'
           /\ \A c \in closePings' : \E a \in Addresses : pings[a] = c
BY DEF BeginClose, TypeOK

-----------------------------------------------------------------------------
(* A call's step: it moves itself on, and may clear or set an entry. *)

CallMoves(c) ==
    /\ UNCHANGED <<layer, at, objects, pump, teardown>>
    /\ pc' \in [Calls -> CallPcs]
    /\ pings' \in [Addresses -> Calls \cup {None}]
    /\ abandoned \subseteq abandoned' /\ abandoned' \subseteq Calls
    /\ pc'[c] # "idle"
    /\ \A d \in Calls : d # c => pc'[d] = pc[d]
    /\ \A a \in Addresses : a # at[c] => pings'[a] = pings[a]
    /\ pings'[at[c]] \in {pings[at[c]], None, c}
    /\ pings'[at[c]] = c => pc[c] = "idle" \/ pings[at[c]] = c

LEMMA CallMovesKeepsOwner ==
    ASSUME TypeOK, OwnerInv, TruthInv, NEW c \in Calls, CallMoves(c)
    PROVE  TypeOK' /\ OwnerInv' /\ TruthInv'
<1>1. UNCHANGED <<layer, at, pong, event, scheduled, popped, pumpPc, closed, closePhase, closePings>>
  BY DEF CallMoves, objects, pump, teardown
<1>2. TypeOK' BY <1>1 DEF CallMoves, TypeOK
<1>3. \A d \in Calls : Resolved(d)' <=> Resolved(d) BY <1>1 DEF Resolved
<1>4. \A d \in Calls : pc[d] # "idle" => pc'[d] # "idle" BY DEF CallMoves
<1>5. \A d \in Calls : pc'[d] = "idle" => pc[d] = "idle" BY <1>4
<1>6. \A a \in Addresses, d \in Calls : pings'[a] = d => pings[a] = d \/ (d = c /\ a = at[c] /\ pc[c] = "idle")
  BY PingAssumption DEF CallMoves, TypeOK
<1>7. HandInv' BY <1>1, <1>3, <1>4 DEF OwnerInv, HandInv
<1>8. SnapshotInv' BY <1>1, <1>3, <1>4 DEF OwnerInv, SnapshotInv
<1>9. FreshInv' BY <1>3, <1>5 DEF OwnerInv, FreshInv
<1>10. pc'[c] # "idle" BY DEF CallMoves
<1>11. EntryInv'
  BY <1>1, <1>3, <1>4, <1>6, <1>10 DEF OwnerInv, EntryInv, HandInv, SnapshotInv, FreshInv
<1>12. TruthInv' BY <1>1, <1>3 DEF TruthInv
<1>. QED BY <1>2, <1>7, <1>8, <1>9, <1>11, <1>12 DEF OwnerInv

(* A rival's step takes nothing from a call that cannot blame it. *)
LEMMA CallMovesKeepsWait ==
    ASSUME TypeOK, WaitInv, NEW c \in Calls, CallMoves(c),
           pc'[c] \in {"pinging", "waiting"} =>
               pings'[at[c]] = c \/ (pc[c] \in {"pinging", "waiting"} /\ pings' = pings)
    PROVE  WaitInv'
<1>1. UNCHANGED <<at, event, scheduled, popped, closePings>>
  BY DEF CallMoves, objects, pump, teardown
<1>2. \A d \in Calls : Rivals(d)' = Rivals(d) BY <1>1 DEF Rivals
<1>3. \A d \in Calls : pc[d] # "idle" => pc'[d] # "idle" BY DEF CallMoves
<1>4. SUFFICES ASSUME NEW d \in Calls, pc'[d] \in {"pinging", "waiting"}
               PROVE  Reachable(d)' \/ \E e \in Rivals(d) : pc'[e] # "idle"
  BY <1>2 DEF WaitInv
<1>5. CASE d = c /\ pings'[at[c]] = c
  BY <1>1, <1>5 DEF Reachable
<1>6. CASE d = c /\ pc[c] \in {"pinging", "waiting"} /\ pings' = pings
  BY <1>1, <1>3, <1>6 DEF Reachable, WaitInv, Rivals
<1>7. CASE d # c /\ at[d] = at[c]
  BY <1>7 DEF CallMoves, Rivals
<1>8. CASE d # c /\ at[d] # at[c]
  <2>1. pc'[d] = pc[d] /\ pings'[at[d]] = pings[at[d]] BY <1>8 DEF CallMoves, TypeOK
  <2>. QED BY <1>1, <1>3, <1>4, <2>1 DEF Reachable, WaitInv, Rivals
<1>. QED BY <1>4, <1>5, <1>6, <1>7, <1>8

LEMMA CallMovesKeepsStale ==
    ASSUME TypeOK, OwnerInv, NoStaleEntries, NEW c \in Calls, CallMoves(c),
           pc'[c] \in Returned => pings'[at[c]] # c \/ c \in abandoned
    PROVE  NoStaleEntries'
<1>1. SUFFICES ASSUME NEW a \in Addresses, pings'[a] # None
               PROVE  pc'[pings'[a]] \notin Returned \/ pings'[a] \in abandoned'
  BY DEF NoStaleEntries
<1>2. PICK d \in Calls : pings'[a] = d BY <1>1 DEF CallMoves
<1>3. CASE d = c
  <2>1. pings[a] = c \/ a = at[c] BY <1>2, <1>3 DEF CallMoves
  <2>2. a = at[c] BY <2>1 DEF OwnerInv, EntryInv
  <2>. QED BY <1>2, <1>3, <2>2 DEF CallMoves
<1>4. CASE d # c
  BY <1>1, <1>2, <1>4, PingAssumption DEF CallMoves, NoStaleEntries
<1>. QED BY <1>3, <1>4

-----------------------------------------------------------------------------
(* The steps of a call *)

LEMMA CallMovesKeepsIInv ==
    ASSUME IInv, NEW c \in Calls, CallMoves(c),
           pc'[c] \in {"pinging", "waiting"} =>
               pings'[at[c]] = c \/ (pc[c] \in {"pinging", "waiting"} /\ pings' = pings),
           pc'[c] \in Returned => pings'[at[c]] # c \/ c \in abandoned,
           pc'[c] = "peer is closed" => closed
    PROVE  IInv'
<1>1. TypeOK' /\ OwnerInv' /\ TruthInv' BY CallMovesKeepsOwner DEF IInv
<1>2. WaitInv' BY CallMovesKeepsWait DEF IInv
<1>3. NoStaleEntries' BY CallMovesKeepsStale DEF IInv
<1>4. ClosedIsTrue' BY DEF IInv, CallMoves, ClosedIsTrue, teardown
<1>. QED BY <1>1, <1>2, <1>3, <1>4 DEF IInv

LEMMA StartsKeepsIInv == ASSUME IInv, NEW c \in Calls, Starts(c) PROVE IInv'
<1>. USE DEF IInv
<1>1. CASE closed
  <2>1. Goes(c, "peer is closed") /\ UNCHANGED pings BY <1>1 DEF Starts
  <2>2. CallMoves(c)
    <3>1. "peer is closed" \in CallPcs BY DEF CallPcs, Returned
    <3>2. UNCHANGED <<layer, at, abandoned, objects, pump, teardown>> BY DEF Starts
    <3>3. abandoned \subseteq Calls /\ pings \in [Addresses -> Calls \cup {None}]
      BY DEF TypeOK
    <3>. QED BY <2>1, <3>1, <3>2, <3>3, GoesProperties DEF CallMoves
  <2>3. pc'[c] = "peer is closed" BY <2>1, GoesProperties DEF CallPcs, Returned
  <2>4. pings'[at[c]] # c BY <2>1 DEF Starts, OwnerInv, EntryInv, TypeOK
  <2>. QED BY <1>1, <2>2, <2>3, <2>4, CallMovesKeepsIInv
<1>2. CASE ~closed
  <2>1. Goes(c, "pinging") /\ pings' = [pings EXCEPT ![at[c]] = c] /\ pc[c] = "idle"
    BY <1>2 DEF Starts
  <2>2. CallMoves(c)
    <3>1. "pinging" \in CallPcs BY DEF CallPcs
    <3>2. UNCHANGED <<layer, at, abandoned, objects, pump, teardown>> BY DEF Starts
    <3>3. abandoned \subseteq Calls BY DEF TypeOK
    <3>4. /\ pings' \in [Addresses -> Calls \cup {None}]
          /\ pings'[at[c]] = c
          /\ \A a \in Addresses : a # at[c] => pings'[a] = pings[a]
      BY <2>1 DEF TypeOK
    <3>. QED BY <2>1, <3>1, <3>2, <3>3, <3>4, GoesProperties DEF CallMoves
  <2>3. pc'[c] = "pinging" BY <2>1, GoesProperties DEF CallPcs
  <2>4. pings'[at[c]] = c BY <2>1 DEF TypeOK
  <2>. QED BY <2>2, <2>3, <2>4, CallMovesKeepsIInv DEF Returned
<1>. QED BY <1>1, <1>2

LEMMA PingsKeepsIInv == ASSUME IInv, NEW c \in Calls, Pings(c) PROVE IInv'
<1>. USE DEF IInv
<1>1. PICK to \in {"timed out", "waiting", "failing"} :
          Goes(c, to) /\ (to = "timed out" => c \in abandoned)
  BY DEF Pings
<1>2. pc'[c] = to /\ to \in CallPcs BY <1>1, GoesProperties DEF CallPcs, Returned
<1>3. UNCHANGED pings /\ pc[c] = "pinging" BY DEF Pings
<1>4. CallMoves(c)
  BY <1>1, <1>2, <1>3, GoesProperties DEF Pings, CallMoves, TypeOK
<1>. QED BY <1>1, <1>2, <1>3, <1>4, CallMovesKeepsIInv DEF Returned

LEMMA FailsKeepsIInv == ASSUME IInv, NEW c \in Calls, Fails(c) PROVE IInv'
<1>. USE DEF IInv
<1>1. pc'[c] = "failed" BY GoesProperties DEF Fails, CallPcs, Returned
<1>2. pings'[at[c]] # c BY RemovesProperties, PingAssumption DEF Fails
<1>3. CallMoves(c)
  <2>1. Goes(c, "failed") /\ Removes(c) /\ "failed" \in CallPcs BY DEF Fails, CallPcs, Returned
  <2>2. UNCHANGED <<layer, at, abandoned, objects, pump, teardown>> BY DEF Fails
  <2>3. abandoned \subseteq Calls BY DEF TypeOK
  <2>. QED BY <1>1, <2>1, <2>2, <2>3, GoesProperties, RemovesProperties, PingAssumption DEF CallMoves
<1>. QED BY <1>1, <1>2, <1>3, CallMovesKeepsIInv

(* An event without a pong is the teardown's. *)
LEMMA FinishesKeepsIInv == ASSUME IInv, NEW c \in Calls, Finishes(c) PROVE IInv'
<1>. USE DEF IInv
<1>1. PICK to \in {"peer is closed", "pong"} :
          Goes(c, to) /\ (to = "peer is closed" => pong[c] = None)
  BY DEF Finishes
<1>2. pc'[c] = to /\ to \in Returned BY <1>1, GoesProperties DEF CallPcs, Returned
<1>3. Resolved(c) BY DEF Finishes, Resolved
<1>4. to = "peer is closed" => closed BY <1>1, <1>3 DEF TruthInv
<1>5. pings'[at[c]] # c BY <1>3 DEF Finishes, OwnerInv, EntryInv, TypeOK
<1>6. CallMoves(c)
  BY <1>1, <1>2, GoesProperties DEF Finishes, CallMoves, CallPcs, Returned, TypeOK
<1>. QED BY <1>2, <1>4, <1>5, <1>6, CallMovesKeepsIInv DEF Returned

LEMMA ExpiresKeepsIInv == ASSUME IInv, NEW c \in Calls, Expires(c) PROVE IInv'
<1>. USE DEF IInv
<1>1. pc'[c] = "expired" BY GoesProperties DEF Expires, CallPcs
<1>2. CallMoves(c)
  BY <1>1, GoesProperties DEF Expires, CallMoves, CallPcs, TypeOK
<1>. QED BY <1>1, <1>2, CallMovesKeepsIInv DEF Returned

LEMMA TimesOutKeepsIInv == ASSUME IInv, NEW c \in Calls, TimesOut(c) PROVE IInv'
<1>. USE DEF IInv
<1>1. pc'[c] = "timed out" BY GoesProperties DEF TimesOut, CallPcs, Returned
<1>2. pings'[at[c]] # c BY RemovesProperties, PingAssumption DEF TimesOut
<1>3. CallMoves(c)
  <2>1. Goes(c, "timed out") /\ Removes(c) /\ "timed out" \in CallPcs BY DEF TimesOut, CallPcs, Returned
  <2>2. UNCHANGED <<layer, at, abandoned, objects, pump, teardown>> BY DEF TimesOut
  <2>3. abandoned \subseteq Calls BY DEF TypeOK
  <2>. QED BY <1>1, <2>1, <2>2, <2>3, GoesProperties, RemovesProperties, PingAssumption DEF CallMoves
<1>. QED BY <1>1, <1>2, <1>3, CallMovesKeepsIInv

LEMMA CancelledKeepsIInv == ASSUME IInv, NEW c \in Calls, CancelledWhileStarting(c) PROVE IInv'
<1>. USE DEF IInv
<1>1. pc' = pc /\ pings' = pings /\ pc[c] = "pinging" BY DEF CancelledWhileStarting
<1>2. CallMoves(c) BY <1>1 DEF CancelledWhileStarting, CallMoves, TypeOK
<1>. QED BY <1>1, <1>2, CallMovesKeepsIInv DEF Returned

LEMMA CallStepKeepsIInv == ASSUME IInv, NEW c \in Calls, CallStep(c) PROVE IInv'
BY StartsKeepsIInv, PingsKeepsIInv, FailsKeepsIInv, FinishesKeepsIInv, ExpiresKeepsIInv,
   TimesOutKeepsIInv, CancelledKeepsIInv
DEF CallStep

-----------------------------------------------------------------------------
(* A step of the loop, the pump or the teardown: it hands pings on. *)

HandsOn ==
    /\ UNCHANGED <<layer, at, calls>>
    /\ closed => closed'
    /\ \A a \in Addresses : pings'[a] \in {pings[a], None}
    /\ \A c \in Calls : Reachable(c) => Reachable(c)'

LEMMA HandsOnKeepsIInv ==
    ASSUME IInv, HandsOn, TypeOK', OwnerInv', TruthInv'
    PROVE  IInv'
<1>. USE DEF IInv
<1>1. WaitInv' BY DEF HandsOn, WaitInv, Rivals, calls
<1>2. ClosedIsTrue' BY DEF HandsOn, ClosedIsTrue, calls
<1>3. NoStaleEntries' BY DEF HandsOn, NoStaleEntries, calls
<1>. QED BY <1>1, <1>2, <1>3

LEMMA LoopSetsKeepsIInv == ASSUME IInv, NEW c \in Calls, LoopSets(c) PROVE IInv'
<1>. USE DEF IInv
<1>1. UNCHANGED <<layer, at, pc, abandoned, pings, pong, popped, pumpPc, closed, closePhase, closePings>>
  BY DEF LoopSets, calls, pump, teardown
<1>2. TypeOK' BY <1>1 DEF LoopSets, TypeOK
<1>3. \A d \in Calls : event'[d] <=> (event[d] \/ d = c) BY DEF LoopSets, TypeOK
<1>4. \A d \in Calls : Resolved(d)' <=> Resolved(d) BY <1>3 DEF LoopSets, Resolved
<1>5. OwnerInv' BY <1>1, <1>4 DEF OwnerInv, EntryInv, HandInv, SnapshotInv, FreshInv
<1>6. TruthInv' BY <1>1, <1>4 DEF TruthInv
<1>7. \A d \in Calls : Reachable(d) => Reachable(d)'
  BY <1>1, <1>3 DEF LoopSets, Reachable
<1>. QED BY <1>1, <1>2, <1>5, <1>6, <1>7, HandsOnKeepsIInv DEF HandsOn, calls

LEMMA PongPopsKeepsIInv == ASSUME IInv, NEW a \in Addresses, PongPops(a) PROVE IInv'
<1>. USE DEF IInv
<1>1. PICK c \in Calls : pings[a] = c BY DEF PongPops, TypeOK
<1>2. UNCHANGED <<layer, at, pc, abandoned, pong, event, scheduled, closed, closePhase, closePings>>
  BY DEF PongPops, calls, objects, teardown
<1>3. popped' = c /\ pumpPc' = "popped" /\ pumpPc = "idle" /\ popped = None
  BY <1>1 DEF PongPops, TypeOK
<1>4. pings' \in [Addresses -> Calls \cup {None}] /\ pings'[a] = None
      /\ \A b \in Addresses : b # a => pings'[b] = pings[b]
  BY DEF PongPops, TypeOK
<1>5. TypeOK' BY <1>2, <1>3, <1>4, PingAssumption DEF TypeOK
<1>6. \A d \in Calls : Resolved(d)' <=> Resolved(d) BY <1>2 DEF Resolved
<1>7. at[c] = a /\ pc[c] # "idle" /\ c \notin closePings /\ ~Resolved(c)
  BY <1>1 DEF OwnerInv, EntryInv
<1>8. \A b \in Addresses, d \in Calls : pings'[b] = d => pings[b] = d /\ b # a
  BY <1>4, PingAssumption
<1>9. EntryInv' BY <1>2, <1>3, <1>6, <1>7, <1>8 DEF OwnerInv, EntryInv
<1>10. HandInv' BY <1>2, <1>3, <1>6, <1>7 DEF HandInv
<1>11. SnapshotInv' /\ FreshInv' BY <1>2, <1>6 DEF OwnerInv, SnapshotInv, FreshInv
<1>12. TruthInv' BY <1>2, <1>3, <1>6 DEF TruthInv
<1>13. \A d \in Calls : Reachable(d) => Reachable(d)'
  <2>1. \A d \in Calls : d # None BY PingAssumption
  <2>. QED BY <1>1, <1>2, <1>3, <1>4, <1>7, <2>1 DEF Reachable, TypeOK
<1>14. HandsOn BY <1>2, <1>4, <1>13 DEF HandsOn, calls
<1>. QED BY <1>5, <1>9, <1>10, <1>11, <1>12, <1>14, HandsOnKeepsIInv DEF OwnerInv

LEMMA PongAnswersKeepsIInv == ASSUME IInv, PongAnswers PROVE IInv'
<1>. USE DEF IInv
<1>1. PICK c \in Calls : popped = c BY DEF PongAnswers, TypeOK
<1>2. PICK answer \in Answers : pong' = [pong EXCEPT ![c] = answer]
  BY <1>1 DEF PongAnswers
<1>3. UNCHANGED <<layer, at, pc, abandoned, pings, event, scheduled, popped, closed, closePhase, closePings>>
      /\ pumpPc' = "answered" /\ pumpPc = "popped"
  BY DEF PongAnswers, calls, teardown
<1>4. pong' \in [Calls -> Answers \cup {None}] /\ pong'[c] # None
      /\ \A d \in Calls : d # c => pong'[d] = pong[d]
  BY <1>2, PingAssumption DEF TypeOK
<1>5. TypeOK' BY <1>3, <1>4 DEF TypeOK
<1>6. \A d \in Calls : Resolved(d)' <=> Resolved(d) BY <1>3 DEF Resolved
<1>7. OwnerInv' BY <1>3, <1>6 DEF OwnerInv, EntryInv, HandInv, SnapshotInv, FreshInv
<1>8. TruthInv' BY <1>1, <1>3, <1>4, <1>6 DEF TruthInv
<1>9. HandsOn BY <1>3 DEF HandsOn, calls, Reachable
<1>. QED BY <1>5, <1>7, <1>8, <1>9, HandsOnKeepsIInv

LEMMA PongSetsKeepsIInv == ASSUME IInv, PongSets PROVE IInv'
<1>. USE DEF IInv
<1>1. PICK c \in Calls : popped = c BY DEF PongSets, TypeOK
<1>2. UNCHANGED <<layer, at, pc, abandoned, pings, pong, closed, closePhase, closePings>>
      /\ popped' = None /\ pumpPc' = "idle" /\ pumpPc = "answered"
  BY DEF PongSets, calls, teardown
<1>3. Sets(c) BY <1>1 DEF PongSets
<1>4. TypeOK' BY <1>2, <1>3, SetsProperties DEF TypeOK
<1>5. \A d \in Calls : Resolved(d)' <=> Resolved(d) \/ d = c BY <1>3, SetsProperties
<1>6. pc[c] # "idle" /\ c \notin closePings /\ \A a \in Addresses : pings[a] # c
  BY <1>1 DEF OwnerInv, EntryInv, HandInv
<1>7. \A d \in Calls : d # None BY PingAssumption
<1>8. OwnerInv'
  BY <1>2, <1>5, <1>6, <1>7 DEF OwnerInv, EntryInv, HandInv, SnapshotInv, FreshInv
<1>9. TruthInv' BY <1>1, <1>2, <1>5 DEF TruthInv
<1>10. \A d \in Calls : Reachable(d) => Reachable(d)'
  <2>1. SUFFICES ASSUME NEW d \in Calls, Reachable(d), d # c PROVE Reachable(d)'
    BY <1>5 DEF Reachable, Resolved
  <2>2. Resolved(d) \/ pings[at[d]] = d \/ d \in closePings
    BY <1>1, <2>1 DEF Reachable, Resolved
  <2>. QED BY <1>2, <1>5, <2>2 DEF Reachable, Resolved
<1>. QED BY <1>2, <1>4, <1>8, <1>9, <1>10, HandsOnKeepsIInv DEF HandsOn, calls

(* Steps that only move the pump or the teardown on. *)
LEMMA QuietKeepsIInv ==
    ASSUME IInv, UNCHANGED <<layer, at, calls, pings, objects, popped, closed, closePings>>,
           closePhase' \in {"open", "joining", "finishing", "done"},
           pumpPc' = pumpPc \/ (pumpPc = "idle" /\ pumpPc' = "stopped")
    PROVE  IInv'
<1>. USE DEF IInv
<1>1. UNCHANGED <<pc, abandoned, pong, event, scheduled>> BY DEF calls, objects
<1>2. TypeOK' BY <1>1 DEF TypeOK
<1>3. \A c \in Calls : Resolved(c)' <=> Resolved(c) BY <1>1 DEF Resolved
<1>4. OwnerInv' BY <1>1, <1>3 DEF OwnerInv, EntryInv, HandInv, SnapshotInv, FreshInv
<1>5. TruthInv' BY <1>1, <1>3 DEF TruthInv
<1>6. HandsOn BY <1>1 DEF HandsOn, Reachable, calls
<1>. QED BY <1>2, <1>4, <1>5, <1>6, HandsOnKeepsIInv

LEMMA BeginCloseKeepsIInv ==
    ASSUME IInv, NEW phase \in {"joining", "finishing"}, BeginClose(phase),
           UNCHANGED <<layer, at, calls, objects, popped>>,
           pumpPc' = pumpPc \/ (pumpPc = "idle" /\ pumpPc' = "stopped")
    PROVE  IInv'
<1>. USE DEF IInv
<1>1. UNCHANGED <<pc, abandoned, pong, event, scheduled>> BY DEF calls, objects
<1>2. TypeOK' BY <1>1, BeginCloseProperties DEF TypeOK
<1>3. \A c \in Calls : Resolved(c)' <=> Resolved(c) BY <1>1 DEF Resolved
<1>4. \A c \in Calls : c \in closePings' =>
          pc[c] # "idle" /\ c # popped /\ ~Resolved(c)
  <2>1. \A c \in closePings' : \E a \in Addresses : pings[a] = c BY BeginCloseProperties
  <2>. QED BY <2>1 DEF OwnerInv, EntryInv
<1>5. \A a \in Addresses, c \in Calls : pings'[a] # c
  BY BeginCloseProperties, PingAssumption
<1>6. closePings = {} BY BeginCloseProperties DEF TruthInv
<1>7. OwnerInv'
  BY <1>1, <1>3, <1>4, <1>5 DEF OwnerInv, EntryInv, HandInv, SnapshotInv, FreshInv
<1>8. TruthInv' BY <1>1, <1>3, BeginCloseProperties DEF TruthInv
<1>9. \A c \in Calls : Reachable(c) => Reachable(c)'
  <2>1. \A c \in Calls : pings[at[c]] = c => c \in closePings'
    <3>1. \A a \in Addresses : pings[a] # None => pings[a] \in closePings' BY BeginCloseProperties
    <3>2. \A c \in Calls : at[c] \in Addresses /\ c # None BY PingAssumption DEF TypeOK
    <3>. QED BY <3>1, <3>2
  <2>. QED BY <1>1, <1>6, <2>1 DEF Reachable
<1>. QED BY <1>1, <1>2, <1>7, <1>8, <1>9, BeginCloseProperties, HandsOnKeepsIInv
         DEF HandsOn, calls

LEMMA FinishSetsKeepsIInv == ASSUME IInv, FinishSets PROVE IInv'
<1>. USE DEF IInv
<1>1. PICK c \in Calls : c \in closePings /\ Sets(c) /\ closePings' = closePings \ {c}
  BY DEF FinishSets, TypeOK
<1>2. UNCHANGED <<layer, at, pc, abandoned, pings, pong, popped, pumpPc, closed, closePhase>>
  BY DEF FinishSets, calls, pump
<1>3. TypeOK' BY <1>1, <1>2, SetsProperties DEF TypeOK
<1>4. \A d \in Calls : Resolved(d)' <=> Resolved(d) \/ d = c BY <1>1, SetsProperties
<1>5. pc[c] # "idle" /\ c # popped /\ \A a \in Addresses : pings[a] # c
  BY <1>1 DEF OwnerInv, EntryInv, HandInv, SnapshotInv
<1>6. OwnerInv'
  BY <1>1, <1>2, <1>4, <1>5 DEF OwnerInv, EntryInv, HandInv, SnapshotInv, FreshInv
<1>7. TruthInv' BY <1>1, <1>2, <1>4 DEF TruthInv
<1>8. \A d \in Calls : Reachable(d) => Reachable(d)'
  BY <1>1, <1>2, <1>4 DEF Reachable, Resolved
<1>. QED BY <1>2, <1>3, <1>6, <1>7, <1>8, HandsOnKeepsIInv DEF HandsOn, calls

-----------------------------------------------------------------------------
(* The theorems *)

LEMMA IInvInit == Init => IInv
<1>. SUFFICES ASSUME Init PROVE IInv OBVIOUS
<1>1. TypeOK BY TypeInit
<1>2. \A c \in Calls : pc[c] = "idle" /\ ~Resolved(c) /\ c # popped /\ c # None
  BY PingAssumption DEF Init, Resolved
<1>3. \A a \in Addresses : pings[a] = None BY DEF Init
<1>4. OwnerInv
  BY <1>2, <1>3 DEF Init, OwnerInv, EntryInv, HandInv, SnapshotInv, FreshInv
<1>5. TruthInv BY <1>2 DEF Init, TruthInv
<1>6. WaitInv /\ ClosedIsTrue BY <1>2 DEF WaitInv, ClosedIsTrue
<1>7. NoStaleEntries BY <1>3 DEF NoStaleEntries
<1>. QED BY <1>1, <1>4, <1>5, <1>6, <1>7 DEF IInv

LEMMA IInvStep == IInv /\ [Next]_vars => IInv'
<1>. SUFFICES ASSUME IInv, [Next]_vars PROVE IInv' OBVIOUS
<1>1. ASSUME NEW c \in Calls, CallStep(c) PROVE IInv'
  BY <1>1, CallStepKeepsIInv
<1>2. ASSUME NEW c \in Calls, LoopSets(c) PROVE IInv'
  BY <1>2, LoopSetsKeepsIInv
<1>3. ASSUME NEW a \in Addresses, PongPops(a) PROVE IInv'
  BY <1>3, PongPopsKeepsIInv
<1>4. CASE PongAnswers
  BY <1>4, PongAnswersKeepsIInv
<1>5. CASE PongSets
  BY <1>5, PongSetsKeepsIInv
<1>6. CASE PumpStops
  BY <1>6, QuietKeepsIInv DEF PumpStops, teardown, IInv, TypeOK
<1>7. CASE PumpCrashes
  BY <1>7, BeginCloseKeepsIInv DEF PumpCrashes
<1>8. CASE PeerCloses
  BY <1>8, BeginCloseKeepsIInv DEF PeerCloses, pump
<1>9. CASE CloserJoins
  BY <1>9, QuietKeepsIInv DEF CloserJoins, pump
<1>10. CASE FinishSets
  BY <1>10, FinishSetsKeepsIInv
<1>11. CASE FinishEnds
  BY <1>11, QuietKeepsIInv DEF FinishEnds, pump
<1>12. CASE UNCHANGED vars
  BY <1>12, QuietKeepsIInv DEF vars, pump, teardown, IInv, TypeOK
<1>. QED BY <1>1, <1>2, <1>3, <1>4, <1>5, <1>6, <1>7, <1>8, <1>9, <1>10, <1>11, <1>12 DEF Next

LEMMA IInvAlways == Spec => []IInv
<1>. QED BY IInvInit, IInvStep, PTL DEF Spec

(* Every variable of the pings, the pump and the teardown keeps its type   *)
(* (_peer.py, ping, pong and _finish_close): the pump never answers a ping *)
(* that it does not hold.                                                  *)
THEOREM PingTypeCorrect == Spec => []TypeOK
<1>1. IInv => TypeOK BY DEF IInv
<1>. QED BY <1>1, IInvAlways, PTL

(* ping() does not claim that the peer is closed while it is open          *)
(* (_peer.py, _finish_ping): the pump assigns the pong before it sets the  *)
(* event, and the teardown sets events only after it closed the peer.      *)
THEOREM PingTellsTheTruth == Spec => []ClosedIsTrue
<1>1. IInv => ClosedIsTrue BY DEF IInv
<1>. QED BY <1>1, IInvAlways, PTL

(* A ping() that waits is in the table, with the pump, in the teardown's   *)
(* snapshot or already answered, unless another one took its address       *)
(* (_peer.py, pong and _begin_close).                                      *)
THEOREM PingIsNotForgotten == Spec => []PingIsReachable
<1>1. IInv => PingIsReachable BY DEF IInv, WaitInv, PingIsReachable
<1>. QED BY <1>1, IInvAlways, PTL

(* The table keeps no ping that has returned (_peer.py, ping and           *)
(* _start_ping), but for a task cancelled while it registered.             *)
THEOREM PingLeavesNoEntry == Spec => []NoStaleEntries
<1>1. IInv => NoStaleEntries BY DEF IInv
<1>. QED BY <1>1, IInvAlways, PTL

(* A ping is answered once (_peer.py, pong): the pump pops the entry       *)
(* before it writes, so that it never holds a ping whose event is set.     *)
THEOREM PingIsAnsweredOnce == Spec => ResultIsFinal
<1>1. IInv /\ [Next]_vars => [\A c \in Calls : event[c] => pong'[c] = pong[c]]_vars
  <2>. SUFFICES ASSUME IInv, Next, NEW c \in Calls, event[c] PROVE pong'[c] = pong[c]
    OBVIOUS
  <2>1. CASE PongAnswers
    <3>1. popped # c BY DEF IInv, OwnerInv, HandInv, Resolved
    <3>. QED BY <2>1, <3>1 DEF PongAnswers, IInv, TypeOK
  <2>2. CASE ~PongAnswers
    <3>1. UNCHANGED pong
      BY <2>2 DEF Next, CallStep, Starts, Pings, Fails, Finishes, Expires, TimesOut,
         CancelledWhileStarting, LoopSets, PongPops, PongSets, PumpStops, PumpCrashes,
         PeerCloses, CloserJoins, FinishSets, FinishEnds, objects
    <3>. QED BY <3>1
  <2>. QED BY <2>1, <2>2
<1>. QED BY <1>1, IInvAlways, PTL DEF Spec, ResultIsFinal
=============================================================================
