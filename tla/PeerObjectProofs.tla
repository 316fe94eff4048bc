-------------------------- MODULE PeerObjectProofs --------------------------
(***************************************************************************)
(* What holds of the objects a Peer makes.                                 *)
(*                                                                         *)
(* A pending connect is resolved once and for good: the table, the pump    *)
(* and the teardown hand it on, and whoever has it is the only one that    *)
(* writes it.  So a connect() that waits can be told.                      *)
(*                                                                         *)
(* A connection whose mailbox is closed says that it is closed: every one  *)
(* that closes a mailbox has set _closed before, and no Connection is      *)
(* built over one that exists, since each session is announced once.       *)
(***************************************************************************)
EXTENDS PeerProofs

(* The step keeps every pending connect whose event is set. *)
Final == \A c \in Calls : pending[c].event => pending'[c] = pending[c]

(* No call goes back to before its registration. *)
Forward == \A c \in Calls : pc'[c] \in {"idle", "register"} => pc[c] \in {"idle", "register"}

(* A step that writes no pending connect and hands none on. *)
LEMMA NoneHandedOn ==
    ASSUME BaseInv, ResolutionInv, UNCHANGED pending, closePends' \subseteq closePends, Forward,
           \A r \in Remotes : pendingConnects'[r] \in {pendingConnects[r], None},
           popped' \in {popped, None},
           popped' # None => (pumpPc' = "set_event" <=> pumpPc = "set_event")
    PROVE  ResolutionInv' /\ Final
<1>1. \A c \in Calls : Target[c] \in Remotes /\ c # None BY PeerAssumption, NoneIsNothing
<1>2. \A c \in Calls : InTable(c)' => InTable(c) BY <1>1 DEF InTable
<1>3. \A c \in Calls : Fresh(c)' <=> Fresh(c) BY DEF Fresh
<1>4. \A c \in Calls : popped' = c => popped = c BY <1>1
<1>. USE DEF ResolutionInv
<1>5. \A r \in Remotes : pendingConnects'[r] # None => Target[pendingConnects'[r]] = r OBVIOUS
<1>6. \A c \in Calls : pc'[c] \in {"idle", "register"} =>
          Fresh(c)' /\ ~InTable(c)' /\ popped' # c /\ c \notin closePends'
  BY <1>2, <1>3, <1>4 DEF Forward
<1>7. \A c \in Calls : InTable(c)' => Fresh(c)' /\ popped' # c /\ c \notin closePends'
  BY <1>2, <1>3, <1>4
<1>8. \A c \in closePends' : Fresh(c)' /\ popped' # c
  BY <1>3, <1>4 DEF BaseInv, CloseOK, CloseTypeOK
<1>9. popped' # None =>
          /\ ~pending'[popped'].event
          /\ pending'[popped'].reason = None
          /\ pending'[popped'].connection # None <=> pumpPc' = "set_event"
  OBVIOUS
<1>10. ResolvedExactlyOnce' BY DEF ResolvedExactlyOnce
<1>. QED BY <1>5, <1>6, <1>7, <1>8, <1>9, <1>10 DEF Final

LEMMA StaysForward == ASSUME UNCHANGED pc PROVE Forward
BY DEF Forward

LEMMA GoesForward ==
    ASSUME BaseInv, NEW t \in Threads, NEW step, Goes(t, step),
           t \in Calls => step \notin {"idle", "register"} \/ pc[t] = "idle"
    PROVE  Forward
<1>1. \A u \in Threads : u # t => pc'[u] = pc[u]
  BY DEF Goes, BaseInv, ThreadsOK, ThreadTypeOK
<1>2. pc'[t] = step BY DEF Goes, BaseInv, ThreadsOK, ThreadTypeOK
<1>. QED BY <1>1, <1>2 DEF Forward, Threads

-----------------------------------------------------------------------------
(* The steps that hand a pending connect on, or resolve it. *)

LEMMA PopHandsOn ==
    ASSUME BaseInv, ResolutionInv, PumpPopsPending, UNCHANGED pc
    PROVE  ResolutionInv' /\ Final
<1>1. PICK r \in Remotes : r = packet.from
  BY PumpHolds, PumpLeaves, PacketProperties DEF BaseInv, PumpPopsPending
<1>2. \A c \in Calls : Target[c] \in Remotes /\ c # None BY PeerAssumption, NoneIsNothing
<1>3. pendingConnects' = [pendingConnects EXCEPT ![r] = None] BY <1>1 DEF PumpPopsPending
<1>4. \A q \in Remotes : pendingConnects'[q] \in {pendingConnects[q], None}
  BY <1>3 DEF BaseInv, TablesOK, TableTypeOK
<1>5. UNCHANGED <<pending, closePends, pc>> /\ Forward
  BY StaysForward DEF PumpPopsPending, objectVars, closeVars
<1>6. CASE PumpReturns
  BY <1>4, <1>5, <1>6, NoneHandedOn DEF PumpReturns
<1>7. CASE /\ pendingConnects[r] # None
           /\ popped' = pendingConnects[r]
           /\ pumpPc' \in {"succeeded_insert", "failed_set"}
  <2>1. PICK c \in Calls : c = pendingConnects[r]
    BY <1>7 DEF BaseInv, TablesOK, TableTypeOK
  <2>2. Target[c] = r /\ Fresh(c) /\ c \notin closePends /\ pc[c] \notin {"idle", "register"}
    BY <1>7, <2>1 DEF ResolutionInv, InTable
  <2>3. \A d \in Calls : InTable(d)' => InTable(d) /\ d # c
    BY <1>2, <1>3, <2>2 DEF InTable, BaseInv, TablesOK, TableTypeOK
  <2>4. \A d \in Calls : Fresh(d)' <=> Fresh(d) BY <1>5 DEF Fresh
  <2>. USE DEF ResolutionInv
  <2>5. \A q \in Remotes : pendingConnects'[q] # None => Target[pendingConnects'[q]] = q
    BY <1>4
  <2>6. \A d \in Calls : pc'[d] \in {"idle", "register"} =>
            Fresh(d)' /\ ~InTable(d)' /\ popped' # d /\ d \notin closePends'
    BY <1>5, <1>7, <2>1, <2>2, <2>3, <2>4
  <2>7. \A d \in Calls : InTable(d)' => Fresh(d)' /\ popped' # d /\ d \notin closePends'
    BY <1>5, <1>7, <2>1, <2>3, <2>4
  <2>8. \A d \in closePends' : Fresh(d)' /\ popped' # d
    BY <1>5, <1>7, <2>1, <2>2, <2>4 DEF BaseInv, CloseOK, CloseTypeOK
  <2>9. /\ ~pending'[popped'].event /\ pending'[popped'].reason = None
        /\ pending'[popped'].connection # None <=> pumpPc' = "set_event"
    BY <1>5, <1>7, <2>1, <2>2 DEF Fresh
  <2>10. ResolvedExactlyOnce' BY <1>5 DEF ResolvedExactlyOnce
  <2>. QED BY <1>5, <2>5, <2>6, <2>7, <2>8, <2>9, <2>10 DEF Final
<1>. QED BY <1>1, <1>6, <1>7 DEF PumpPopsPending

(* The pump or the teardown writes the pending connect c it has. *)
LEMMA Writes ==
    ASSUME BaseInv, ResolutionInv, NEW c \in Calls, UNCHANGED <<pendingConnects, pc>>,
           popped = c \/ c \in closePends,
           \A d \in Calls : d # c => pending'[d] = pending[d],
           closePends' = closePends \ {c}, popped' \in {popped, None},
           popped' # None => popped' = c /\ pumpPc' = "set_event" /\
               pending'[c].connection # None /\ ~pending'[c].event /\ pending'[c].reason = None,
           pending'[c].event =>
               (pending'[c].connection = None) # (pending'[c].reason = None)
    PROVE  ResolutionInv' /\ Final
<1>. USE DEF ResolutionInv
<1>1. \A d \in Calls : Target[d] \in Remotes /\ d # None BY PeerAssumption, NoneIsNothing
<1>2. ~pending[c].event /\ ~InTable(c) /\ pc[c] \notin {"idle", "register"}
  BY <1>1 DEF Fresh
<1>3. \A d \in Calls : InTable(d)' <=> InTable(d) BY DEF InTable
<1>4. \A d \in Calls : d # c => (Fresh(d)' <=> Fresh(d)) BY DEF Fresh
<1>5. \A d \in Calls : popped' = d => d = c BY <1>1
<1>6. Final BY <1>2 DEF Final
<1>7. ResolvedExactlyOnce' BY <1>6 DEF Final, ResolvedExactlyOnce
<1>8. \A r \in Remotes : pendingConnects'[r] # None => Target[pendingConnects'[r]] = r OBVIOUS
<1>9. \A d \in Calls : pc'[d] \in {"idle", "register"} =>
          Fresh(d)' /\ ~InTable(d)' /\ popped' # d /\ d \notin closePends'
  BY <1>2, <1>3, <1>4, <1>5
<1>10. \A d \in Calls : InTable(d)' => Fresh(d)' /\ popped' # d /\ d \notin closePends'
  BY <1>2, <1>3, <1>4, <1>5
<1>11. \A d \in closePends' : Fresh(d)' /\ popped' # d
  BY <1>4, <1>5 DEF BaseInv, CloseOK, CloseTypeOK
<1>. QED BY <1>6, <1>7, <1>8, <1>9, <1>10, <1>11

LEMMA PumpWrites ==
    ASSUME BaseInv, ResolutionInv, UNCHANGED pc,
           SucceededPublishes \/ SucceededSets \/ FailedSets
    PROVE  ResolutionInv' /\ Final
<1>1. PICK c \in Calls : c = popped /\ c # None
  BY PumpHolds, PumpLeaves, NoneIsNothing
     DEF BaseInv, SucceededPublishes, SucceededSets, FailedSets
<1>2. c \notin closePends BY <1>1 DEF ResolutionInv
<1>3. /\ ~pending[c].event /\ pending[c].reason = None
      /\ pending[c].connection # None <=> pumpPc = "set_event"
  BY <1>1 DEF ResolutionInv
<1>4. UNCHANGED <<pendingConnects, closePends>>
  BY DEF SucceededPublishes, SucceededSets, FailedSets, tableVars, closeVars
<1>5. pending \in [Calls -> PendingConnect] BY DEF BaseInv, ObjectsOK, ObjectTypeOK
<1>6. CASE SucceededPublishes
  <2>1. PICK s \in Sessions : s = packet.session /\ s # None
    BY <1>6, PumpHolds, PumpLeaves, NoneIsNothing DEF BaseInv, SucceededPublishes
  <2>2. pending' = [pending EXCEPT ![c].connection = s] BY <1>1, <1>6, <2>1 DEF SucceededPublishes
  <2>3. \A d \in Calls : d # c => pending'[d] = pending[d] BY <1>5, <2>2
  <2>4. pending'[c].connection = s /\ ~pending'[c].event /\ pending'[c].reason = None
    BY <1>3, <1>5, <2>2 DEF PendingConnect
  <2>5. popped' = c /\ pumpPc' = "set_event" BY <1>1, <1>6 DEF SucceededPublishes, PumpGoesTo
  <2>. QED BY <1>1, <1>2, <1>4, <2>1, <2>3, <2>4, <2>5, Writes
<1>7. CASE SucceededSets
  <2>1. pending' = [pending EXCEPT ![c].event = TRUE] /\ pumpPc = "set_event" /\ popped' = None
    BY <1>1, <1>7 DEF SucceededSets, PumpReturns
  <2>2. \A d \in Calls : d # c => pending'[d] = pending[d] BY <1>5, <2>1
  <2>3. pending'[c].connection # None /\ pending'[c].reason = None
    BY <1>3, <1>5, <2>1 DEF PendingConnect
  <2>. QED BY <1>1, <1>2, <1>4, <2>1, <2>2, <2>3, Writes
<1>8. CASE FailedSets
  <2>1. PICK mid \in DefaultMessageIDTypes : mid = packet.id
    <3>1. packet.id \in CONNECT_FAILURES
      BY <1>8, PumpLeaves DEF FailedSets, BaseInv, PumpOK, PumpInv
    <3>. QED BY <3>1, IdValues
  <2>2. mid # None BY IdValues, NoneIsNothing
  <2>3. pending' = [pending EXCEPT ![c] = [@ EXCEPT !.reason = mid, !.event = TRUE]]
        /\ pumpPc = "failed_set" /\ popped' = None
    BY <1>1, <1>8, <2>1 DEF FailedSets, PumpReturns
  <2>4. \A d \in Calls : d # c => pending'[d] = pending[d] BY <1>5, <2>3
  <2>5. pending'[c].connection = None /\ pending'[c].reason # None
    BY <1>3, <1>5, <2>2, <2>3 DEF PendingConnect
  <2>. QED BY <1>1, <1>2, <1>4, <2>3, <2>4, <2>5, Writes
<1>. QED BY <1>6, <1>7, <1>8

LEMMA TeardownWrites ==
    ASSUME BaseInv, ResolutionInv, UNCHANGED pc, NEW c \in Calls, FinishFailsPending(c)
    PROVE  ResolutionInv' /\ Final
<1>1. pending \in [Calls -> PendingConnect] BY DEF BaseInv, ObjectsOK, ObjectTypeOK
<1>2. c \in closePends /\ popped # c /\ pending[c].connection = None
  BY DEF FinishFailsPending, ResolutionInv, Fresh
<1>3. popped = None
  <2>1. pumpPc \in {"exited", "failing"}
    BY DEF FinishFailsPending, BaseInv, CloseOK, CloseInv
  <2>. QED BY <2>1, PumpLeaves DEF BaseInv, PumpOK, PumpInv
<1>4. PICK mid \in DefaultMessageIDTypes : mid = ID_CONNECTION_ATTEMPT_FAILED /\ mid # None
  BY IdValues, NoneIsNothing
<1>5. pending' = [pending EXCEPT ![c] = [@ EXCEPT !.reason = mid, !.event = TRUE]]
      /\ closePends' = closePends \ {c} /\ UNCHANGED <<pendingConnects, popped>>
  BY <1>4 DEF FinishFailsPending, tableVars, pumpVars
<1>6. \A d \in Calls : d # c => pending'[d] = pending[d] BY <1>1, <1>5
<1>7. pending'[c].connection = None /\ pending'[c].reason # None
  BY <1>1, <1>2, <1>4, <1>5 DEF PendingConnect
<1>. QED BY <1>2, <1>3, <1>5, <1>6, <1>7, Writes

(* The snapshot of the teardown takes over what is in the table. *)
LEMMA SnapshotTakesOver ==
    ASSUME BaseInv, ResolutionInv, UNCHANGED <<pending, popped, pc>>, NEW next, BeginClose(next),
           popped # None => UNCHANGED pumpPc
    PROVE  ResolutionInv' /\ Final
<1>1. \A r \in Remotes : pendingConnects'[r] = None BY DEF BeginClose
<1>2. \A d \in Calls : Target[d] \in Remotes /\ d # None BY PeerAssumption, NoneIsNothing
<1>3. \A d \in Calls : ~InTable(d)' BY <1>1, <1>2 DEF InTable
<1>4. \A d \in Calls : Fresh(d)' <=> Fresh(d) BY DEF Fresh
<1>. USE DEF ResolutionInv
<1>5. \A d \in closePends' : d \in Calls /\ InTable(d)
  <2>1. ASSUME NEW r \in Remotes, pendingConnects[r] # None
        PROVE  pendingConnects[r] \in Calls /\ InTable(pendingConnects[r])
    BY <2>1 DEF InTable, BaseInv, TablesOK, TableTypeOK
  <2>. QED BY <2>1 DEF BeginClose, TableOf
<1>6. \A d \in closePends' : Fresh(d)' /\ popped' # d /\ pc'[d] \notin {"idle", "register"}
  BY <1>4, <1>5
<1>7. \A d \in Calls : pc'[d] \in {"idle", "register"} =>
          Fresh(d)' /\ ~InTable(d)' /\ popped' # d /\ d \notin closePends'
  BY <1>3, <1>4, <1>6
<1>8. popped' # None =>
          /\ ~pending'[popped'].event /\ pending'[popped'].reason = None
          /\ pending'[popped'].connection # None <=> pumpPc' = "set_event"
  OBVIOUS
<1>9. ResolvedExactlyOnce' BY DEF ResolvedExactlyOnce
<1>10. \A r \in Remotes : pendingConnects'[r] # None => Target[pendingConnects'[r]] = r BY <1>1
<1>11. \A d \in Calls : InTable(d)' => Fresh(d)' /\ popped' # d /\ d \notin closePends' BY <1>3
<1>. QED BY <1>6, <1>7, <1>8, <1>9, <1>10, <1>11 DEF Final

(* A registration replaces the entry of another call to the same address. *)
LEMMA RegisterEnters ==
    ASSUME BaseInv, ResolutionInv, NEW c \in Calls, CallRegisters(c)
    PROVE  ResolutionInv' /\ Final
<1>1. PICK r \in Remotes : r = Target[c] BY PeerAssumption
<1>2. \A d \in Calls : Target[d] \in Remotes /\ d # None BY PeerAssumption, NoneIsNothing
<1>3. c \in Threads /\ pc[c] = "register" BY ThreadKinds DEF CallRegisters
<1>4. UNCHANGED <<pending, closePends, popped, pumpPc>>
  BY DEF CallRegisters, objectVars, closeVars, pumpVars
<1>5. CASE Goes(c, "raised") /\ UNCHANGED pendingConnects
  <2>1. Forward BY <1>3, <1>5, GoesForward
  <2>. QED BY <1>4, <1>5, <2>1, NoneHandedOn
<1>6. CASE pendingConnects' = [pendingConnects EXCEPT ![r] = c] /\ Goes(c, "dial")
  <2>1. pendingConnects'[r] = c /\ \A q \in Remotes : q # r => pendingConnects'[q] = pendingConnects[q]
    BY <1>6 DEF BaseInv, TablesOK, TableTypeOK
  <2>2. Forward /\ pc'[c] = "dial"
    BY <1>3, <1>6, GoesForward DEF Goes, BaseInv, ThreadsOK, ThreadTypeOK
  <2>3. Fresh(c) /\ popped # c /\ c \notin closePends BY <1>3 DEF ResolutionInv
  <2>4. \A d \in Calls : Fresh(d)' <=> Fresh(d) BY <1>4 DEF Fresh
  <2>5. \A d \in Calls : InTable(d)' => InTable(d) \/ d = c BY <1>2, <2>1 DEF InTable
  <2>. USE DEF ResolutionInv
  <2>6. \A q \in Remotes : pendingConnects'[q] # None => Target[pendingConnects'[q]] = q
    BY <1>1, <2>1
  <2>7. \A d \in Calls : pc'[d] \in {"idle", "register"} =>
            Fresh(d)' /\ ~InTable(d)' /\ popped' # d /\ d \notin closePends'
    BY <1>4, <2>2, <2>4, <2>5 DEF Forward
  <2>8. \A d \in Calls : InTable(d)' => Fresh(d)' /\ popped' # d /\ d \notin closePends'
    BY <1>4, <2>3, <2>4, <2>5
  <2>9. \A d \in closePends' : Fresh(d)' /\ popped' # d
    BY <1>4, <2>4 DEF BaseInv, CloseOK, CloseTypeOK
  <2>10. ResolvedExactlyOnce' BY <1>4 DEF ResolvedExactlyOnce
  <2>. QED BY <1>4, <2>6, <2>7, <2>8, <2>9, <2>10 DEF Final
<1>. QED BY <1>1, <1>5, <1>6 DEF CallRegisters

-----------------------------------------------------------------------------
(* Every other step. *)

LEMMA QuietPump ==
    ASSUME BaseInv, ResolutionInv, UNCHANGED <<pending, pc, closePends, pendingConnects>>,
           popped' \in {popped, None},
           popped' # None => (pumpPc' = "set_event" <=> pumpPc = "set_event")
    PROVE  ResolutionInv' /\ Final
BY StaysForward, NoneHandedOn

LEMMA PumpResolution ==
    ASSUME BaseInv, ResolutionInv, UNCHANGED pc, PumpStep \/ PumpCrashes
    PROVE  ResolutionInv' /\ Final
<1>1. CASE PumpChecks \/ PumpIdles \/ PumpReceives \/ PumpCrashes \/ IncomingInserts
           \/ IncomingQueues \/ SucceededInserts
  <2>1. UNCHANGED <<pending, closePends, pendingConnects>>
    BY <1>1 DEF PumpChecks, PumpIdles, PumpReceives, PumpCrashes, IncomingInserts,
                IncomingQueues, SucceededInserts, objectVars, closeVars, tableVars
  <2>2. pumpPc # "set_event" /\ popped' \in {popped, None}
    BY <1>1 DEF PumpChecks, PumpIdles, PumpReceives, PumpCrashes, IncomingInserts,
                IncomingQueues, SucceededInserts, PumpReturns, PumpGoesTo
  <2>3. pumpPc' # "set_event" \/ popped' = None
    <3>1. CASE PumpReceives
      <4>1. pumpPc = "receive" /\ popped = None
        BY <3>1, PumpLeaves DEF PumpReceives, BaseInv, PumpOK, PumpInv
      <4>. QED BY <4>1, <2>2
    <3>. QED BY <1>1, <3>1
         DEF PumpChecks, PumpIdles, PumpCrashes, IncomingInserts,
             IncomingQueues, SucceededInserts, PumpReturns, PumpGoesTo
  <2>. QED BY <2>1, <2>2, <2>3, QuietPump
<1>2. CASE \/ MessageLooksUp \/ MessagePuts
           \/ OverflowPops \/ OverflowMarks \/ OverflowHangsUp \/ OverflowClosesMailbox
           \/ DisconnectedPops \/ DisconnectedMarks \/ DisconnectedClosesMailbox
  <2>1. UNCHANGED <<pending, closePends, pendingConnects>>
    BY <1>2 DEF MessageLooksUp, MessagePuts, OverflowPops, OverflowMarks, OverflowHangsUp,
                OverflowClosesMailbox, DisconnectedPops, DisconnectedMarks,
                DisconnectedClosesMailbox, objectVars, closeVars, tableVars
  <2>2. popped' \in {popped, None} /\ pumpPc \in MessagePcs \cup FoundPcs \cup {"disconnected"}
    BY <1>2, PumpLeaves
       DEF MessageLooksUp, MessagePuts, OverflowPops, OverflowMarks, OverflowHangsUp,
           OverflowClosesMailbox, DisconnectedPops, DisconnectedMarks,
           DisconnectedClosesMailbox, PumpReturns, PumpGoesTo
  <2>3. popped = None
    BY <2>2, PumpLeaves DEF BaseInv, PumpOK, PumpInv, MessagePcs, FoundPcs, PendingPcs
  <2>. QED BY <2>1, <2>2, <2>3, QuietPump
<1>3. CASE PumpFails
  <2>1. UNCHANGED <<pending, popped>> /\ pumpPc = "crashed" /\ pumpPc' \in {"exited", "failing"}
    BY <1>3 DEF PumpFails, PumpGoesTo, objectVars
  <2>2. popped = None
    BY <2>1, PumpLeaves DEF BaseInv, PumpOK, PumpInv
  <2>3. CASE UNCHANGED <<tableVars, closeVars>>
    BY <2>1, <2>2, <2>3, QuietPump DEF tableVars, closeVars
  <2>4. CASE BeginClose("shutdown") BY <2>1, <2>2, <2>4, SnapshotTakesOver
  <2>. QED BY <1>3, <2>3, <2>4 DEF PumpFails
<1>. QED BY <1>1, <1>2, <1>3, PopHandsOn, PumpWrites DEF PumpStep

LEMMA CloserResolution ==
    ASSUME BaseInv, ResolutionInv, UNCHANGED pc, CloserStep
    PROVE  ResolutionInv' /\ Final
<1>1. CASE \/ CloserJoinsPump \/ CloserShutsDown \/ FinishClosesMailbox \/ FinishQueuesSentinel
           \/ \E s \in Sessions : FinishMarks(s)
  <2>1. UNCHANGED <<pending, closePends, pendingConnects, popped>>
    BY <1>1 DEF CloserJoinsPump, CloserShutsDown, FinishClosesMailbox, FinishQueuesSentinel,
                FinishMarks, objectVars, tableVars, pumpVars, PumpGoesTo
  <2>2. popped = None \/ UNCHANGED pumpPc
    <3>1. CASE FinishQueuesSentinel
      <4>1. pumpPc \in {"exited", "failing"}
        BY <3>1 DEF FinishQueuesSentinel, BaseInv, CloseOK, CloseInv
      <4>. QED BY <4>1, PumpLeaves DEF BaseInv, PumpOK, PumpInv
    <3>. QED BY <1>1, <3>1
         DEF CloserJoinsPump, CloserShutsDown, FinishClosesMailbox, FinishMarks, pumpVars
  <2>. QED BY <2>1, <2>2, QuietPump
<1>. QED BY <1>1, TeardownWrites DEF CloserStep

LEMMA ThreadResolution ==
    ASSUME BaseInv, ResolutionInv,
           \/ \E c \in Calls : CallStep(c) \/ CallTimesOut(c)
           \/ \E s \in Sessions : OwnerStep(s) \/ OwnerCloses(s)
           \/ \E a \in Acceptors : AcceptorStep(a) \/ AcceptTimesOut(a)
    PROVE  ResolutionInv' /\ Final
<1>1. ASSUME UNCHANGED <<pending, closePends, popped, pumpPc>>, Forward,
             \A r \in Remotes : pendingConnects'[r] \in {pendingConnects[r], None}
      PROVE  ResolutionInv' /\ Final
  BY <1>1, NoneHandedOn
<1>2. ASSUME NEW t \in Calls \cup Sessions, CloseStep(t) PROVE ResolutionInv' /\ Final
  <2>1. UNCHANGED <<pending, closePends, popped, pumpPc, pendingConnects>>
    BY <1>2 DEF CloseStep, CloseChecks, ClosePops, CloseMarks, CloseHangsUp,
                CloseClosesMailbox, coreVars, objectVars, tableVars, pumpVars, closeVars
  <2>2. PICK step : Goes(t, step) /\ step \notin {"idle", "register"}
    <3>1. PICK after : after = AfterClose(t) /\ after \notin {"idle", "register"}
      BY DEF AfterClose
    <3>2. PICK step \in ClosePcs \cup {after} : Goes(t, step)
      BY <1>2, <3>1 DEF CloseStep, CloseChecks, ClosePops, CloseMarks, CloseHangsUp,
                        CloseClosesMailbox, ClosePcs
    <3>. QED BY <3>1, <3>2 DEF ClosePcs
  <2>3. Forward BY <2>2, GoesForward DEF Threads
  <2>. QED BY <1>1, <2>1, <2>3
<1>3. ASSUME NEW c \in Calls, CallStep(c) \/ CallTimesOut(c) PROVE ResolutionInv' /\ Final
  <2>. PICK r \in Remotes : r = Target[c] BY PeerAssumption
  <2>1. c \in Threads BY ThreadKinds
  <2>2. CASE CallBegins(c) \/ CallDials(c) \/ CallTimesOut(c) \/ CallCancels(c) \/ CallRewaits(c)
    <3>1. UNCHANGED <<pending, closePends, popped, pumpPc, pendingConnects>>
      BY <2>2 DEF CallBegins, CallDials, CallTimesOut, CallCancels, CallRewaits,
                  coreVars, objectVars, tableVars, pumpVars, closeVars
    <3>2. PICK step : Goes(c, step) /\ (step \notin {"idle", "register"} \/ pc[c] = "idle")
      BY <2>2 DEF CallBegins, CallDials, CallTimesOut, CallCancels, CallRewaits
    <3>3. Forward BY <2>1, <3>2, GoesForward
    <3>. QED BY <1>1, <3>1, <3>3
  <2>3. CASE CallUndials(c) \/ CallAbandons(c)
    <3>1. /\ pendingConnects' = [pendingConnects EXCEPT ![r] = None]
          /\ UNCHANGED <<pending, closePends, popped, pumpPc>>
      BY <2>3 DEF CallUndials, CallAbandons, PopPendingOf, objectVars, pumpVars, closeVars
    <3>2. \A q \in Remotes : pendingConnects'[q] \in {pendingConnects[q], None}
      BY <3>1 DEF BaseInv, TablesOK, TableTypeOK
    <3>3. PICK step : Goes(c, step) /\ step \notin {"idle", "register"}
      BY <2>3 DEF CallUndials, CallAbandons
    <3>4. Forward BY <2>1, <3>3, GoesForward
    <3>. QED BY <1>1, <3>1, <3>2, <3>4
  <2>4. CASE CallFinishes(c)
    <3>1. UNCHANGED <<pending, closePends, popped, pumpPc, pendingConnects>>
      BY <2>4 DEF CallFinishes, coreVars, objectVars, tableVars, pumpVars, closeVars
    <3>2. CASE Goes(c, "raised")
      <4>1. Forward BY <2>1, <3>2, GoesForward
      <4>. QED BY <1>1, <3>1, <4>1
    <3>3. CASE pc' = [pc EXCEPT ![c] = "returned", ![pending[c].connection] = "using"]
      <4>1. \A d \in Calls : pc'[d] \in {pc[d], "returned", "using"}
        BY <3>3 DEF BaseInv, ThreadsOK, ThreadTypeOK, Threads
      <4>2. Forward BY <4>1 DEF Forward
      <4>. QED BY <1>1, <3>1, <4>2
    <3>. QED BY <2>4, <3>2, <3>3 DEF CallFinishes
  <2>. QED BY <1>2, <1>3, <2>2, <2>3, <2>4, RegisterEnters DEF CallStep
<1>4. ASSUME NEW s \in Sessions, OwnerStep(s) \/ OwnerCloses(s) PROVE ResolutionInv' /\ Final
  <2>1. s \in Threads /\ s \notin Calls BY ThreadKinds
  <2>2. CASE OwnerReceives(s) \/ OwnerSeesEnd(s) \/ OwnerCloses(s)
    <3>1. UNCHANGED <<pending, closePends, popped, pumpPc, pendingConnects>>
      BY <2>2 DEF OwnerReceives, OwnerSeesEnd, OwnerCloses, coreVars, objectVars, tableVars,
                  pumpVars, closeVars
    <3>2. UNCHANGED pc \/ Goes(s, "close")
      BY <2>2 DEF OwnerReceives, OwnerSeesEnd, OwnerCloses
    <3>3. Forward BY <2>1, <3>2, GoesForward, StaysForward
    <3>. QED BY <1>1, <3>1, <3>3
  <2>. QED BY <1>2, <1>4, <2>2 DEF OwnerStep
<1>5. ASSUME NEW a \in Acceptors, AcceptorStep(a) \/ AcceptTimesOut(a)
      PROVE  ResolutionInv' /\ Final
  <2>1. a \in Threads /\ a \notin Calls BY ThreadKinds
  <2>2. UNCHANGED <<pending, closePends, popped, pumpPc, pendingConnects>>
    BY <1>5 DEF AcceptorStep, AcceptBegins, AcceptGets, AcceptReputs, AcceptTimesOut,
                coreVars, objectVars, tableVars, pumpVars, closeVars
  <2>3. CASE \E step : Goes(a, step)
    <3>1. Forward BY <2>1, <2>3, GoesForward
    <3>. QED BY <1>1, <2>2, <3>1
  <2>4. CASE AcceptGets(a)
             /\ pc' = [pc EXCEPT ![a] = "idle", ![Head(acceptQueue)] = "using"]
    <3>1. \A d \in Calls : pc'[d] \in {pc[d], "using"}
      BY <2>1, <2>4 DEF BaseInv, ThreadsOK, ThreadTypeOK, Threads
    <3>2. Forward BY <3>1 DEF Forward
    <3>. QED BY <1>1, <2>2, <3>2
  <2>. QED BY <1>5, <2>3, <2>4
       DEF AcceptorStep, AcceptBegins, AcceptGets, AcceptReputs, AcceptTimesOut
<1>. QED BY <1>3, <1>4, <1>5

LEMMA ResolutionStep ==
    ASSUME BaseInv, ResolutionInv, [Next]_vars
    PROVE  ResolutionInv' /\ Final
<1>1. CASE UNCHANGED vars
  BY <1>1, QuietPump DEF vars, coreVars, objectVars, tableVars, pumpVars, closeVars
<1>2. CASE RakNetMoves /\ UNCHANGED pc
  BY <1>2, QuietPump DEF RakNetMoves, objectVars, tableVars, pumpVars, closeVars
<1>3. CASE PeerCloses /\ UNCHANGED pc
  BY <1>3, SnapshotTakesOver DEF PeerCloses, objectVars, pumpVars
<1>. QED BY <1>1, <1>2, <1>3, PumpResolution, CloserResolution, ThreadResolution DEF Next

LEMMA ResolutionInit == Init => ResolutionInv
<1>. SUFFICES ASSUME Init PROVE ResolutionInv OBVIOUS
<1>1. \A c \in Calls : Target[c] \in Remotes /\ c # None BY PeerAssumption, NoneIsNothing
<1>. QED BY <1>1
     DEF Init, CoreInit, RakNetInit, ResolutionInv, InTable, Fresh, ResolvedExactlyOnce

(* A pending connect whose event is set has either a connection or a       *)
(* reason, whichever of the pump, the teardown and the timeout got to it,  *)
(* so the assert of _finish_connect (_peer.py:409) never fails: for any    *)
(* number of calls, also to the same address.                              *)
THEOREM ResolvedOnce == Spec => []ResolvedExactlyOnce
<1>1. Init => BaseInv /\ ResolutionInv BY BaseInit, ResolutionInit
<1>2. BaseInv /\ ResolutionInv /\ [Next]_vars => (BaseInv /\ ResolutionInv)'
  BY BaseStep, ResolutionStep
<1>3. ResolutionInv => ResolvedExactlyOnce BY DEF ResolutionInv
<1>. QED BY <1>1, <1>2, <1>3, PTL DEF Spec

(* No step changes a pending connect whose event is set: what connect()    *)
(* reads after its wait, without the lock, is final.                       *)
THEOREM ResolvedForGood == Spec => ResolutionIsFinal
<1>1. Init => BaseInv /\ ResolutionInv BY BaseInit, ResolutionInit
<1>2. BaseInv /\ ResolutionInv /\ [Next]_vars => (BaseInv /\ ResolutionInv)'
  BY BaseStep, ResolutionStep
<1>3. BaseInv /\ ResolutionInv /\ [Next]_vars
          => [\A c \in Calls : pending[c].event => pending'[c] = pending[c]]_vars
  BY ResolutionStep DEF Final
<1>. QED BY <1>1, <1>2, <1>3, PTL DEF Spec, ResolutionIsFinal

-----------------------------------------------------------------------------
(* The entry of a connect() that waits is in the table until the pump or   *)
(* the teardown takes it, and whoever took it sets its event.  This holds  *)
(* as long as no two calls dial the same address; the second one would     *)
(* replace the entry of the first.                                         *)

WaitPcs == {"dial", "wait", "abandon", "rewait"}

Waiting(c) == pc[c] \in WaitPcs /\ ~pending[c].event

(* The teardown has pending connects only once it began. *)
SnapshotInv == ~closed => closePends = {}

(* The pump or the teardown is about to set the event of c. *)
Held(c) == popped = c \/ c \in closePends

LEMMA WaiterInvIs ==
    WaiterInv <=> \A c \in Calls : Waiting(c) => (pc[c] # "rewait" /\ InTable(c)) \/ Held(c)
BY DEF WaiterInv, Waiting, WaitPcs, Held

LEMMA WaitersKept ==
    ASSUME WaiterInv, Final,
           \A c \in Calls : pc'[c] \in WaitPcs =>
               pc[c] \in WaitPcs /\ (pc'[c] = "rewait" => pc[c] = "rewait" \/ ~InTable(c)),
           \A c \in Calls : Waiting(c)' /\ pc'[c] # "rewait" /\ InTable(c) => InTable(c)' \/ Held(c)',
           \A c \in Calls : Waiting(c)' /\ Held(c) => Held(c)'
    PROVE  WaiterInv'
<1>1. SUFFICES ASSUME NEW c \in Calls, Waiting(c)'
               PROVE  (pc'[c] # "rewait" /\ InTable(c)') \/ Held(c)'
  BY DEF WaiterInv, Waiting, WaitPcs, Held
<1>2. Waiting(c) BY <1>1 DEF Waiting, Final
<1>3. (pc[c] # "rewait" /\ InTable(c)) \/ Held(c) BY <1>2, WaiterInvIs
<1>. QED BY <1>1, <1>3 DEF Waiting

(* A step that takes no entry and sets no event. *)
LEMMA WaitersUntouched ==
    ASSUME WaiterInv, UNCHANGED <<pending, closePends, pendingConnects, pc>>,
           popped # None => popped' = popped
    PROVE  WaiterInv'
<1>1. Final BY DEF Final
<1>2. \A c \in Calls : Held(c) => Held(c)' BY PeerAssumption, NoneIsNothing DEF Held
<1>. QED BY <1>1, <1>2, WaitersKept DEF InTable

-----------------------------------------------------------------------------
(* The pump and the teardown *)

LEMMA PopKeepsWaiters ==
    ASSUME BaseInv, ResolutionInv, WaiterInv, PumpPopsPending, UNCHANGED pc
    PROVE  WaiterInv'
<1>1. PICK r \in Remotes : r = packet.from
  BY PumpHolds, PumpLeaves, PacketProperties DEF BaseInv, PumpPopsPending
<1>2. /\ pendingConnects' = [pendingConnects EXCEPT ![r] = None]
      /\ UNCHANGED <<pending, closePends>>
  BY <1>1 DEF PumpPopsPending, objectVars, closeVars
<1>3. popped = None
  BY PumpLeaves DEF BaseInv, PumpOK, PumpInv, PumpPopsPending
<1>4. pendingConnects[r] # None => popped' = pendingConnects[r]
  BY <1>1 DEF PumpPopsPending
<1>5. \A c \in Calls : c # None /\ Target[c] \in Remotes BY PeerAssumption, NoneIsNothing
<1>6. ASSUME NEW c \in Calls, InTable(c) PROVE InTable(c)' \/ Held(c)'
  <2>1. CASE Target[c] = r BY <1>4, <1>5, <1>6, <2>1 DEF InTable, Held
  <2>2. CASE Target[c] # r
    BY <1>2, <1>5, <1>6, <2>2 DEF InTable, BaseInv, TablesOK, TableTypeOK
  <2>. QED BY <2>1, <2>2
<1>7. \A c \in Calls : Held(c) => Held(c)' BY <1>2, <1>3, <1>5 DEF Held
<1>8. Final BY <1>2 DEF Final
<1>. QED BY <1>6, <1>7, <1>8, WaitersKept

(* Whoever holds a pending connect sets its event, or still holds it. *)
LEMMA WritesKeepWaiters ==
    ASSUME WaiterInv, Final, UNCHANGED <<pendingConnects, pc>>,
           \A c \in Calls : Held(c) => pending'[c].event \/ Held(c)'
    PROVE  WaiterInv'
BY WaitersKept DEF InTable, Waiting

LEMMA PumpWritesKeepsWaiters ==
    ASSUME BaseInv, ResolutionInv, WaiterInv, UNCHANGED pc,
           SucceededPublishes \/ SucceededSets \/ FailedSets
    PROVE  WaiterInv'
<1>1. Final BY PumpWrites
<1>2. UNCHANGED <<pendingConnects, closePends>>
  BY DEF SucceededPublishes, SucceededSets, FailedSets, tableVars, closeVars
<1>3. PICK c \in Calls : c = popped
  BY PumpHolds, PumpLeaves DEF BaseInv, SucceededPublishes, SucceededSets, FailedSets
<1>4. popped' = c \/ pending'[c].event
  <2>1. pending \in [Calls -> PendingConnect] BY DEF BaseInv, ObjectsOK, ObjectTypeOK
  <2>2. CASE SucceededPublishes BY <1>3, <2>2 DEF SucceededPublishes, PumpGoesTo
  <2>3. CASE SucceededSets BY <1>3, <2>1, <2>3 DEF SucceededSets, PendingConnect
  <2>4. CASE FailedSets
    <3>1. pending'[c] = [pending[c] EXCEPT !.reason = packet.id, !.event = TRUE]
      BY <1>3, <2>1, <2>4 DEF FailedSets
    <3>. QED BY <2>1, <3>1 DEF PendingConnect
  <2>. QED BY <2>2, <2>3, <2>4
<1>5. \A d \in Calls : Held(d) => pending'[d].event \/ Held(d)' BY <1>2, <1>3, <1>4 DEF Held
<1>. QED BY <1>1, <1>2, <1>5, WritesKeepWaiters

LEMMA TeardownWritesKeepsWaiters ==
    ASSUME BaseInv, ResolutionInv, WaiterInv, UNCHANGED pc, NEW c \in Calls, FinishFailsPending(c)
    PROVE  WaiterInv'
<1>1. Final BY TeardownWrites
<1>2. pending \in [Calls -> PendingConnect] BY DEF BaseInv, ObjectsOK, ObjectTypeOK
<1>3. pending'[c] = [pending[c] EXCEPT !.reason = ID_CONNECTION_ATTEMPT_FAILED, !.event = TRUE]
  BY <1>2 DEF FinishFailsPending
<1>4. pending'[c].event BY <1>2, <1>3 DEF PendingConnect
<1>5. closePends' = closePends \ {c} /\ UNCHANGED <<pendingConnects, popped>>
  BY DEF FinishFailsPending, tableVars, pumpVars
<1>6. \A d \in Calls : Held(d) => pending'[d].event \/ Held(d)' BY <1>4, <1>5 DEF Held
<1>. QED BY <1>1, <1>5, <1>6, WritesKeepWaiters

LEMMA SnapshotKeepsWaiters ==
    ASSUME SnapshotInv, WaiterInv, UNCHANGED <<pending, popped, pc>>,
           NEW next, BeginClose(next)
    PROVE  WaiterInv'
<1>1. \A c \in Calls : c # None /\ Target[c] \in Remotes BY PeerAssumption, NoneIsNothing
<1>2. \A c \in Calls : InTable(c) => c \in closePends'
  BY <1>1 DEF InTable, BeginClose, TableOf
<1>3. closePends = {} BY DEF BeginClose, SnapshotInv
<1>4. \A c \in Calls : Held(c) => Held(c)' BY <1>3 DEF Held
<1>5. Final BY DEF Final
<1>. QED BY <1>2, <1>4, <1>5, WaitersKept DEF Held

-----------------------------------------------------------------------------
(* The threads *)

(* No two calls dial the same address. *)
OneCallEach == \A c, d \in Calls : Target[c] = Target[d] => c = d

(* A thread that is no call, or a call that takes nothing of another one.  *)
LEMMA ThreadKeepsWaiters ==
    ASSUME BaseInv, WaiterInv, UNCHANGED <<pending, closePends, popped>>,
           \A c \in Calls : pc'[c] \in WaitPcs =>
               pc[c] \in WaitPcs /\ (pc'[c] = "rewait" => pc[c] = "rewait" \/ ~InTable(c)),
           \A c \in Calls : pc'[c] \in WaitPcs \ {"rewait"} /\ InTable(c) => InTable(c)'
    PROVE  WaiterInv'
<1>1. Final BY DEF Final
<1>. QED BY <1>1, WaitersKept DEF Waiting, Held

(* Where a step of thread t leaves the calls. *)
LEMMA GoesNowhereElse ==
    ASSUME BaseInv, NEW t \in Threads, NEW step, Goes(t, step)
    PROVE  pc'[t] = step /\ \A u \in Threads : u # t => pc'[u] = pc[u]
BY DEF Goes, BaseInv, ThreadsOK, ThreadTypeOK

LEMMA CallKeepsWaiters ==
    ASSUME OneCallEach, BaseInv, WaiterInv, NEW c \in Calls,
           \/ CallBegins(c) \/ CallDials(c) \/ CallUndials(c) \/ CallTimesOut(c)
           \/ CallAbandons(c) \/ CallCancels(c) \/ CallRewaits(c)
    PROVE  WaiterInv'
<1>1. c \in Threads /\ \A d \in Calls : d \in Threads /\ d # None /\ Target[d] \in Remotes
  BY ThreadKinds, PeerAssumption, NoneIsNothing
<1>2. UNCHANGED <<pending, closePends, popped>>
  BY DEF CallBegins, CallDials, CallUndials, CallTimesOut, CallAbandons, CallCancels,
         CallRewaits, PopPendingOf, coreVars, objectVars, pumpVars, closeVars
<1>3. PICK step : Goes(c, step)
  BY DEF CallBegins, CallDials, CallUndials, CallTimesOut, CallAbandons, CallCancels, CallRewaits
<1>4. pc'[c] = step /\ \A d \in Calls : d # c => pc'[d] = pc[d]
  BY <1>1, <1>3, GoesNowhereElse
<1>5. ASSUME NEW d \in Calls, d # c PROVE InTable(d)' <=> InTable(d)
  <2>1. Target[d] # Target[c] BY <1>5 DEF OneCallEach
  <2>2. pendingConnects' = pendingConnects
          \/ pendingConnects' = [pendingConnects EXCEPT ![Target[c]] = None]
    BY DEF CallBegins, CallDials, CallUndials, CallTimesOut, CallAbandons, CallCancels,
           CallRewaits, PopPendingOf, coreVars, tableVars
  <2>. QED BY <1>1, <2>1, <2>2 DEF InTable, BaseInv, TablesOK, TableTypeOK
<1>6. /\ pc'[c] \in WaitPcs =>
             pc[c] \in WaitPcs /\ (pc'[c] = "rewait" => pc[c] = "rewait" \/ ~InTable(c))
      /\ pc'[c] \in WaitPcs \ {"rewait"} /\ InTable(c) => InTable(c)'
  <2>1. CASE CallBegins(c) \/ CallCancels(c) \/ CallRewaits(c) \/ CallUndials(c)
    <3>1. pc'[c] \notin WaitPcs
      BY <1>1, <2>1, GoesNowhereElse
         DEF CallBegins, CallCancels, CallRewaits, CallUndials, WaitPcs
    <3>. QED BY <3>1
  <2>2. CASE CallDials(c) \/ CallTimesOut(c)
    <3>1. pc[c] \in WaitPcs /\ pc'[c] \in {"wait", "undial", "abandon"}
      BY <1>1, <2>2, GoesNowhereElse DEF CallDials, CallTimesOut, WaitPcs
    <3>2. UNCHANGED pendingConnects BY <2>2 DEF CallDials, CallTimesOut, coreVars, tableVars
    <3>. QED BY <3>1, <3>2 DEF InTable
  <2>3. CASE CallAbandons(c)
    <3>1. pc[c] = "abandon" /\ pc'[c] = IF pendingConnects[Target[c]] = None THEN "rewait" ELSE "cancel"
      BY <1>1, <2>3, GoesNowhereElse DEF CallAbandons
    <3>. QED BY <1>1, <3>1 DEF InTable, WaitPcs
  <2>. QED BY <2>1, <2>2, <2>3
<1>. QED BY <1>2, <1>4, <1>5, <1>6, ThreadKeepsWaiters

LEMMA RegisterKeepsWaiters ==
    ASSUME OneCallEach, BaseInv, WaiterInv, NEW c \in Calls, CallRegisters(c)
    PROVE  WaiterInv'
<1>1. c \in Threads /\ \A d \in Calls : d \in Threads /\ d # None /\ Target[d] \in Remotes
  BY ThreadKinds, PeerAssumption, NoneIsNothing
<1>2. UNCHANGED <<pending, closePends, popped>> BY DEF CallRegisters, objectVars, pumpVars, closeVars
<1>3. CASE Goes(c, "raised") /\ UNCHANGED pendingConnects
  BY <1>1, <1>2, <1>3, GoesNowhereElse, ThreadKeepsWaiters DEF InTable, WaitPcs
<1>4. CASE pendingConnects' = [pendingConnects EXCEPT ![Target[c]] = c] /\ Goes(c, "dial")
  <2>1. InTable(c)' BY <1>1, <1>4 DEF InTable, BaseInv, TablesOK, TableTypeOK
  <2>2. ASSUME NEW d \in Calls, d # c PROVE InTable(d)' <=> InTable(d)
    BY <1>1, <1>4, <2>2 DEF OneCallEach, InTable, BaseInv, TablesOK, TableTypeOK
  <2>3. pc'[c] = "dial" /\ \A d \in Calls : d # c => pc'[d] = pc[d]
    BY <1>1, <1>4, GoesNowhereElse
  <2>4. SUFFICES ASSUME NEW d \in Calls, Waiting(d)'
                 PROVE  (pc'[d] # "rewait" /\ InTable(d)') \/ Held(d)'
    BY DEF WaiterInv, Waiting, WaitPcs, Held
  <2>5. CASE d = c BY <2>1, <2>3, <2>5
  <2>6. CASE d # c
    <3>1. Waiting(d) /\ (Held(d)' <=> Held(d)) BY <1>2, <2>3, <2>4, <2>6 DEF Waiting, Held
    <3>. QED BY <2>2, <2>3, <2>6, <3>1, WaiterInvIs
  <2>. QED BY <2>5, <2>6
<1>. QED BY <1>3, <1>4 DEF CallRegisters

(* A step after which no call waits that did not. *)
LEMMA OthersKeepWaiters ==
    ASSUME BaseInv, WaiterInv, UNCHANGED <<pending, closePends, popped, pendingConnects>>,
           \A c \in Calls : pc'[c] \in WaitPcs => pc'[c] = pc[c]
    PROVE  WaiterInv'
BY ThreadKeepsWaiters DEF InTable

LEMMA ThreadsKeepWaiters ==
    ASSUME OneCallEach, BaseInv, WaiterInv,
           \/ \E c \in Calls : CallStep(c) \/ CallTimesOut(c)
           \/ \E s \in Sessions : OwnerStep(s) \/ OwnerCloses(s)
           \/ \E a \in Acceptors : AcceptorStep(a) \/ AcceptTimesOut(a)
    PROVE  WaiterInv'
<1>1. \A c \in Calls : c \in Threads BY ThreadKinds
<1>2. ASSUME NEW t \in Calls \cup Sessions, CloseStep(t) PROVE WaiterInv'
  <2>1. UNCHANGED <<pending, closePends, popped, pendingConnects>>
    BY <1>2 DEF CloseStep, CloseChecks, ClosePops, CloseMarks, CloseHangsUp,
                CloseClosesMailbox, coreVars, objectVars, tableVars, pumpVars, closeVars
  <2>2. PICK step : Goes(t, step) /\ step \notin WaitPcs
    <3>1. PICK after : after = AfterClose(t) /\ after \notin WaitPcs
      BY DEF AfterClose, WaitPcs
    <3>2. PICK step \in ClosePcs \cup {after} : Goes(t, step)
      BY <1>2, <3>1 DEF CloseStep, CloseChecks, ClosePops, CloseMarks, CloseHangsUp,
                        CloseClosesMailbox, ClosePcs
    <3>. QED BY <3>1, <3>2 DEF ClosePcs, WaitPcs
  <2>3. t \in Threads BY DEF Threads
  <2>. QED BY <1>1, <2>1, <2>2, <2>3, GoesNowhereElse, OthersKeepWaiters
<1>3. ASSUME NEW c \in Calls, CallFinishes(c) PROVE WaiterInv'
  <2>1. UNCHANGED <<pending, closePends, popped, pendingConnects>>
    BY <1>3 DEF CallFinishes, coreVars, objectVars, tableVars, pumpVars, closeVars
  <2>2. CASE Goes(c, "raised")
    BY <1>1, <2>1, <2>2, GoesNowhereElse, OthersKeepWaiters DEF WaitPcs
  <2>3. CASE pc' = [pc EXCEPT ![c] = "returned", ![pending[c].connection] = "using"]
    <3>1. \A d \in Calls : pc'[d] \in {pc[d], "returned", "using"}
      BY <2>3 DEF BaseInv, ThreadsOK, ThreadTypeOK, Threads
    <3>. QED BY <2>1, <3>1, OthersKeepWaiters DEF WaitPcs
  <2>. QED BY <1>3, <2>2, <2>3 DEF CallFinishes
<1>4. ASSUME NEW s \in Sessions, OwnerReceives(s) \/ OwnerSeesEnd(s) \/ OwnerCloses(s)
      PROVE  WaiterInv'
  <2>1. UNCHANGED <<pending, closePends, popped, pendingConnects>>
    BY <1>4 DEF OwnerReceives, OwnerSeesEnd, OwnerCloses, coreVars, objectVars, tableVars,
                pumpVars, closeVars
  <2>2. UNCHANGED pc \/ Goes(s, "close") BY <1>4 DEF OwnerReceives, OwnerSeesEnd, OwnerCloses
  <2>3. s \in Threads BY DEF Threads
  <2>. QED BY <1>1, <2>1, <2>2, <2>3, GoesNowhereElse, OthersKeepWaiters DEF WaitPcs
<1>5. ASSUME NEW a \in Acceptors, AcceptorStep(a) \/ AcceptTimesOut(a) PROVE WaiterInv'
  <2>1. a \in Threads /\ a \notin Calls BY ThreadKinds
  <2>2. UNCHANGED <<pending, closePends, popped, pendingConnects>>
    BY <1>5 DEF AcceptorStep, AcceptBegins, AcceptGets, AcceptReputs, AcceptTimesOut,
                coreVars, objectVars, tableVars, pumpVars, closeVars
  <2>3. CASE \E step : Goes(a, step)
    BY <1>1, <2>1, <2>2, <2>3, GoesNowhereElse, OthersKeepWaiters
  <2>4. CASE pc' = [pc EXCEPT ![a] = "idle", ![Head(acceptQueue)] = "using"]
    <3>1. \A d \in Calls : pc'[d] \in {pc[d], "using"}
      BY <2>1, <2>4 DEF BaseInv, ThreadsOK, ThreadTypeOK, Threads
    <3>. QED BY <2>2, <3>1, OthersKeepWaiters DEF WaitPcs
  <2>. QED BY <1>5, <2>3, <2>4
       DEF AcceptorStep, AcceptBegins, AcceptGets, AcceptReputs, AcceptTimesOut
<1>. QED BY <1>2, <1>3, <1>4, <1>5, CallKeepsWaiters, RegisterKeepsWaiters
     DEF CallStep, OwnerStep

-----------------------------------------------------------------------------
(* Every step *)

LEMMA PumpKeepsWaiters ==
    ASSUME BaseInv, ResolutionInv, SnapshotInv, WaiterInv, UNCHANGED pc, PumpStep \/ PumpCrashes
    PROVE  WaiterInv'
<1>1. CASE PumpChecks \/ PumpIdles \/ PumpReceives \/ PumpCrashes \/ IncomingInserts
           \/ IncomingQueues \/ SucceededInserts
  <2>1. UNCHANGED <<pending, closePends, pendingConnects>>
    BY <1>1 DEF PumpChecks, PumpIdles, PumpReceives, PumpCrashes, IncomingInserts,
                IncomingQueues, SucceededInserts, objectVars, closeVars, tableVars
  <2>2. popped = None \/ popped' = popped
    <3>1. CASE SucceededInserts BY <3>1 DEF SucceededInserts, PumpGoesTo
    <3>2. CASE ~SucceededInserts
      <4>1. pumpPc \in {"check", "receive", "incoming_connection", "accept_put"}
        BY <1>1, <3>2 DEF PumpChecks, PumpIdles, PumpReceives, PumpCrashes, IncomingInserts,
                          IncomingQueues
      <4>. QED BY <4>1, PumpLeaves DEF BaseInv, PumpOK, PumpInv, PendingPcs
    <3>. QED BY <3>1, <3>2
  <2>. QED BY <2>1, <2>2, WaitersUntouched
<1>2. CASE \/ MessageLooksUp \/ MessagePuts
           \/ OverflowPops \/ OverflowMarks \/ OverflowHangsUp \/ OverflowClosesMailbox
           \/ DisconnectedPops \/ DisconnectedMarks \/ DisconnectedClosesMailbox
  <2>1. UNCHANGED <<pending, closePends, pendingConnects>>
    BY <1>2 DEF MessageLooksUp, MessagePuts, OverflowPops, OverflowMarks, OverflowHangsUp,
                OverflowClosesMailbox, DisconnectedPops, DisconnectedMarks,
                DisconnectedClosesMailbox, objectVars, closeVars, tableVars
  <2>2. pumpPc \in MessagePcs \cup FoundPcs \cup {"disconnected"}
    BY <1>2, PumpLeaves
       DEF MessageLooksUp, MessagePuts, OverflowPops, OverflowMarks, OverflowHangsUp,
           OverflowClosesMailbox, DisconnectedPops, DisconnectedMarks,
           DisconnectedClosesMailbox
  <2>3. popped = None
    BY <2>2, PumpLeaves DEF BaseInv, PumpOK, PumpInv, MessagePcs, FoundPcs, PendingPcs
  <2>. QED BY <2>1, <2>3, WaitersUntouched
<1>3. CASE PumpFails
  <2>1. UNCHANGED <<pending, popped>> BY <1>3 DEF PumpFails, PumpGoesTo, objectVars
  <2>2. CASE UNCHANGED <<tableVars, closeVars>>
    BY <2>1, <2>2, WaitersUntouched DEF tableVars, closeVars
  <2>3. CASE BeginClose("shutdown") BY <2>1, <2>3, SnapshotKeepsWaiters
  <2>. QED BY <1>3, <2>2, <2>3 DEF PumpFails
<1>. QED BY <1>1, <1>2, <1>3, PopKeepsWaiters, PumpWritesKeepsWaiters DEF PumpStep

LEMMA CloserKeepsWaiters ==
    ASSUME BaseInv, ResolutionInv, WaiterInv, UNCHANGED pc, CloserStep
    PROVE  WaiterInv'
<1>1. CASE \/ CloserJoinsPump \/ CloserShutsDown \/ FinishClosesMailbox \/ FinishQueuesSentinel
           \/ \E s \in Sessions : FinishMarks(s)
  <2>1. UNCHANGED <<pending, closePends, pendingConnects, popped>>
    BY <1>1 DEF CloserJoinsPump, CloserShutsDown, FinishClosesMailbox, FinishQueuesSentinel,
                FinishMarks, objectVars, tableVars, pumpVars, PumpGoesTo
  <2>. QED BY <2>1, WaitersUntouched
<1>. QED BY <1>1, TeardownWritesKeepsWaiters DEF CloserStep

LEMMA SnapshotStep ==
    ASSUME BaseInv, SnapshotInv, [Next]_vars
    PROVE  SnapshotInv'
<1>1. UNCHANGED <<closed, closePends>> \/ closed' = TRUE
  <2>1. CASE RakNetMoves \/ UNCHANGED vars
    BY <2>1 DEF RakNetMoves, vars, coreVars, closeVars
  <2>2. CASE PumpStep \/ PumpCrashes
    BY <2>2 DEF PumpStep, PumpChecks, PumpIdles, PumpReceives, PumpCrashes, IncomingInserts,
         IncomingQueues, PumpPopsPending, SucceededInserts, SucceededPublishes, SucceededSets,
         FailedSets, MessageLooksUp, MessagePuts, OverflowPops, OverflowMarks, OverflowHangsUp,
         OverflowClosesMailbox, DisconnectedPops, DisconnectedMarks, DisconnectedClosesMailbox,
         PumpFails, BeginClose, closeVars
  <2>3. CASE PeerCloses BY <2>3 DEF PeerCloses, BeginClose
  <2>4. CASE CloserStep
    <3>1. closed' = closed /\ (closePhase # "open" \/ UNCHANGED closePends)
      BY <2>4 DEF CloserStep, CloserJoinsPump, CloserShutsDown, FinishMarks, FinishClosesMailbox,
           FinishFailsPending, FinishQueuesSentinel
    <3>2. closePhase # "open" => closed = TRUE
      BY DEF BaseInv, CloseOK, CloseTypeOK, CloseInv
    <3>. QED BY <3>1, <3>2
  <2>5. CASE \/ \E c \in Calls : CallStep(c) \/ CallTimesOut(c)
             \/ \E s \in Sessions : OwnerStep(s) \/ OwnerCloses(s)
             \/ \E a \in Acceptors : AcceptorStep(a) \/ AcceptTimesOut(a)
    BY <2>5 DEF CallStep, CallBegins, CallRegisters, CallDials, CallUndials, CallFinishes,
         CallAbandons, CallCancels, CallRewaits, CallTimesOut, PopPendingOf, CloseStep,
         CloseChecks, ClosePops, CloseMarks, CloseHangsUp, CloseClosesMailbox, OwnerStep,
         OwnerReceives, OwnerSeesEnd, OwnerCloses, AcceptorStep, AcceptBegins, AcceptGets,
         AcceptReputs, AcceptTimesOut, coreVars, closeVars
  <2>. QED BY <2>1, <2>2, <2>3, <2>4, <2>5 DEF Next
<1>. QED BY <1>1 DEF SnapshotInv

LEMMA WaiterInit == Init => SnapshotInv /\ WaiterInv
BY DEF Init, CoreInit, SnapshotInv, WaiterInv, Threads

LEMMA WaiterStep ==
    ASSUME OneCallEach, BaseInv, ResolutionInv, SnapshotInv, WaiterInv, [Next]_vars
    PROVE  WaiterInv'
<1>1. CASE UNCHANGED vars
  BY <1>1, WaitersUntouched DEF vars, coreVars, objectVars, tableVars, pumpVars, closeVars
<1>2. CASE RakNetMoves /\ UNCHANGED pc
  BY <1>2, WaitersUntouched DEF RakNetMoves, objectVars, tableVars, pumpVars, closeVars
<1>3. CASE PeerCloses /\ UNCHANGED pc
  BY <1>3, SnapshotKeepsWaiters DEF PeerCloses, objectVars, pumpVars
<1>. QED BY <1>1, <1>2, <1>3, PumpKeepsWaiters, CloserKeepsWaiters, ThreadsKeepWaiters DEF Next

(* A connect() blocked on an unset event is known to a thread that will    *)
(* set it (_peer.py, _pop_pending and _begin_close), for any number of     *)
(* calls as long as no two of them dial the same address.                  *)
THEOREM WaitersAreReachable ==
    ASSUME \A c, d \in Calls : Target[c] = Target[d] => c = d
    PROVE  Spec => []WaiterIsReachable
<1>. DEFINE Inv == BaseInv /\ ResolutionInv /\ SnapshotInv /\ WaiterInv
<1>1. Init => Inv BY BaseInit, ResolutionInit, WaiterInit
<1>2. Inv /\ [Next]_vars => Inv'
  BY BaseStep, ResolutionStep, SnapshotStep, WaiterStep DEF OneCallEach
<1>3. Inv => WaiterIsReachable BY DEF WaiterInv, WaiterIsReachable, InTable
<1>. QED BY <1>1, <1>2, <1>3, PTL DEF Spec

-----------------------------------------------------------------------------
(* Connections: what a step must leave alone, part by part. *)

OpeningPump == {"incoming_connection", "connect_succeeded", "succeeded_insert"}
MarkedPump  == {"overflow_hangup", "overflow_mailbox", "disconnected_mailbox"}
HangUpPcs   == {"close_hangup", "close_mailbox"}

BuiltNext(s)  == s \in Sessions /\ connState'[s] # "none"
ClosedNext(s) == s \in Sessions /\ connState'[s] = "closed"


StatesStay ==
    \A s \in Sessions : /\ connState[s] # "none" => connState'[s] # "none"
                        /\ connState[s] = "closed" => connState'[s] = "closed"

PumpQuiet ==
    /\ pumpPc' \in BuiltPump => \/ pumpPc \in BuiltPump /\ packet' = packet
                                \/ BuiltNext(packet'.session)
    /\ pumpPc' \in MarkedPump => \/ pumpPc \in MarkedPump /\ found' = found
                                 \/ ClosedNext(found')
    /\ found' # None => found' = found \/ BuiltNext(found')

TablesQuiet ==
    \A r \in Remotes : \/ connections'[r] \in {connections[r], None}
                       \/ BuiltNext(connections'[r])

PendingQuiet ==
    \A c \in Calls : \/ pending'[c].connection = pending[c].connection
                     \/ pending[c].connection = None /\ BuiltNext(pending'[c].connection)

QueueQuiet ==
    \A i \in 1 .. Len(acceptQueue') :
        \/ acceptQueue'[i] = None
        \/ \E j \in 1 .. Len(acceptQueue) : acceptQueue'[i] = acceptQueue[j]
        \/ BuiltNext(acceptQueue'[i])

SnapshotQuiet ==
    /\ \A s \in closeConns' : s \in closeConns \/ BuiltNext(s)
    /\ marked' # None => marked' = marked \/ ClosedNext(marked')

ThreadsQuiet ==
    /\ \A s \in Sessions : pc'[s] # "idle" => pc[s] # "idle" \/ BuiltNext(s)
    /\ \A t \in Calls \cup Sessions : pc'[t] \in HangUpPcs =>
           pc[t] \in ClosePcs /\ (pc[t] \in HangUpPcs \/ ClosedNext(Closing(t)))

MailboxQuiet ==
    \A s \in Sessions : mailbox'[s].exc # None => mailbox[s].exc # None \/ ClosedNext(s)

Quiet ==
    /\ StatesStay /\ PumpQuiet /\ TablesQuiet /\ PendingQuiet /\ QueueQuiet
    /\ SnapshotQuiet /\ ThreadsQuiet /\ MailboxQuiet

NoneStay == \A s \in Sessions : connState[s] = "none" => connState'[s] = "none"

PacketsQuiet ==
    \A i \in 1 .. Len(packets') : packets'[i].id \in OpeningIds =>
        i \in 1 .. Len(packets) /\ packets'[i] = packets[i]

OpeningQuiet ==
    /\ NoneStay /\ PacketsQuiet
    /\ pumpPc' \in OpeningPump => pumpPc \in OpeningPump /\ packet' = packet

(* The parts a step does not touch. *)
LEMMA Untouched ==
    /\ UNCHANGED connState => StatesStay /\ NoneStay
    /\ UNCHANGED pumpVars => PumpQuiet /\ (pumpPc' \in OpeningPump => pumpPc \in OpeningPump /\ packet' = packet)
    /\ PumpReturns => PumpQuiet /\ pumpPc' \notin OpeningPump
    /\ UNCHANGED connections => TablesQuiet
    /\ UNCHANGED pending => PendingQuiet
    /\ UNCHANGED acceptQueue => QueueQuiet
    /\ UNCHANGED <<closeConns, marked>> => SnapshotQuiet
    /\ UNCHANGED mailbox => MailboxQuiet
    /\ UNCHANGED packets => PacketsQuiet
<1>1. UNCHANGED connState => StatesStay /\ NoneStay BY DEF StatesStay, NoneStay
<1>2. UNCHANGED pumpVars =>
          PumpQuiet /\ (pumpPc' \in OpeningPump => pumpPc \in OpeningPump /\ packet' = packet)
  BY DEF pumpVars, PumpQuiet
<1>3. PumpReturns => PumpQuiet /\ pumpPc' \notin OpeningPump
  BY DEF PumpReturns, PumpQuiet, OpeningPump, BuiltPump, MarkedPump
<1>4. UNCHANGED connections => TablesQuiet BY DEF TablesQuiet
<1>5. UNCHANGED pending => PendingQuiet BY DEF PendingQuiet
<1>6. UNCHANGED acceptQueue => QueueQuiet BY DEF QueueQuiet
<1>7. UNCHANGED <<closeConns, marked>> => SnapshotQuiet BY DEF SnapshotQuiet
<1>8. UNCHANGED mailbox => MailboxQuiet BY DEF MailboxQuiet
<1>9. UNCHANGED packets => PacketsQuiet BY DEF PacketsQuiet
<1>. QED BY <1>1, <1>2, <1>3, <1>4, <1>5, <1>6, <1>7, <1>8, <1>9

LEMMA ThreadsUntouched ==
    ASSUME BaseInv, UNCHANGED pc
    PROVE  ThreadsQuiet
BY DEF ThreadsQuiet, HangUpPcs, ClosePcs

-----------------------------------------------------------------------------
(* Such a step keeps the invariant. *)

LEMMA MarkedKept ==
    ASSUME BaseInv, MarkedInv, ClosedMailboxMeansDisconnected, Quiet
    PROVE  MarkedInv' /\ ClosedMailboxMeansDisconnected'
<1>. USE DEF Quiet
<1>1. \A s \in Sessions : connState[s] = "closed" => connState'[s] = "closed" BY DEF StatesStay
<1>2. ASSUME pumpPc' \in MarkedPump PROVE connState'[found'] = "closed"
  <2>1. CASE pumpPc \in MarkedPump /\ found' = found
    <3>1. found \in Sessions
      BY <2>1 DEF MarkedPump, BaseInv, PumpOK, PumpTypeOK, PumpInv, FoundPcs
    <3>. QED BY <1>1, <2>1, <3>1 DEF MarkedInv, MarkedPump
  <2>. QED BY <1>2, <2>1 DEF PumpQuiet, ClosedNext
<1>3. marked' # None => connState'[marked'] = "closed"
  BY <1>1 DEF SnapshotQuiet, ClosedNext, MarkedInv, BaseInv, CloseOK, CloseTypeOK
<1>4. ASSUME NEW t \in Calls \cup Sessions, pc'[t] \in HangUpPcs
      PROVE  connState'[Closing(t)'] = "closed"
  <2>1. pc[t] \in ClosePcs /\ (pc[t] \in HangUpPcs \/ ClosedNext(Closing(t)))
    BY <1>4 DEF ThreadsQuiet
  <2>2. Closing(t) \in Sessions BY <2>1, ClosingIsKnown
  <2>3. connState'[Closing(t)] = "closed"
    BY <1>1, <2>1, <2>2 DEF HangUpPcs, MarkedInv, ClosedNext
  <2>4. Closing(t)' = Closing(t)
    <3>1. CASE t \in Calls
      <4>1. pending[t].connection # None
        BY <2>1, <3>1 DEF BaseInv, ThreadsOK, ThreadInv
      <4>. QED BY <3>1, <4>1 DEF Closing, PendingQuiet
    <3>2. CASE t \notin Calls BY <3>2 DEF Closing
    <3>. QED BY <3>1, <3>2
  <2>. QED BY <2>3, <2>4
<1>5. MarkedInv' BY <1>2, <1>3, <1>4 DEF MarkedInv, MarkedPump, HangUpPcs
<1>6. ClosedMailboxMeansDisconnected'
  BY <1>1 DEF ClosedMailboxMeansDisconnected, MailboxQuiet, ClosedNext
<1>. QED BY <1>5, <1>6

LEMMA BuiltKept ==
    ASSUME BaseInv, BuiltInv, Quiet
    PROVE  BuiltInv'
<1>. USE DEF Quiet, Built, BuiltNext
<1>1. \A s \in Sessions : connState[s] # "none" => connState'[s] # "none" BY DEF StatesStay
<1>2. \A r \in Remotes : connections'[r] # None => connState'[connections'[r]] # "none"
  BY <1>1 DEF TablesQuiet, BuiltInv, BaseInv, TablesOK, TableTypeOK
<1>3. \A c \in Calls : pending'[c].connection # None => connState'[pending'[c].connection] # "none"
  BY <1>1 DEF PendingQuiet, BuiltInv, BaseInv, ObjectsOK, ObjectTypeOK, PendingConnect
<1>4. ASSUME NEW i \in 1 .. Len(acceptQueue'), acceptQueue'[i] # None
      PROVE  connState'[acceptQueue'[i]] # "none"
  <2>1. CASE \E j \in 1 .. Len(acceptQueue) : acceptQueue'[i] = acceptQueue[j]
    <3>1. PICK j \in 1 .. Len(acceptQueue) : acceptQueue'[i] = acceptQueue[j] BY <2>1
    <3>2. acceptQueue[j] \in Sessions \cup {None}
      BY ElementOfSeq DEF BaseInv, QueueOK, QueueTypeOK
    <3>. QED BY <1>1, <1>4, <3>1, <3>2 DEF BuiltInv
  <2>. QED BY <1>4, <2>1 DEF QueueQuiet
<1>5. found' # None => connState'[found'] # "none"
  BY <1>1 DEF PumpQuiet, BuiltInv, BaseInv, PumpOK, PumpTypeOK
<1>6. \A s \in closeConns' : connState'[s] # "none"
  BY <1>1 DEF SnapshotQuiet, BuiltInv, BaseInv, CloseOK, CloseTypeOK
<1>7. \A s \in Sessions : pc'[s] # "idle" => connState'[s] # "none"
  BY <1>1 DEF ThreadsQuiet, BuiltInv
<1>8. ASSUME pumpPc' \in BuiltPump PROVE connState'[packet'.session] # "none"
  <2>1. CASE pumpPc \in BuiltPump /\ packet' = packet
    <3>1. packet.session \in Sessions
      BY <2>1, PumpHolds DEF BuiltPump, OpeningPcs, BaseInv
    <3>. QED BY <1>1, <2>1, <3>1 DEF BuiltInv, BuiltPump
  <2>. QED BY <1>8, <2>1 DEF PumpQuiet
<1>. QED BY <1>2, <1>3, <1>4, <1>5, <1>6, <1>7, <1>8 DEF BuiltInv, BuiltPump

(* A packet that announces a session names it. *)
LEMMA QueuedOpening ==
    ASSUME RakOK, NEW i \in 1 .. Len(packets), packets[i].id \in OpeningIds
    PROVE  packets[i].session \in Sessions /\ Known(packets[i].session)
<1>1. packets[i] \in Packet /\ PacketOK(packets[i])
  BY ElementOfSeq DEF RakOK, RakNetTypeOK, RakInv, PacketsOK
<1>2. packets[i].id \notin Rejections BY IdValues
<1>. QED BY <1>1, <1>2, PacketProperties, NoneIsNothing DEF PacketOK, Known

LEMMA HeldOpening ==
    ASSUME BaseInv, pumpPc \in OpeningPump
    PROVE  packet.session \in Sessions /\ Known(packet.session)
<1>1. packet.session \in Sessions /\ peerOf[packet.session] = packet.from /\ packet \in Packet
  BY PumpHolds DEF OpeningPump, OpeningPcs, BaseInv
<1>. QED BY <1>1, PacketProperties, NoneIsNothing DEF Known

LEMMA OpeningKept ==
    ASSUME BaseInv, OpeningInv, Grows, StatesStay, OpeningQuiet
    PROVE  OpeningInv'
<1>. USE DEF OpeningQuiet
<1>1. ASSUME NEW i \in 1 .. Len(packets'), packets'[i].id \in OpeningIds
      PROVE  /\ i \in 1 .. Len(packets) /\ packets'[i] = packets[i]
             /\ packets[i].session \in Sessions /\ connState'[packets[i].session] = "none"
  <2>1. i \in 1 .. Len(packets) /\ packets'[i] = packets[i] BY <1>1 DEF PacketsQuiet
  <2>2. packets[i].session \in Sessions BY <1>1, <2>1, QueuedOpening DEF BaseInv
  <2>. QED BY <1>1, <2>1, <2>2 DEF OpeningInv, NoneStay
<1>2. ASSUME NEW i \in 1 .. Len(packets'), packets'[i].id \in OpeningIds
      PROVE  /\ connState'[packets'[i].session] = "none"
             /\ \A j \in 1 .. Len(packets') : packets'[j].id \in OpeningIds /\ i # j =>
                    packets'[j].session # packets'[i].session
  BY <1>1, <1>2 DEF OpeningInv
<1>3. ASSUME pumpPc' \in OpeningPump
      PROVE  /\ connState'[packet'.session] = "none"
             /\ \A i \in 1 .. Len(packets') : packets'[i].id \in OpeningIds =>
                    packets'[i].session # packet'.session
  <2>1. pumpPc \in OpeningPump /\ packet' = packet BY <1>3
  <2>2. packet.session \in Sessions BY <2>1, HeldOpening
  <2>. QED BY <1>1, <2>1, <2>2 DEF OpeningInv, OpeningPump, NoneStay
<1>4. \A s \in Sessions : connState'[s] # "none" => Known(s)'
  BY KnownStays DEF OpeningInv, NoneStay
<1>. QED BY <1>2, <1>3, <1>4 DEF OpeningInv, OpeningPump

LEMMA LifeKept ==
    ASSUME BaseInv, LifeInv, Grows, Quiet, OpeningQuiet
    PROVE  LifeInv'
BY OpeningKept, BuiltKept, MarkedKept DEF LifeInv, Quiet

-----------------------------------------------------------------------------
(* RakNet *)

LEMMA PacketsAppendedQuiet ==
    ASSUME RakOK, NEW p, packets' = Append(packets, p), p.id \notin OpeningIds, p \in Packet
    PROVE  PacketsQuiet
<1>1. packets \in Seq(Packet) BY DEF RakOK, RakNetTypeOK
<1>2. /\ Len(packets) \in Nat /\ Len(packets') = Len(packets) + 1
      /\ \A i \in 1 .. Len(packets) : packets'[i] = packets[i]
      /\ packets'[Len(packets) + 1] = p
  BY <1>1, AppendProperties, LenProperties
<1>. QED BY <1>2 DEF PacketsQuiet

LEMMA EndsQuietly ==
    ASSUME RakOK, NEW r \in Remotes, NEW mid \in Byte \ OpeningIds, Ends(r, mid)
    PROVE  PacketsQuiet
<1>1. PICK p \in Packet : p = [id |-> mid, from |-> r, session |-> session[r]]
  BY MakePacket DEF RakOK, RakNetTypeOK
<1>. QED BY <1>1, PacketsAppendedQuiet DEF Ends

LEMMA HangUpQuietly ==
    ASSUME RakOK, NEW s \in Sessions, Known(s), NEW notify \in BOOLEAN, HangUp(s, notify)
    PROVE  PacketsQuiet
<1>1. Guid(s) \in Remotes BY DEF Guid, Known, RakOK, RakNetTypeOK
<1>2. CASE UNCHANGED packets BY <1>2, Untouched
<1>3. CASE Ends(Guid(s), ID_CONNECTION_LOST) BY <1>1, <1>3, EndsQuietly, IdValues
<1>. QED BY <1>2, <1>3 DEF HangUp, RawCloseConnection, rawVars, Ends

LEMMA ShutdownQuietly ==
    ASSUME RawShutdown
    PROVE  PacketsQuiet
<1>1. Len(packets') = 0 BY EmptySeq DEF RawShutdown
<1>. QED BY <1>1 DEF PacketsQuiet

(* The rest of the state while RakNet moves. *)
LEMMA OthersQuiet ==
    ASSUME BaseInv, UNCHANGED <<tableVars, objectVars, acceptQueue, pumpVars, closeVars, pc>>
    PROVE  /\ Quiet /\ NoneStay
           /\ pumpPc' \in OpeningPump => pumpPc \in OpeningPump /\ packet' = packet
<1>1. UNCHANGED <<connections, connState, pending, mailbox, closeConns, marked>>
  BY DEF tableVars, objectVars, closeVars
<1>. QED BY <1>1, Untouched, ThreadsUntouched DEF Quiet

(* RakNet announces a session that nobody has heard of before. *)
LEMMA OpensKeepsLife ==
    ASSUME BaseInv, LifeInv, Grows, NEW r \in Remotes, NEW s \in Sessions, NEW mid \in OpeningIds,
           Opens(r, s, mid), UNCHANGED <<tableVars, objectVars, acceptQueue, pumpVars, closeVars, pc>>
    PROVE  LifeInv'
<1>1. BuiltInv' /\ MarkedInv' /\ ClosedMailboxMeansDisconnected'
  BY OthersQuiet, BuiltKept, MarkedKept DEF LifeInv
<1>2. connState[s] = "none" /\ ~Known(s)
  BY DEF LifeInv, OpeningInv, Opens, Known
<1>3. UNCHANGED <<connState, pumpPc, packet>> BY DEF objectVars, pumpVars
<1>4. PICK p \in Packet : p = [id |-> mid, from |-> r, session |-> s]
  BY MakePacket, IdValues DEF OpeningIds
<1>5. packets \in Seq(Packet) BY DEF BaseInv, RakOK, RakNetTypeOK
<1>6. /\ Len(packets) \in Nat /\ Len(packets') = Len(packets) + 1
      /\ \A i \in 1 .. Len(packets) : packets'[i] = packets[i]
      /\ packets'[Len(packets) + 1] = p
  BY <1>4, <1>5, AppendProperties, LenProperties DEF Opens
<1>7. ASSUME NEW i \in 1 .. Len(packets), packets[i].id \in OpeningIds
      PROVE  packets[i].session # s /\ connState'[packets[i].session] = "none"
  BY <1>2, <1>3, <1>7, QueuedOpening DEF BaseInv, LifeInv, OpeningInv
<1>8. p.session = s /\ connState'[p.session] = "none" BY <1>2, <1>3, <1>4
<1>9. ASSUME NEW i \in 1 .. Len(packets'), packets'[i].id \in OpeningIds
      PROVE  connState'[packets'[i].session] = "none"
  BY <1>6, <1>7, <1>8, <1>9
<1>10. ASSUME NEW i \in 1 .. Len(packets'), packets'[i].id \in OpeningIds,
              NEW j \in 1 .. Len(packets'), packets'[j].id \in OpeningIds, i # j
       PROVE  packets'[j].session # packets'[i].session
  <2>1. CASE i \in 1 .. Len(packets) /\ j \in 1 .. Len(packets)
    BY <1>6, <1>10, <2>1 DEF LifeInv, OpeningInv
  <2>2. CASE i = Len(packets) + 1 /\ j \in 1 .. Len(packets) BY <1>6, <1>7, <1>8, <1>10, <2>2
  <2>3. CASE j = Len(packets) + 1 /\ i \in 1 .. Len(packets) BY <1>6, <1>7, <1>8, <1>10, <2>3
  <2>. QED BY <1>6, <1>10, <2>1, <2>2, <2>3
<1>11. ASSUME pumpPc' \in OpeningPump
       PROVE  /\ connState'[packet'.session] = "none"
              /\ \A i \in 1 .. Len(packets') : packets'[i].id \in OpeningIds =>
                     packets'[i].session # packet'.session
  <2>1. pumpPc \in OpeningPump /\ packet' = packet BY <1>3, <1>11
  <2>2. packet.session # s BY <1>2, <2>1, HeldOpening
  <2>. QED BY <1>3, <1>6, <1>8, <2>1, <2>2 DEF LifeInv, OpeningInv, OpeningPump
<1>12. \A q \in Sessions : connState'[q] # "none" => Known(q)'
  BY <1>3, KnownStays DEF LifeInv, OpeningInv
<1>. QED BY <1>1, <1>9, <1>10, <1>11, <1>12 DEF LifeInv, OpeningInv, OpeningPump

LEMMA RakNetKeepsLife ==
    ASSUME BaseInv, LifeInv, Grows, RakNetMoves, UNCHANGED pc
    PROVE  LifeInv'
<1>. USE DEF RakNetMoves
<1>1. RakOK BY DEF BaseInv
<1>2. ASSUME PacketsQuiet PROVE LifeInv' BY <1>2, OthersQuiet, LifeKept DEF OpeningQuiet
<1>3. ASSUME NEW r \in Remotes, NEW s \in Sessions, RemoteConnects(r, s) \/ RemoteAccepts(r, s)
      PROVE  LifeInv'
  BY <1>3, OpensKeepsLife DEF RemoteConnects, RemoteAccepts, OpeningIds
<1>4. ASSUME NEW r \in Remotes, RemoteRejects(r) PROVE PacketsQuiet
  BY <1>1, <1>4, EndsQuietly, IdValues DEF RemoteRejects
<1>5. ASSUME NEW r \in Remotes, RemoteLeaves(r) \/ LocalCloseCompletes(r) PROVE PacketsQuiet
  BY <1>1, <1>5, EndsQuietly, IdValues DEF RemoteLeaves, LocalCloseCompletes
<1>6. ASSUME NEW r \in Remotes, RemoteSends(r) PROVE PacketsQuiet
  <2>1. PICK p \in Packet : p = [id |-> ID_USER_PACKET_ENUM, from |-> r, session |-> session[r]]
    BY <1>1, MakePacket, IdValues DEF RakOK, RakNetTypeOK
  <2>. QED BY <1>1, <1>6, <2>1, PacketsAppendedQuiet, IdValues DEF RemoteSends
<1>. QED BY <1>2, <1>3, <1>4, <1>5, <1>6 DEF RakNetStep

-----------------------------------------------------------------------------
(* The pump takes the next packet. *)

LEMMA ReceiveTakes ==
    ASSUME RakOK, NEW p, RawReceive(p)
    PROVE  /\ p = packets[1] /\ 1 \in 1 .. Len(packets)
           /\ \A i \in 1 .. Len(packets') :
                  i + 1 \in 1 .. Len(packets) /\ packets'[i] = packets[i + 1] /\ i + 1 # 1
<1>1. packets \in Seq(Packet) /\ packets # <<>> BY DEF RawReceive, RakOK, RakNetTypeOK
<1>2. /\ Len(packets) \in Nat /\ Len(packets) # 0 /\ Len(packets') = Len(packets) - 1
      /\ \A i \in 1 .. Len(packets') : packets'[i] = packets[i + 1]
      /\ Head(packets) = packets[1]
  BY <1>1, HeadTailProperties, LenProperties, EmptySeq DEF RawReceive
<1>. QED BY <1>2 DEF RawReceive

LEMMA ReceiveKeepsOpening ==
    ASSUME BaseInv, OpeningInv, Grows, NEW p, RawReceive(p), UNCHANGED connState,
           pumpPc' \in OpeningPump => packet' = p /\ p.id \in OpeningIds
    PROVE  OpeningInv'
<1>1. /\ p = packets[1] /\ 1 \in 1 .. Len(packets)
      /\ \A i \in 1 .. Len(packets') :
             i + 1 \in 1 .. Len(packets) /\ packets'[i] = packets[i + 1] /\ i + 1 # 1
  BY ReceiveTakes DEF BaseInv
<1>2. ASSUME NEW i \in 1 .. Len(packets'), packets'[i].id \in OpeningIds
      PROVE  /\ connState'[packets'[i].session] = "none"
             /\ \A j \in 1 .. Len(packets') : packets'[j].id \in OpeningIds /\ i # j =>
                    packets'[j].session # packets'[i].session
  <2>1. connState'[packets'[i].session] = "none" BY <1>1, <1>2 DEF OpeningInv
  <2>2. ASSUME NEW j \in 1 .. Len(packets'), packets'[j].id \in OpeningIds, i # j
        PROVE  packets'[j].session # packets'[i].session
    <3>1. i \in Nat /\ j \in Nat /\ i + 1 # j + 1 BY <2>2
    <3>. QED BY <1>1, <1>2, <2>2, <3>1 DEF OpeningInv
  <2>. QED BY <2>1, <2>2
<1>3. ASSUME pumpPc' \in OpeningPump
      PROVE  /\ connState'[packet'.session] = "none"
             /\ \A i \in 1 .. Len(packets') : packets'[i].id \in OpeningIds =>
                    packets'[i].session # packet'.session
  BY <1>1, <1>3 DEF OpeningInv
<1>4. \A s \in Sessions : connState'[s] # "none" => Known(s)' BY KnownStays DEF OpeningInv
<1>. QED BY <1>2, <1>3, <1>4 DEF OpeningInv, OpeningPump

LEMMA ReceiveKeepsLife ==
    ASSUME BaseInv, LifeInv, Grows, UNCHANGED pc, PumpReceives \/ PumpCrashes
    PROVE  LifeInv'
<1>. PICK p : p = Head(packets) OBVIOUS
<1>1. RawReceive(p) /\ UNCHANGED <<tableVars, objectVars, acceptQueue, closeVars>>
  BY DEF PumpReceives, PumpCrashes
<1>2. UNCHANGED <<connections, connState, pending, mailbox, closeConns, marked>>
  BY <1>1 DEF tableVars, objectVars, closeVars
<1>3. p \in Packet BY <1>1, RawReceiveOK DEF BaseInv
<1>4. /\ pumpPc' \in {"check", "crashed"} \/ (pumpPc' = Route(p.id) /\ packet' = p)
      /\ found' \in {found, None}
  BY DEF PumpReceives, PumpCrashes, PumpReturns, PumpGoesTo
<1>5. Route(p.id) \in OpeningPcs => p.id \in OpeningIds BY <1>3, RouteProperties, PacketProperties
<1>6. Route(p.id) \in {"ignored", "pong", "incoming_connection", "connect_succeeded",
                       "connect_failed", "message", "disconnected"}
  BY <1>3, RouteProperties, PacketProperties
<1>7. pumpPc' \in OpeningPump => packet' = p /\ p.id \in OpeningIds
  BY <1>4, <1>5 DEF OpeningPump, OpeningPcs
<1>8. PumpQuiet BY <1>4, <1>6 DEF PumpQuiet, BuiltPump, MarkedPump
<1>9. Quiet BY <1>1, <1>2, <1>8, Untouched, ThreadsUntouched DEF Quiet
<1>. QED BY <1>1, <1>2, <1>7, <1>9, ReceiveKeepsOpening, BuiltKept, MarkedKept DEF LifeInv

-----------------------------------------------------------------------------
(* A Connection is built, for a session that has none. *)

LEMMA BuildKeepsLife ==
    ASSUME BaseInv, LifeInv, Grows, UNCHANGED pc, IncomingInserts \/ SucceededInserts
    PROVE  LifeInv'
<1>1. pumpPc \in OpeningPump BY DEF IncomingInserts, SucceededInserts, OpeningPump
<1>2. PICK s \in Sessions : s = packet.session /\ Known(s) BY <1>1, HeldOpening
<1>3. /\ connState[s] = "none"
      /\ \A i \in 1 .. Len(packets) : packets[i].id \in OpeningIds => packets[i].session # s
  BY <1>1, <1>2 DEF LifeInv, OpeningInv, OpeningPump
<1>4. connState' = [connState EXCEPT ![s] = "open"]
  BY <1>2 DEF IncomingInserts, SucceededInserts, BuildConnection
<1>5. /\ connState'[s] = "open"
      /\ \A q \in Sessions : q # s => connState'[q] = connState[q]
  BY <1>4 DEF BaseInv, ObjectsOK, ObjectTypeOK
<1>6. /\ UNCHANGED <<packets, pending, mailbox, acceptQueue, closeConns, marked, packet, found>>
      /\ pumpPc' \in BuiltPump
  BY DEF IncomingInserts, SucceededInserts, PumpGoesTo, closeVars, rawVars, BuiltPump
<1>7. StatesStay BY <1>3, <1>5 DEF StatesStay
<1>8. PumpQuiet BY <1>2, <1>5, <1>6 DEF PumpQuiet, BuiltPump, MarkedPump, BuiltNext
<1>9. TablesQuiet
  <2>1. packet.from \in Remotes /\ connections' = [connections EXCEPT ![packet.from] = s]
    BY <1>1, <1>2, PumpHolds, PacketProperties
       DEF OpeningPump, OpeningPcs, BaseInv, IncomingInserts, SucceededInserts, BuildConnection
  <2>2. \A r \in Remotes : connections'[r] \in {connections[r], s}
    BY <2>1 DEF BaseInv, TablesOK, TableTypeOK
  <2>. QED BY <1>5, <2>2 DEF TablesQuiet, BuiltNext
<1>10. Quiet BY <1>6, <1>7, <1>8, <1>9, Untouched, ThreadsUntouched DEF Quiet
<1>11. OpeningInv'
  <2>1. ASSUME NEW i \in 1 .. Len(packets), packets[i].id \in OpeningIds
        PROVE  connState'[packets[i].session] = "none"
    BY <1>3, <1>5, <2>1, QueuedOpening DEF BaseInv, LifeInv, OpeningInv
  <2>2. pumpPc' \notin OpeningPump BY <1>6 DEF OpeningPump, BuiltPump
  <2>3. \A q \in Sessions : connState'[q] # "none" => Known(q)'
    BY <1>2, <1>5, KnownStays DEF LifeInv, OpeningInv
  <2>. QED BY <1>6, <2>1, <2>2, <2>3 DEF LifeInv, OpeningInv, OpeningPump
<1>. QED BY <1>10, <1>11, BuiltKept, MarkedKept DEF LifeInv

-----------------------------------------------------------------------------
(* The other callbacks. *)

LEMMA MarkStays ==
    ASSUME BaseInv, NEW s \in Sessions, Built(s), MarkClosed(s)
    PROVE  StatesStay /\ NoneStay /\ ClosedNext(s)
<1>1. /\ connState'[s] = "closed" /\ connState[s] # "none"
      /\ \A q \in Sessions : q # s => connState'[q] = connState[q]
  BY DEF MarkClosed, Built, BaseInv, ObjectsOK, ObjectTypeOK
<1>. QED BY <1>1 DEF StatesStay, NoneStay, ClosedNext

LEMMA PopQuietly ==
    ASSUME BaseInv, NEW s \in Sessions, Known(s), PopConnection(s)
    PROVE  TablesQuiet
<1>1. Guid(s) \in Remotes BY DEF Guid, Known, BaseInv, RakOK, RakNetTypeOK
<1>. QED BY <1>1 DEF PopConnection, TablesQuiet, BaseInv, TablesOK, TableTypeOK

(* Only a mailbox whose connection is closed gets an exception. *)
LEMMA MailboxClosesQuietly ==
    ASSUME BaseInv, NEW s \in Sessions, connState[s] = "closed", UNCHANGED connState,
           NEW exc, CloseMailbox(s, exc)
    PROVE  MailboxQuiet
<1>1. \A q \in Sessions : q # s => mailbox'[q] = mailbox[q]
  BY DEF CloseMailbox, BaseInv, ObjectsOK, ObjectTypeOK
<1>. QED BY <1>1 DEF MailboxQuiet, ClosedNext

(* A step that is quiet but for the pump's own state. *)
LEMMA CallbackKeepsLife ==
    ASSUME BaseInv, LifeInv, Grows, UNCHANGED <<acceptQueue, closeVars, pc>>,
           StatesStay, NoneStay, TablesQuiet, PendingQuiet, MailboxQuiet, PacketsQuiet, PumpQuiet,
           pumpPc' \in OpeningPump => pumpPc \in OpeningPump /\ packet' = packet
    PROVE  LifeInv'
<1>1. UNCHANGED <<closeConns, marked>> BY DEF closeVars
<1>2. Quiet /\ OpeningQuiet BY <1>1, Untouched, ThreadsUntouched DEF Quiet, OpeningQuiet
<1>. QED BY <1>2, LifeKept

LEMMA PumpWaitsKeepsLife ==
    ASSUME BaseInv, LifeInv, Grows, UNCHANGED pc, PumpChecks \/ PumpIdles
    PROVE  LifeInv'
<1>1. /\ UNCHANGED <<rawVars, tableVars, objectVars, acceptQueue, closeVars>>
      /\ pumpPc' \in {"check", "exited", "receive"} /\ found' \in {found, None}
  BY DEF PumpChecks, PumpIdles, PumpGoesTo, PumpReturns
<1>2. UNCHANGED <<connections, connState, pending, mailbox, packets>>
  BY <1>1 DEF rawVars, tableVars, objectVars
<1>3. PumpQuiet /\ pumpPc' \notin OpeningPump
  BY <1>1 DEF PumpQuiet, BuiltPump, MarkedPump, OpeningPump
<1>. QED BY <1>1, <1>2, <1>3, Untouched, CallbackKeepsLife

LEMMA IncomingQueuesKeepsLife ==
    ASSUME BaseInv, LifeInv, Grows, UNCHANGED pc, IncomingQueues
    PROVE  LifeInv'
<1>1. PICK s \in Sessions : s = packet.session /\ connState[s] # "none"
  BY PumpHolds DEF IncomingQueues, OpeningPcs, BaseInv, LifeInv, BuiltInv, Built
<1>2. UNCHANGED <<connections, connState, pending, mailbox, packets, closeConns, marked>>
  BY DEF IncomingQueues, rawVars, tableVars, objectVars, closeVars
<1>3. QueueQuiet
  <2>1. acceptQueue \in Seq(Sessions \cup {None}) BY DEF BaseInv, QueueOK, QueueTypeOK
  <2>2. s \in Sessions \cup {None} /\ acceptQueue' = Append(acceptQueue, s)
    BY <1>1 DEF IncomingQueues
  <2>3. /\ Len(acceptQueue) \in Nat /\ Len(acceptQueue') = Len(acceptQueue) + 1
        /\ \A i \in 1 .. Len(acceptQueue) : acceptQueue'[i] = acceptQueue[i]
        /\ acceptQueue'[Len(acceptQueue) + 1] = s
    BY <2>1, <2>2, AppendProperties, LenProperties
  <2>. QED BY <1>1, <1>2, <2>3 DEF QueueQuiet, BuiltNext
<1>4. PumpReturns BY DEF IncomingQueues
<1>5. Quiet /\ OpeningQuiet
  BY <1>2, <1>3, <1>4, Untouched, ThreadsUntouched DEF Quiet, OpeningQuiet
<1>. QED BY <1>5, LifeKept

LEMMA PopsPendingKeepsLife ==
    ASSUME BaseInv, LifeInv, Grows, UNCHANGED pc, PumpPopsPending
    PROVE  LifeInv'
<1>1. UNCHANGED <<connections, connState, pending, mailbox, packets, acceptQueue, closeVars>>
  BY DEF PumpPopsPending, rawVars, objectVars
<1>2. CASE PumpReturns BY <1>1, <1>2, Untouched, CallbackKeepsLife
<1>3. CASE UNCHANGED <<packet, found>> /\
           pumpPc' = IF pumpPc = "connect_succeeded" THEN "succeeded_insert" ELSE "failed_set"
  <2>1. PumpQuiet /\ (pumpPc' \in OpeningPump => pumpPc \in OpeningPump /\ packet' = packet)
    BY <1>3 DEF PumpQuiet, BuiltPump, MarkedPump, OpeningPump
  <2>. QED BY <1>1, <2>1, Untouched, CallbackKeepsLife
<1>. QED BY <1>2, <1>3 DEF PumpPopsPending

LEMMA PublishKeepsLife ==
    ASSUME BaseInv, ResolutionInv, LifeInv, Grows, UNCHANGED pc, SucceededPublishes
    PROVE  LifeInv'
<1>1. PICK s \in Sessions : s = packet.session /\ connState[s] # "none"
  BY PumpHolds DEF SucceededPublishes, OpeningPcs, BaseInv, LifeInv, BuiltInv, Built
<1>2. PICK c \in Calls : c = popped /\ c # None
  BY PumpHolds, PumpLeaves, NoneIsNothing DEF BaseInv, SucceededPublishes
<1>3. pending[c].connection = None BY <1>2 DEF ResolutionInv, SucceededPublishes
<1>4. UNCHANGED <<connections, connState, mailbox, packets, acceptQueue, closeVars>>
  BY DEF SucceededPublishes, rawVars, tableVars
<1>5. PendingQuiet
  <2>1. pending \in [Calls -> PendingConnect] BY DEF BaseInv, ObjectsOK, ObjectTypeOK
  <2>2. pending' = [pending EXCEPT ![c].connection = s] BY <1>1, <1>2 DEF SucceededPublishes
  <2>3. pending'[c].connection = s BY <2>1, <2>2 DEF PendingConnect
  <2>4. \A d \in Calls : d # c => pending'[d] = pending[d] BY <2>1, <2>2
  <2>. QED BY <1>1, <1>3, <1>4, <2>3, <2>4 DEF PendingQuiet, BuiltNext
<1>6. PumpQuiet /\ pumpPc' \notin OpeningPump
  BY DEF SucceededPublishes, PumpGoesTo, PumpQuiet, BuiltPump, MarkedPump, OpeningPump
<1>. QED BY <1>4, <1>5, <1>6, Untouched, CallbackKeepsLife

LEMMA ResolvesKeepsLife ==
    ASSUME BaseInv, LifeInv, Grows, UNCHANGED pc, SucceededSets \/ FailedSets
    PROVE  LifeInv'
<1>1. UNCHANGED <<connections, connState, mailbox, packets, acceptQueue, closeVars>> /\ PumpReturns
  BY DEF SucceededSets, FailedSets, rawVars, tableVars
<1>2. pending \in [Calls -> PendingConnect] BY DEF BaseInv, ObjectsOK, ObjectTypeOK
<1>3. PendingQuiet
  <2>1. CASE SucceededSets BY <1>2, <2>1 DEF SucceededSets, PendingQuiet, PendingConnect
  <2>2. CASE FailedSets
    <3>1. \A c \in Calls : pending'[c] \in
              {pending[c], [pending[c] EXCEPT !.reason = packet.id, !.event = TRUE]}
      BY <1>2, <2>2 DEF FailedSets
    <3>. QED BY <1>2, <3>1 DEF PendingQuiet, PendingConnect
  <2>. QED BY <2>1, <2>2
<1>. QED BY <1>1, <1>3, Untouched, CallbackKeepsLife

LEMMA TableIsBuilt ==
    ASSUME BaseInv, BuiltInv, NEW r \in Remotes, connections[r] # None
    PROVE  connections[r] \in Sessions /\ Built(connections[r])
BY DEF BuiltInv, BaseInv, TablesOK, TableTypeOK

LEMMA MessageKeepsLife ==
    ASSUME BaseInv, LifeInv, Grows, UNCHANGED pc, MessageLooksUp \/ MessagePuts
    PROVE  LifeInv'
<1>1. UNCHANGED <<connections, connState, pending, packets, acceptQueue, closeVars>>
  BY DEF MessageLooksUp, MessagePuts, rawVars, tableVars, objectVars
<1>2. CASE MessageLooksUp
  <2>1. PICK r \in Remotes : r = packet.from
    BY <1>2, PumpHolds, PacketProperties DEF BaseInv, MessageLooksUp, MessagePcs
  <2>2. PumpQuiet /\ pumpPc' \notin OpeningPump
    <3>1. CASE PumpReturns BY <3>1, Untouched
    <3>2. CASE connections[r] # None /\ found' = connections[r] /\ pumpPc' = "deliver"
      <4>1. connections[r] \in Sessions /\ Built(connections[r])
        BY <2>1, <3>2, TableIsBuilt DEF LifeInv
      <4>. QED BY <1>1, <3>2, <4>1
           DEF PumpQuiet, BuiltPump, MarkedPump, OpeningPump, BuiltNext, Built
    <3>. QED BY <1>2, <2>1, <3>1, <3>2 DEF MessageLooksUp
  <2>3. UNCHANGED mailbox BY <1>2 DEF MessageLooksUp, objectVars
  <2>. QED BY <1>1, <2>2, <2>3, Untouched, CallbackKeepsLife
<1>3. CASE MessagePuts
  <2>1. PumpQuiet /\ pumpPc' \notin OpeningPump
    BY <1>3, Untouched DEF MessagePuts, PumpGoesTo, PumpQuiet, BuiltPump, MarkedPump, OpeningPump
  <2>2. MailboxQuiet
    <3>1. CASE UNCHANGED mailbox BY <3>1, Untouched
    <3>2. CASE mailbox' = [mailbox EXCEPT ![found] = PutItem(@, packet.session)]
      <4>1. mailbox \in [Sessions -> Mailboxes(Sessions)] BY DEF BaseInv, ObjectsOK, ObjectTypeOK
      <4>2. \A s \in Sessions : mailbox'[s] \in {mailbox[s], PutItem(mailbox[s], packet.session)}
        BY <3>2, <4>1
      <4>3. \A s \in Sessions : mailbox'[s].exc = mailbox[s].exc
        BY <4>1, <4>2 DEF PutItem, Mailboxes
      <4>. QED BY <4>3 DEF MailboxQuiet
    <3>. QED BY <1>3, <3>1, <3>2 DEF MessagePuts
  <2>. QED BY <1>1, <2>1, <2>2, Untouched, CallbackKeepsLife
<1>. QED BY <1>2, <1>3

LEMMA OverflowKeepsLife ==
    ASSUME BaseInv, LifeInv, Grows, UNCHANGED pc,
           OverflowPops \/ OverflowMarks \/ OverflowHangsUp \/ OverflowClosesMailbox
    PROVE  LifeInv'
<1>1. PICK s \in Sessions : s = found /\ Known(s) /\ Built(s)
  <2>1. pumpPc \in FoundPcs
    BY DEF FoundPcs, OverflowPops, OverflowMarks, OverflowHangsUp, OverflowClosesMailbox
  <2>2. found # None BY <2>1 DEF BaseInv, PumpOK, PumpInv
  <2>. QED BY <2>1, <2>2, PumpHolds DEF BaseInv, LifeInv, BuiltInv
<1>2. UNCHANGED <<pending, acceptQueue, closeVars>>
  BY DEF OverflowPops, OverflowMarks, OverflowHangsUp, OverflowClosesMailbox, objectVars
<1>3. CASE OverflowPops
  <2>1. TablesQuiet BY <1>1, <1>3, PopQuietly DEF OverflowPops
  <2>2. UNCHANGED <<connState, mailbox, packets>> BY <1>3 DEF OverflowPops, rawVars, objectVars
  <2>3. PumpQuiet /\ pumpPc' \notin OpeningPump
    BY <1>3 DEF OverflowPops, PumpGoesTo, PumpQuiet, BuiltPump, MarkedPump, OpeningPump
  <2>. QED BY <1>2, <2>1, <2>2, <2>3, Untouched, CallbackKeepsLife
<1>4. CASE OverflowMarks
  <2>1. StatesStay /\ NoneStay /\ ClosedNext(s) BY <1>1, <1>4, MarkStays DEF OverflowMarks
  <2>2. UNCHANGED <<connections, mailbox, packets>> BY <1>4 DEF OverflowMarks, rawVars, tableVars
  <2>3. PumpQuiet /\ pumpPc' \notin OpeningPump
    BY <1>1, <1>4, <2>1
       DEF OverflowMarks, PumpGoesTo, PumpQuiet, BuiltPump, MarkedPump, OpeningPump
  <2>. QED BY <1>2, <2>1, <2>2, <2>3, Untouched, CallbackKeepsLife
<1>5. CASE OverflowHangsUp
  <2>1. PacketsQuiet BY <1>1, <1>5, HangUpQuietly DEF OverflowHangsUp, BaseInv
  <2>2. UNCHANGED <<connections, connState, mailbox>>
    BY <1>5 DEF OverflowHangsUp, tableVars, objectVars
  <2>3. PumpQuiet /\ pumpPc' \notin OpeningPump
    BY <1>5 DEF OverflowHangsUp, PumpGoesTo, PumpQuiet, BuiltPump, MarkedPump, OpeningPump
  <2>. QED BY <1>2, <2>1, <2>2, <2>3, Untouched, CallbackKeepsLife
<1>6. CASE OverflowClosesMailbox
  <2>1. connState[s] = "closed" BY <1>1, <1>6 DEF LifeInv, MarkedInv, OverflowClosesMailbox
  <2>2. UNCHANGED <<connections, connState, packets>> /\ PumpReturns
    BY <1>6 DEF OverflowClosesMailbox, rawVars, tableVars
  <2>3. MailboxQuiet BY <1>1, <1>6, <2>1, <2>2, MailboxClosesQuietly DEF OverflowClosesMailbox
  <2>. QED BY <1>2, <2>2, <2>3, Untouched, CallbackKeepsLife
<1>. QED BY <1>3, <1>4, <1>5, <1>6

LEMMA DisconnectedKeepsLife ==
    ASSUME BaseInv, LifeInv, Grows, UNCHANGED pc,
           DisconnectedPops \/ DisconnectedMarks \/ DisconnectedClosesMailbox
    PROVE  LifeInv'
<1>1. UNCHANGED <<pending, packets, acceptQueue, closeVars>>
  BY DEF DisconnectedPops, DisconnectedMarks, DisconnectedClosesMailbox, rawVars, objectVars
<1>2. CASE DisconnectedPops
  <2>1. PICK r \in Remotes : r = packet.from
    BY <1>2, PumpHolds, PacketProperties DEF BaseInv, DisconnectedPops
  <2>2. UNCHANGED <<connState, mailbox>> BY <1>2 DEF DisconnectedPops, objectVars
  <2>3. PumpQuiet /\ pumpPc' \notin OpeningPump
    <3>1. CASE PumpReturns BY <3>1, Untouched
    <3>2. CASE connections[r] # None /\ found' = connections[r] /\ pumpPc' = "disconnected_mark"
      <4>1. connections[r] \in Sessions /\ Built(connections[r])
        BY <2>1, <3>2, TableIsBuilt DEF LifeInv
      <4>. QED BY <2>2, <3>2, <4>1
           DEF PumpQuiet, BuiltPump, MarkedPump, OpeningPump, BuiltNext, Built
    <3>. QED BY <1>2, <2>1, <3>1, <3>2 DEF DisconnectedPops
  <2>4. TablesQuiet
    BY <1>2, <2>1 DEF DisconnectedPops, TablesQuiet, BaseInv, TablesOK, TableTypeOK
  <2>. QED BY <1>1, <2>2, <2>3, <2>4, Untouched, CallbackKeepsLife
<1>3. CASE DisconnectedMarks
  <2>1. PICK s \in Sessions : s = found /\ Built(s)
    BY <1>3, PumpHolds, PumpLeaves
       DEF BaseInv, LifeInv, BuiltInv, PumpOK, PumpInv, DisconnectedMarks
  <2>2. StatesStay /\ NoneStay /\ ClosedNext(s) BY <1>3, <2>1, MarkStays DEF DisconnectedMarks
  <2>3. UNCHANGED <<connections, mailbox>> BY <1>3 DEF DisconnectedMarks, tableVars
  <2>4. PumpQuiet /\ pumpPc' \notin OpeningPump
    BY <1>3, <2>1, <2>2
       DEF DisconnectedMarks, PumpGoesTo, PumpQuiet, BuiltPump, MarkedPump, OpeningPump
  <2>. QED BY <1>1, <2>2, <2>3, <2>4, Untouched, CallbackKeepsLife
<1>4. CASE DisconnectedClosesMailbox
  <2>1. found \in Sessions /\ connState[found] = "closed"
    BY <1>4, PumpHolds, PumpLeaves DEF BaseInv, LifeInv, MarkedInv, DisconnectedClosesMailbox
  <2>2. UNCHANGED <<connections, connState>> /\ PumpReturns
    BY <1>4 DEF DisconnectedClosesMailbox, tableVars
  <2>3. MailboxQuiet BY <1>4, <2>1, <2>2, MailboxClosesQuietly DEF DisconnectedClosesMailbox
  <2>. QED BY <1>1, <2>2, <2>3, Untouched, CallbackKeepsLife
<1>. QED BY <1>2, <1>3, <1>4

-----------------------------------------------------------------------------
(* The teardown *)

LEMMA BeginKeepsLife ==
    ASSUME BaseInv, LifeInv, Grows, NEW next, BeginClose(next), PumpQuiet,
           pumpPc' \in OpeningPump => pumpPc \in OpeningPump /\ packet' = packet,
           UNCHANGED <<rawVars, objectVars, acceptQueue, pc>>
    PROVE  LifeInv'
<1>1. UNCHANGED <<connState, pending, mailbox, packets>> BY DEF objectVars, rawVars
<1>2. TablesQuiet BY DEF BeginClose, TablesQuiet
<1>3. SnapshotQuiet
  <2>1. ASSUME NEW s \in closeConns' PROVE BuiltNext(s)
    <3>1. PICK r \in Remotes : s = connections[r] /\ connections[r] # None
      BY <2>1 DEF BeginClose, TableOf
    <3>. QED BY <1>1, <3>1, TableIsBuilt DEF LifeInv, Built, BuiltNext
  <2>. QED BY <2>1 DEF BeginClose, SnapshotQuiet
<1>4. Quiet /\ OpeningQuiet
  BY <1>1, <1>2, <1>3, Untouched, ThreadsUntouched DEF Quiet, OpeningQuiet
<1>. QED BY <1>4, LifeKept

LEMMA PeerClosesKeepsLife ==
    ASSUME BaseInv, LifeInv, Grows, PeerCloses, UNCHANGED pc
    PROVE  LifeInv'
BY Untouched, BeginKeepsLife DEF PeerCloses

LEMMA PumpFailsKeepsLife ==
    ASSUME BaseInv, LifeInv, Grows, PumpFails, UNCHANGED pc
    PROVE  LifeInv'
<1>1. PumpQuiet /\ pumpPc' \notin OpeningPump
  BY DEF PumpFails, PumpGoesTo, PumpQuiet, BuiltPump, MarkedPump, OpeningPump
<1>2. UNCHANGED <<rawVars, objectVars, acceptQueue>> BY DEF PumpFails
<1>3. UNCHANGED <<connState, pending, mailbox, packets>> BY <1>2 DEF rawVars, objectVars
<1>4. CASE UNCHANGED <<tableVars, closeVars>>
  <2>1. UNCHANGED connections BY <1>4 DEF tableVars
  <2>. QED BY <1>1, <1>2, <1>3, <1>4, <2>1, Untouched, CallbackKeepsLife
<1>5. CASE BeginClose("shutdown") BY <1>1, <1>2, <1>5, BeginKeepsLife
<1>. QED BY <1>4, <1>5 DEF PumpFails

LEMMA CloserKeepsLife ==
    ASSUME BaseInv, LifeInv, Grows, CloserStep, UNCHANGED pc
    PROVE  LifeInv'
<1>1. ThreadsQuiet BY ThreadsUntouched
<1>2. CASE CloserJoinsPump \/ CloserShutsDown
  <2>1. UNCHANGED <<connections, connState, pending, mailbox, acceptQueue, pumpVars, closeConns, marked>>
    BY <1>2 DEF CloserJoinsPump, CloserShutsDown, tableVars, objectVars
  <2>2. PacketsQuiet
    BY <1>2, Untouched, ShutdownQuietly DEF CloserJoinsPump, CloserShutsDown, rawVars
  <2>. QED BY <1>1, <2>1, <2>2, Untouched, LifeKept DEF Quiet, OpeningQuiet
<1>3. ASSUME NEW s \in Sessions, FinishMarks(s) PROVE LifeInv'
  <2>1. UNCHANGED <<packets, connections, pending, mailbox, acceptQueue, pumpVars>>
    BY <1>3 DEF FinishMarks, rawVars, tableVars
  <2>2. Built(s) BY <1>3 DEF FinishMarks, LifeInv, BuiltInv
  <2>3. StatesStay /\ NoneStay /\ ClosedNext(s) BY <1>3, <2>2, MarkStays DEF FinishMarks
  <2>4. SnapshotQuiet BY <1>3, <2>3 DEF FinishMarks, SnapshotQuiet
  <2>. QED BY <1>1, <2>1, <2>3, <2>4, Untouched, LifeKept DEF Quiet, OpeningQuiet
<1>4. CASE FinishClosesMailbox
  <2>1. UNCHANGED <<packets, connections, pending, connState, acceptQueue, pumpVars, closeConns>>
    BY <1>4 DEF FinishClosesMailbox, rawVars, tableVars
  <2>2. marked \in Sessions /\ connState[marked] = "closed"
    BY <1>4 DEF FinishClosesMailbox, LifeInv, MarkedInv, BaseInv, CloseOK, CloseTypeOK
  <2>3. MailboxQuiet BY <1>4, <2>1, <2>2, MailboxClosesQuietly DEF FinishClosesMailbox
  <2>4. SnapshotQuiet BY <1>4 DEF FinishClosesMailbox, SnapshotQuiet
  <2>. QED BY <1>1, <2>1, <2>3, <2>4, Untouched, LifeKept DEF Quiet, OpeningQuiet
<1>5. ASSUME NEW c \in Calls, FinishFailsPending(c) PROVE LifeInv'
  <2>1. UNCHANGED <<packets, connections, connState, mailbox, acceptQueue, pumpVars, closeConns, marked>>
    BY <1>5 DEF FinishFailsPending, rawVars, tableVars
  <2>2. PendingQuiet
    <3>1. pending \in [Calls -> PendingConnect] BY DEF BaseInv, ObjectsOK, ObjectTypeOK
    <3>2. \A d \in Calls : pending'[d] \in
              {pending[d], [pending[d] EXCEPT !.reason = ID_CONNECTION_ATTEMPT_FAILED, !.event = TRUE]}
      BY <1>5, <3>1 DEF FinishFailsPending
    <3>. QED BY <3>1, <3>2 DEF PendingQuiet, PendingConnect
  <2>. QED BY <1>1, <2>1, <2>2, Untouched, LifeKept DEF Quiet, OpeningQuiet
<1>6. CASE FinishQueuesSentinel
  <2>1. UNCHANGED <<packets, connections, connState, pending, mailbox, closeConns, marked>>
    BY <1>6 DEF FinishQueuesSentinel, rawVars, tableVars, objectVars
  <2>2. QueueQuiet
    <3>1. acceptQueue \in Seq(Sessions \cup {None}) BY DEF BaseInv, QueueOK, QueueTypeOK
    <3>2. acceptQueue' = Append(acceptQueue, None) BY <1>6 DEF FinishQueuesSentinel
    <3>3. /\ Len(acceptQueue) \in Nat /\ Len(acceptQueue') = Len(acceptQueue) + 1
          /\ \A i \in 1 .. Len(acceptQueue) : acceptQueue'[i] = acceptQueue[i]
          /\ acceptQueue'[Len(acceptQueue) + 1] = None
      BY <3>1, <3>2, AppendProperties, LenProperties
    <3>. QED BY <3>3 DEF QueueQuiet
  <2>3. PumpQuiet /\ pumpPc' \notin OpeningPump
    BY <1>6 DEF FinishQueuesSentinel, PumpGoesTo, PumpQuiet, BuiltPump, MarkedPump, OpeningPump
  <2>. QED BY <1>1, <2>1, <2>2, <2>3, Untouched, LifeKept DEF Quiet, OpeningQuiet
<1>. QED BY <1>2, <1>3, <1>4, <1>5, <1>6 DEF CloserStep

-----------------------------------------------------------------------------
(* The user's threads *)

(* A step of a thread that is quiet but for what it says. *)
LEMMA UserKeepsLife ==
    ASSUME BaseInv, LifeInv, Grows, UNCHANGED <<pumpVars, closeVars, pending>>,
           StatesStay, NoneStay, TablesQuiet, QueueQuiet, ThreadsQuiet, MailboxQuiet, PacketsQuiet
    PROVE  LifeInv'
<1>1. UNCHANGED <<closeConns, marked>> BY DEF closeVars
<1>. QED BY <1>1, Untouched, LifeKept DEF Quiet, OpeningQuiet

LEMMA GoesQuietly ==
    ASSUME BaseInv, LifeInv, NEW t \in Threads, NEW step, Goes(t, step),
           t \in Sessions => pc[t] # "idle",
           t \in Calls \cup Sessions /\ step \in HangUpPcs =>
               pc[t] \in ClosePcs /\ (pc[t] \in HangUpPcs \/ ClosedNext(Closing(t)))
    PROVE  ThreadsQuiet
<1>1. pc'[t] = step /\ \A u \in Threads : u # t => pc'[u] = pc[u]
  BY DEF Goes, BaseInv, ThreadsOK, ThreadTypeOK
<1>2. \A s \in Sessions : pc'[s] # "idle" => pc[s] # "idle" BY <1>1 DEF Threads
<1>3. \A u \in Calls \cup Sessions : pc'[u] \in HangUpPcs =>
          pc[u] \in ClosePcs /\ (pc[u] \in HangUpPcs \/ ClosedNext(Closing(u)))
  BY <1>1 DEF Threads, HangUpPcs, ClosePcs
<1>. QED BY <1>2, <1>3 DEF ThreadsQuiet

(* A thread gives a connection it holds to its owner. *)
LEMMA HandsOverQuietly ==
    ASSUME BaseInv, LifeInv, NEW t \in Threads, t \notin Sessions, NEW step, step \notin HangUpPcs,
           NEW s \in Sessions, BuiltNext(s), pc' = [pc EXCEPT ![t] = step, ![s] = "using"]
    PROVE  ThreadsQuiet
<1>1. pc'[t] = step /\ pc'[s] = "using" /\ \A u \in Threads : u # t /\ u # s => pc'[u] = pc[u]
  BY ThreadKinds DEF BaseInv, ThreadsOK, ThreadTypeOK
<1>2. \A q \in Sessions : pc'[q] # "idle" => pc[q] # "idle" \/ BuiltNext(q) BY <1>1 DEF Threads
<1>3. \A u \in Calls \cup Sessions : pc'[u] \in HangUpPcs => pc[u] \in HangUpPcs
  BY <1>1 DEF Threads, HangUpPcs
<1>. QED BY <1>2, <1>3 DEF ThreadsQuiet, HangUpPcs, ClosePcs

LEMMA OnlyThreadMoves ==
    ASSUME BaseInv, LifeInv, Grows, UNCHANGED coreVars, ThreadsQuiet
    PROVE  LifeInv'
<1>1. UNCHANGED <<pumpVars, closeVars, pending, connState, mailbox, acceptQueue, connections, packets>>
  BY DEF coreVars, rawVars, tableVars, objectVars
<1>. QED BY <1>1, Untouched, UserKeepsLife

LEMMA ClosingIsBuilt ==
    ASSUME BaseInv, LifeInv, NEW t \in Calls \cup Sessions, pc[t] \in ClosePcs
    PROVE  Closing(t) \in Sessions /\ Known(Closing(t)) /\ Built(Closing(t))
<1>1. Closing(t) \in Sessions /\ Known(Closing(t)) BY ClosingIsKnown
<1>2. CASE t \in Calls
  <2>1. Closing(t) = pending[t].connection BY <1>2 DEF Closing
  <2>2. pending[t].connection # None BY <1>2 DEF BaseInv, ThreadsOK, ThreadInv
  <2>. QED BY <1>1, <1>2, <2>1, <2>2 DEF LifeInv, BuiltInv
<1>3. CASE t \notin Calls
  <2>1. Closing(t) = t BY <1>3 DEF Closing
  <2>. QED BY <1>1, <1>3, <2>1 DEF LifeInv, BuiltInv, ClosePcs
<1>. QED BY <1>1, <1>2, <1>3

LEMMA CloseKeepsLife ==
    ASSUME BaseInv, LifeInv, Grows, NEW t \in Calls \cup Sessions, CloseStep(t)
    PROVE  LifeInv'
<1>1. pc[t] \in ClosePcs
  BY DEF CloseStep, CloseChecks, ClosePops, CloseMarks, CloseHangsUp, CloseClosesMailbox, ClosePcs
<1>2. PICK s \in Sessions : s = Closing(t) /\ Known(s) /\ Built(s) BY <1>1, ClosingIsBuilt
<1>3. t \in Threads /\ pc[t] # "idle" BY <1>1 DEF Threads, ClosePcs
<1>4. ASSUME NEW step, Goes(t, step),
             step \in HangUpPcs => pc[t] \in HangUpPcs \/ ClosedNext(s)
      PROVE  ThreadsQuiet
  BY <1>1, <1>2, <1>3, <1>4, GoesQuietly
<1>5. CASE CloseChecks(t)
  <2>1. PICK step \in {"close_pop", AfterClose(t)} : Goes(t, step) BY <1>5 DEF CloseChecks
  <2>2. step \notin HangUpPcs BY DEF HangUpPcs, AfterClose
  <2>. QED BY <1>4, <1>5, <2>1, <2>2, OnlyThreadMoves DEF CloseChecks
<1>6. CASE ClosePops(t)
  <2>1. TablesQuiet BY <1>2, <1>6, PopQuietly DEF ClosePops
  <2>2. ThreadsQuiet BY <1>4, <1>6 DEF ClosePops, HangUpPcs
  <2>3. UNCHANGED <<packets, pending, connState, mailbox, acceptQueue, pumpVars, closeVars>>
    BY <1>6 DEF ClosePops, rawVars, objectVars
  <2>. QED BY <2>1, <2>2, <2>3, Untouched, UserKeepsLife
<1>7. CASE CloseMarks(t)
  <2>1. StatesStay /\ NoneStay /\ ClosedNext(s) BY <1>2, <1>7, MarkStays DEF CloseMarks
  <2>2. ThreadsQuiet BY <1>4, <1>7, <2>1 DEF CloseMarks
  <2>3. UNCHANGED <<packets, connections, pending, mailbox, acceptQueue, pumpVars, closeVars>>
    BY <1>7 DEF CloseMarks, rawVars, tableVars
  <2>. QED BY <2>1, <2>2, <2>3, Untouched, UserKeepsLife
<1>8. CASE CloseHangsUp(t)
  <2>1. PICK notify \in BOOLEAN : HangUp(s, notify) BY <1>2, <1>8 DEF CloseHangsUp
  <2>2. PacketsQuiet BY <1>2, <2>1, HangUpQuietly DEF BaseInv
  <2>3. ThreadsQuiet BY <1>4, <1>8 DEF CloseHangsUp, HangUpPcs
  <2>4. UNCHANGED <<connections, connState, pending, mailbox, acceptQueue, pumpVars, closeVars>>
    BY <1>8 DEF CloseHangsUp, tableVars, objectVars
  <2>. QED BY <2>2, <2>3, <2>4, Untouched, UserKeepsLife
<1>9. CASE CloseClosesMailbox(t)
  <2>1. connState[s] = "closed" BY <1>2, <1>9 DEF CloseClosesMailbox, LifeInv, MarkedInv
  <2>2. UNCHANGED <<packets, connections, connState, pending, acceptQueue, pumpVars, closeVars>>
    BY <1>9 DEF CloseClosesMailbox, rawVars, tableVars
  <2>3. MailboxQuiet BY <1>2, <1>9, <2>1, <2>2, MailboxClosesQuietly DEF CloseClosesMailbox
  <2>4. AfterClose(t) \notin HangUpPcs BY DEF AfterClose, HangUpPcs
  <2>5. ThreadsQuiet BY <1>4, <1>9, <2>4 DEF CloseClosesMailbox
  <2>. QED BY <2>2, <2>3, <2>5, Untouched, UserKeepsLife
<1>. QED BY <1>5, <1>6, <1>7, <1>8, <1>9 DEF CloseStep

LEMMA CallKeepsLife ==
    ASSUME BaseInv, LifeInv, Grows, NEW c \in Calls, CallStep(c) \/ CallTimesOut(c)
    PROVE  LifeInv'
<1>1. c \in Threads /\ c \notin Sessions BY ThreadKinds
<1>2. \A step : Goes(c, step) /\ step \notin HangUpPcs => ThreadsQuiet BY <1>1, GoesQuietly
<1>3. CASE CallBegins(c) \/ CallTimesOut(c) \/ CallRewaits(c)
  <2>1. PICK step \in {"register", "raised", "abandon", "timedout", "close"} : Goes(c, step)
    BY <1>3 DEF CallBegins, CallTimesOut, CallRewaits
  <2>2. UNCHANGED coreVars BY <1>3 DEF CallBegins, CallTimesOut, CallRewaits
  <2>. QED BY <1>2, <2>1, <2>2, OnlyThreadMoves DEF HangUpPcs
<1>4. CASE CallRegisters(c) \/ CallUndials(c) \/ CallAbandons(c)
  <2>1. PICK step \in {"raised", "dial", "rewait", "cancel"} : Goes(c, step)
    BY <1>4 DEF CallRegisters, CallUndials, CallAbandons
  <2>2. UNCHANGED <<packets, connections, connState, pending, mailbox, acceptQueue, pumpVars, closeVars>>
    BY <1>4 DEF CallRegisters, CallUndials, CallAbandons, PopPendingOf, rawVars, objectVars
  <2>. QED BY <1>2, <2>1, <2>2, Untouched, UserKeepsLife DEF HangUpPcs
<1>5. CASE CallDials(c) \/ CallCancels(c)
  <2>1. PICK step \in {"wait", "undial", "timedout"} : Goes(c, step)
    BY <1>5 DEF CallDials, CallCancels
  <2>2. UNCHANGED <<packets, connections, connState, pending, mailbox, acceptQueue, pumpVars, closeVars>>
    BY <1>5 DEF CallDials, CallCancels, RawConnect, RawCancelConnectionAttempt, tableVars, objectVars
  <2>. QED BY <1>2, <2>1, <2>2, Untouched, UserKeepsLife DEF HangUpPcs
<1>6. CASE CallFinishes(c)
  <2>1. CASE Goes(c, "raised")
    BY <1>2, <1>6, <2>1, OnlyThreadMoves DEF CallFinishes, HangUpPcs
  <2>2. CASE /\ pending[c].connection # None
             /\ pc' = [pc EXCEPT ![c] = "returned", ![pending[c].connection] = "using"]
    <3>1. PICK s \in Sessions : s = pending[c].connection /\ Built(s)
      BY <2>2 DEF LifeInv, BuiltInv, BaseInv, ObjectsOK, ObjectTypeOK, PendingConnect
    <3>2. BuiltNext(s)
      BY <1>6, <3>1 DEF CallFinishes, coreVars, objectVars, BuiltNext, Built
    <3>3. ThreadsQuiet BY <1>1, <2>2, <3>1, <3>2, HandsOverQuietly DEF HangUpPcs
    <3>. QED BY <1>6, <3>3, OnlyThreadMoves DEF CallFinishes
  <2>. QED BY <1>6, <2>1, <2>2 DEF CallFinishes
<1>7. CASE CloseStep(c) BY <1>7, CloseKeepsLife
<1>. QED BY <1>3, <1>4, <1>5, <1>6, <1>7 DEF CallStep

LEMMA OwnerKeepsLife ==
    ASSUME BaseInv, LifeInv, Grows, NEW s \in Sessions, OwnerStep(s) \/ OwnerCloses(s)
    PROVE  LifeInv'
<1>1. CASE OwnerReceives(s)
  <2>1. UNCHANGED <<packets, connections, connState, pending, acceptQueue, pumpVars, closeVars, pc>>
    BY <1>1 DEF OwnerReceives, rawVars, tableVars
  <2>2. mailbox \in [Sessions -> Mailboxes(Sessions)] BY DEF BaseInv, ObjectsOK, ObjectTypeOK
  <2>3. \A q \in Sessions : mailbox'[q] \in {mailbox[q], TakeItem(mailbox[q])}
    BY <1>1, <2>2 DEF OwnerReceives
  <2>4. \A q \in Sessions : mailbox'[q].exc = mailbox[q].exc
    BY <2>2, <2>3 DEF TakeItem, Mailboxes
  <2>5. MailboxQuiet BY <2>4 DEF MailboxQuiet
  <2>. QED BY <2>1, <2>5, Untouched, ThreadsUntouched, UserKeepsLife
<1>2. CASE OwnerSeesEnd(s) \/ OwnerCloses(s)
  <2>1. pc[s] # "idle" /\ Goes(s, "close") /\ UNCHANGED coreVars
    BY <1>2 DEF OwnerSeesEnd, OwnerCloses
  <2>2. ThreadsQuiet BY <2>1, ThreadKinds, GoesQuietly DEF HangUpPcs
  <2>. QED BY <2>1, <2>2, OnlyThreadMoves
<1>3. CASE CloseStep(s) BY <1>3, CloseKeepsLife
<1>. QED BY <1>1, <1>2, <1>3 DEF OwnerStep

LEMMA AcceptorKeepsLife ==
    ASSUME BaseInv, LifeInv, Grows, NEW a \in Acceptors, AcceptorStep(a) \/ AcceptTimesOut(a)
    PROVE  LifeInv'
<1>1. a \in Threads /\ a \notin Sessions /\ a \notin Calls BY ThreadKinds
<1>2. \A step : Goes(a, step) => ThreadsQuiet BY <1>1, GoesQuietly
<1>3. CASE AcceptBegins(a) \/ AcceptTimesOut(a)
  BY <1>2, <1>3, OnlyThreadMoves DEF AcceptBegins, AcceptTimesOut
<1>4. CASE AcceptGets(a)
  <2>1. UNCHANGED <<packets, connections, connState, pending, mailbox, pumpVars, closeVars>>
    BY <1>4 DEF AcceptGets, rawVars, tableVars, objectVars
  <2>2. /\ acceptQueue \in Seq(Sessions \cup {None}) /\ acceptQueue # <<>>
        /\ acceptQueue' = Tail(acceptQueue)
    BY <1>4 DEF AcceptGets, BaseInv, QueueOK, QueueTypeOK
  <2>3. /\ Len(acceptQueue) \in Nat /\ Len(acceptQueue) # 0
        /\ Len(acceptQueue') = Len(acceptQueue) - 1
        /\ \A i \in 1 .. Len(acceptQueue') : acceptQueue'[i] = acceptQueue[i + 1]
        /\ Head(acceptQueue) = acceptQueue[1]
    BY <2>2, HeadTailProperties, LenProperties, EmptySeq
  <2>4. QueueQuiet
    <3>1. ASSUME NEW i \in 1 .. Len(acceptQueue')
          PROVE  \E j \in 1 .. Len(acceptQueue) : acceptQueue'[i] = acceptQueue[j]
      <4>1. i + 1 \in 1 .. Len(acceptQueue) /\ acceptQueue'[i] = acceptQueue[i + 1] BY <2>3
      <4>. QED BY <4>1
    <3>. QED BY <3>1 DEF QueueQuiet
  <2>5. ThreadsQuiet
    <3>1. CASE Goes(a, "reput") BY <1>2, <3>1
    <3>2. CASE /\ Head(acceptQueue) # None
               /\ pc' = [pc EXCEPT ![a] = "idle", ![Head(acceptQueue)] = "using"]
      <4>1. 1 \in 1 .. Len(acceptQueue) BY <2>3
      <4>2. acceptQueue[1] \in Sessions \cup {None} BY <2>2, <4>1, ElementOfSeq
      <4>3. PICK s \in Sessions : s = Head(acceptQueue) /\ Built(s)
        BY <2>3, <3>2, <4>1, <4>2 DEF LifeInv, BuiltInv
      <4>4. BuiltNext(s) BY <2>1, <4>3 DEF BuiltNext, Built
      <4>. QED BY <1>1, <3>2, <4>3, <4>4, HandsOverQuietly DEF HangUpPcs
    <3>. QED BY <1>4, <3>1, <3>2 DEF AcceptGets
  <2>. QED BY <2>1, <2>4, <2>5, Untouched, UserKeepsLife
<1>5. CASE AcceptReputs(a)
  <2>1. UNCHANGED <<packets, connections, connState, pending, mailbox, pumpVars, closeVars>>
    BY <1>5 DEF AcceptReputs, rawVars, tableVars, objectVars
  <2>2. QueueQuiet
    <3>1. acceptQueue \in Seq(Sessions \cup {None}) BY DEF BaseInv, QueueOK, QueueTypeOK
    <3>2. acceptQueue' = Append(acceptQueue, None) BY <1>5 DEF AcceptReputs
    <3>3. /\ Len(acceptQueue) \in Nat /\ Len(acceptQueue') = Len(acceptQueue) + 1
          /\ \A i \in 1 .. Len(acceptQueue) : acceptQueue'[i] = acceptQueue[i]
          /\ acceptQueue'[Len(acceptQueue) + 1] = None
      BY <3>1, <3>2, AppendProperties, LenProperties
    <3>. QED BY <3>3 DEF QueueQuiet
  <2>. QED BY <1>2, <1>5, <2>1, <2>2, Untouched, UserKeepsLife DEF AcceptReputs
<1>. QED BY <1>3, <1>4, <1>5 DEF AcceptorStep

-----------------------------------------------------------------------------
LEMMA LifeInit == Init => LifeInv
<1>. SUFFICES ASSUME Init PROVE LifeInv OBVIOUS
<1>1. Len(packets) = 0 /\ Len(acceptQueue) = 0
  BY EmptySeq DEF Init, CoreInit, RakNetInit
<1>2. OpeningInv BY <1>1 DEF OpeningInv, Init, CoreInit
<1>3. BuiltInv BY <1>1 DEF BuiltInv, Init, CoreInit, Threads
<1>4. MarkedInv BY DEF MarkedInv, Init, CoreInit, Threads
<1>5. ClosedMailboxMeansDisconnected
  BY DEF ClosedMailboxMeansDisconnected, Init, CoreInit, EmptyMailbox
<1>. QED BY <1>2, <1>3, <1>4, <1>5 DEF LifeInv

LEMMA LifeStep ==
    ASSUME BaseInv, ResolutionInv, LifeInv, [Next]_vars
    PROVE  LifeInv'
<1>1. Grows BY BaseStep
<1>2. CASE UNCHANGED vars
  <2>1. UNCHANGED <<coreVars, pc>> BY <1>2 DEF vars
  <2>. QED BY <1>1, <2>1, ThreadsUntouched, OnlyThreadMoves
<1>3. CASE PumpStep /\ UNCHANGED pc
  BY <1>1, <1>3, PumpWaitsKeepsLife, ReceiveKeepsLife, BuildKeepsLife, IncomingQueuesKeepsLife,
     PopsPendingKeepsLife, PublishKeepsLife, ResolvesKeepsLife, MessageKeepsLife,
     OverflowKeepsLife, DisconnectedKeepsLife, PumpFailsKeepsLife DEF PumpStep
<1>. QED BY <1>1, <1>2, <1>3, RakNetKeepsLife, ReceiveKeepsLife, PeerClosesKeepsLife,
            CloserKeepsLife, CallKeepsLife, OwnerKeepsLife, AcceptorKeepsLife DEF Next

(* Whoever is told the end of a connection finds it closed (_peer.py,      *)
(* Connection.close, disconnected, _overflow and _finish_close), for any   *)
(* number of remotes, sessions, calls and acceptors.                       *)
THEOREM ClosedMailboxIsDisconnected == Spec => []ClosedMailboxMeansDisconnected
<1>. DEFINE Inv == BaseInv /\ ResolutionInv /\ LifeInv
<1>1. Init => Inv BY BaseInit, ResolutionInit, LifeInit
<1>2. Inv /\ [Next]_vars => Inv' BY BaseStep, ResolutionStep, LifeStep
<1>3. Inv => ClosedMailboxMeansDisconnected BY DEF LifeInv
<1>. QED BY <1>1, <1>2, <1>3, PTL DEF Spec
=============================================================================
