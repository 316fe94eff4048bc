--------------------------- MODULE AsyncPeerProofs ---------------------------
(***************************************************************************)
(* The asyncio Peer takes the steps of the sync one, but for four: a task  *)
(* that waits, that waits again for the pump, or that is in accept() is    *)
(* cancelled.  So each invariant of Peer needs only to survive these, and  *)
(* those that do not, for the connect() that left without its connection,  *)
(* are kept for all the other calls.                                       *)
(***************************************************************************)
EXTENDS AsyncPeer, PeerConnectionProofs

(* The steps of a task that no thread of the sync Peer takes. *)
Cancels(t) ==
    /\ UNCHANGED coreVars
    /\ \/ t \in Calls /\ pc[t] = "wait" /\ Goes(t, "abandon")
       \/ /\ t \in Calls /\ pc[t] = "rewait" /\ pending[t].connection # None
          /\ Goes(t, "close")
       \/ /\ t \in Calls /\ pc[t] = "rewait" /\ pending[t].connection = None
          /\ Goes(t, "timedout") /\ task'[t] = "unreaped"
       \/ t \in Acceptors /\ pc[t] = "get" /\ Goes(t, "idle")

LEMMA StepIs ==
    ASSUME task \in [Calls -> TaskStates], [AsyncNext]_asyncVars
    PROVE  [Next]_vars \/ \E t \in Calls \cup Acceptors : Cancels(t)
<1>1. CASE UNCHANGED asyncVars BY <1>1 DEF asyncVars
<1>2. CASE RakNetMoves /\ SameTasks /\ UNCHANGED pc BY <1>2 DEF Next
<1>3. CASE PumpRuns \/ (PumpCrashes /\ SameTasks /\ UNCHANGED pc) \/ CloseBegins
  BY <1>3 DEF PumpRuns, CloseBegins, Next
<1>4. CASE CloseIsCancelled BY <1>4 DEF CloseIsCancelled
<1>5. CASE TeardownStep
  <2>1. CloserStep /\ UNCHANGED pc BY <1>5 DEF TeardownStep, CloserStep
  <2>. QED BY <2>1 DEF Next
<1>6. ASSUME NEW c \in Calls, ConnectStep(c)
      PROVE  CallStep(c) \/ UNCHANGED vars \/ Cancels(c)
  <2>1. CASE ConnectReaps(c)
    BY <1>6, <2>1 DEF ConnectReaps, TaskGoes, Cancels
  <2>. QED BY <1>6, <2>1
       DEF ConnectStep, WorkerStep, ConnectStarted, ConnectFinishes, ConnectCleansUp, CallStep
<1>7. ASSUME NEW c \in Calls, StartIsCancelled(c) \/ WaitIsCancelled(c)
      PROVE  UNCHANGED vars \/ Cancels(c)
  BY <1>7 DEF StartIsCancelled, WaitIsCancelled, Cancels
<1>8. ASSUME NEW s \in Sessions, HandlerStep(s) \/ HandlerEnds(s)
      PROVE  OwnerStep(s) \/ OwnerCloses(s)
  BY <1>8 DEF HandlerStep, HandlerEnds
<1>9. ASSUME NEW a \in Acceptors, AcceptStep(a) \/ AcceptIsCancelled(a)
      PROVE  AcceptorStep(a) \/ Cancels(a)
  BY <1>9 DEF AcceptStep, AcceptIsCancelled, Cancels
<1>. QED BY <1>1, <1>2, <1>3, <1>4, <1>5, <1>6, <1>7, <1>8, <1>9 DEF AsyncNext, Next

-----------------------------------------------------------------------------
(* The tasks *)

TasksOK == task \in [Calls -> TaskStates] /\ closeLost \in BOOLEAN

(* The connect() calls that left what they asked for to nobody. *)
Unreaped == {c \in Calls : task[c] = "unreaped"}

LEMMA TasksGo ==
    ASSUME TasksOK, [AsyncNext]_asyncVars
    PROVE  TasksOK' /\ Unreaped \subseteq Unreaped'
<1>1. CASE SameTasks BY <1>1 DEF SameTasks, TasksOK, Unreaped
<1>2. ASSUME NEW c \in Calls, NEW state \in TaskStates, TaskGoes(c, state), task[c] # "unreaped"
      PROVE  TasksOK' /\ Unreaped \subseteq Unreaped'
  <2>1. task' \in [Calls -> TaskStates] /\ closeLost' = closeLost
    BY <1>2 DEF TaskGoes, TasksOK
  <2>2. \A d \in Calls : d # c => task'[d] = task[d] BY <1>2 DEF TaskGoes, TasksOK
  <2>. QED BY <1>2, <2>1, <2>2 DEF TasksOK, Unreaped
<1>3. ASSUME NEW c \in Calls, ConnectStarted(c) \/ StartIsCancelled(c)
      PROVE  TasksOK' /\ Unreaped \subseteq Unreaped'
  <2>1. PICK state \in {"waiting", "cancelled"} : TaskGoes(c, state) /\ task[c] = "starting"
    BY <1>3 DEF ConnectStarted, StartIsCancelled
  <2>. QED BY <1>2, <2>1 DEF TaskStates
<1>4. ASSUME NEW c \in Calls, ConnectReaps(c)
      PROVE  TasksOK' /\ Unreaped \subseteq Unreaped'
  <2>1. CASE TaskGoes(c, "unreaped")
    BY <2>1 DEF TaskGoes, TasksOK, TaskStates, Unreaped
  <2>. QED BY <1>1, <1>4, <2>1 DEF ConnectReaps
<1>5. CASE CloseIsCancelled BY <1>5 DEF CloseIsCancelled, TasksOK, Unreaped
<1>6. CASE UNCHANGED asyncVars BY <1>1, <1>6 DEF asyncVars, SameTasks
<1>. QED BY <1>1, <1>3, <1>4, <1>5, <1>6
     DEF AsyncNext, PumpRuns, CloseBegins, TeardownStep, ConnectStep, WorkerStep, ConnectFinishes,
         ConnectCleansUp, WaitIsCancelled, HandlerStep, HandlerEnds, AcceptStep, AcceptIsCancelled

-----------------------------------------------------------------------------
(* What a cancelled task leaves as it was. *)

LEMMA CancelMoves ==
    ASSUME BaseInv, NEW t \in Calls \cup Acceptors, Cancels(t)
    PROVE  /\ t \in Threads /\ t \notin Sessions
           /\ \A u \in Threads : u # t => pc'[u] = pc[u]
           /\ \E step \in {"abandon", "close", "timedout", "idle"} :
                  /\ Goes(t, step) /\ MayGo(t, step) /\ pc'[t] = step
                  /\ t \in Calls => step # "idle" /\ pc[t] \in {"wait", "rewait"}
                  /\ step = "abandon" => pc[t] = "wait"
<1>1. t \in Threads /\ t \notin Sessions /\ (t \in Calls => t \notin Acceptors) BY ThreadKinds
<1>2. PICK step \in {"abandon", "close", "timedout", "idle"} :
          /\ Goes(t, step)
          /\ t \in Calls => step # "idle" /\ pc[t] \in {"wait", "rewait"}
          /\ t \in Calls /\ step = "close" => pending[t].connection # None
          /\ step = "abandon" => pc[t] = "wait"
          /\ t \in Acceptors => step = "idle"
  BY <1>1 DEF Cancels
<1>3. pc'[t] = step /\ \A u \in Threads : u # t => pc'[u] = pc[u]
  BY <1>1, <1>2, GoesNowhereElse
<1>4. MayGo(t, step) BY <1>1, <1>2 DEF MayGo, CallPcs, ClosePcs, AcceptorPcs
<1>. QED BY <1>1, <1>2, <1>3, <1>4

LEMMA CancelledCall ==
    ASSUME BaseInv, NEW c \in Calls, Cancels(c)
    PROVE  pc'[c] \in {"abandon", "close"} \/ c \in Unreaped'
<1>1. c \in Threads /\ c \notin Acceptors BY ThreadKinds
<1>2. \A step : Goes(c, step) => pc'[c] = step BY <1>1, GoesNowhereElse
<1>. QED BY <1>1, <1>2 DEF Cancels, Unreaped

LEMMA CancelLeaves ==
    ASSUME NEW t, Cancels(t)
    PROVE  /\ UNCHANGED <<rawVars, tableVars, objectVars, acceptQueue, pumpVars, closeVars>>
           /\ UNCHANGED <<raw, session, peerOf, packets, connections, pendingConnects, evicted>>
           /\ UNCHANGED <<pending, connState, mailbox, pumpPc, packet, popped, found>>
           /\ UNCHANGED <<closed, closePhase, closeConns, closePends, marked>>
BY DEF Cancels, coreVars, rawVars, tableVars, objectVars, pumpVars, closeVars

LEMMA CancelKeepsBase ==
    ASSUME BaseInv, NEW t \in Calls \cup Acceptors, Cancels(t)
    PROVE  BaseInv' /\ Grows
BY CancelMoves, OnlyPcChanges DEF Cancels

LEMMA CancelKeepsResolution ==
    ASSUME BaseInv, ResolutionInv, NEW t \in Calls \cup Acceptors, Cancels(t)
    PROVE  ResolutionInv' /\ Final
<1>1. Forward BY CancelMoves, GoesForward
<1>. QED BY <1>1, CancelLeaves, NoneHandedOn

LEMMA CancelKeepsLife ==
    ASSUME BaseInv, LifeInv, NEW t \in Calls \cup Acceptors, Cancels(t)
    PROVE  LifeInv'
<1>1. ThreadsQuiet BY CancelMoves, GoesQuietly DEF HangUpPcs
<1>. QED BY <1>1, CancelKeepsBase, OnlyThreadMoves DEF Cancels

LEMMA CancelKeepsOrder ==
    ASSUME OrderInv, NEW t, Cancels(t)
    PROVE  OrderInv'
BY CancelLeaves DEF OrderInv, Ordered, OpeningAt, OpensFrom, EndBetween, EndsFrom, HoldsOpening,
   Occupied

LEMMA CancelKeepsWaiters ==
    ASSUME BaseInv, SnapshotInv, WaiterInv, NEW t \in Calls \cup Acceptors, Cancels(t)
    PROVE  SnapshotInv' /\ WaiterInv'
<1>1. SnapshotInv' BY CancelLeaves DEF SnapshotInv
<1>2. \A c \in Calls : /\ c \in Threads
                       /\ pc'[c] \in WaitPcs => pc'[c] = pc[c] \/ (pc'[c] = "abandon" /\ pc[c] = "wait")
  BY CancelMoves, ThreadKinds DEF WaitPcs
<1>. QED BY <1>1, <1>2, CancelLeaves, ThreadKeepsWaiters DEF WaitPcs, InTable

(* No session changes hands, and no connection is about to be closed that  *)
(* was not, or the other way round.                                        *)
LEMMA CancelKeepsPlaces ==
    ASSUME BaseInv, NEW t \in Calls \cup Acceptors, Cancels(t)
    PROVE  /\ \A s \in Sessions : pc'[s] = pc[s] /\ (Queued(s)' <=> Queued(s))
                                  /\ (InHand(s)' <=> InHand(s)) /\ (Kept(s)' <=> Kept(s))
           /\ \A c \in Calls : (pc'[c] = "returned" <=> pc[c] = "returned")
<1>1. \A s \in Sessions : pc'[s] = pc[s] BY CancelMoves, ThreadKinds
<1>2. \A c \in Calls : /\ pc'[c] = "returned" <=> pc[c] = "returned"
                       /\ pc'[c] = "close_mark" <=> pc[c] = "close_mark"
  BY CancelMoves, ThreadKinds
<1>3. \A u \in Calls \cup Sessions : Closing(u)' = Closing(u) BY CancelLeaves DEF Closing
<1>4. \A s \in Sessions : BeingClosed(s)' <=> BeingClosed(s)
  BY <1>1, <1>2, <1>3, CancelLeaves DEF BeingClosed
<1>. QED BY <1>1, <1>2, <1>4, CancelLeaves DEF Queued, InHand, Kept

LEMMA CancelKeepsOwners ==
    ASSUME BaseInv, OwnInv, NEW t \in Calls \cup Acceptors, Cancels(t)
    PROVE  OwnInv'
<1>1. \A c \in Calls : pending[c].connection # None => pending[c].connection \in Sessions
  BY DEF BaseInv, ObjectsOK, ObjectTypeOK, PendingConnect
<1>2. \A s \in Sessions : Unpromised(s)' <=> Unpromised(s) BY CancelLeaves DEF Unpromised
<1>3. QueueDistinct' BY CancelLeaves DEF OwnInv, QueueDistinct
<1>. QED BY <1>1, <1>2, <1>3, CancelLeaves, CancelKeepsPlaces DEF OwnInv

LEMMA CancelKeepsLive ==
    ASSUME BaseInv, LiveIsRegistered, SnapshotCovers, NEW t \in Calls \cup Acceptors, Cancels(t)
    PROVE  LiveIsRegistered' /\ SnapshotCovers'
<1>1. \A s \in Sessions : Missed(s)' <=> Missed(s)
  BY CancelLeaves, CancelKeepsPlaces DEF Missed
<1>2. SnapshotCovers' BY <1>1, CancelLeaves DEF SnapshotCovers, MayInsert
<1>3. \A s \in Sessions : connState[s] = "open" /\ ~closed => connections[Guid(s)] = s \/ Kept(s)
  BY DEF LiveIsRegistered, Kept
<1>4. \A s \in Sessions : connState'[s] = "open" /\ ~closed' => connections'[Guid(s)'] = s \/ Kept(s)'
  BY <1>3, CancelLeaves, CancelKeepsPlaces DEF Guid
<1>. QED BY <1>2, <1>4 DEF LiveIsRegistered, Kept

(* A task that goes leaves its call as it has to be, unless it could not   *)
(* wait for the pump.                                                      *)
LEMMA CancelKeepsCalls ==
    ASSUME BaseInv, OthersOK(Unreaped), TasksOK, [AsyncNext]_asyncVars,
           NEW t \in Calls \cup Acceptors, Cancels(t)
    PROVE  OthersOK(Unreaped)'
<1>1. SUFFICES ASSUME NEW c \in Calls, c \notin Unreaped' PROVE CallOK(c)' BY DEF OthersOK
<1>2. CallOK(c) /\ c \in Threads BY <1>1, TasksGo, ThreadKinds DEF OthersOK
<1>3. CASE c = t
  <2>1. pc'[c] \in {"abandon", "close"}
    BY <1>1, <1>3, CancelledCall
  <2>. QED BY <2>1 DEF CallOK
<1>4. CASE c # t
  <2>1. pc'[c] = pc[c] BY <1>2, <1>4, CancelMoves
  <2>2. (NotDialled(c) => NotDialled(c)') /\ (GivenUp(c) => GivenUp(c)')
    BY CancelLeaves DEF NotDialled, GivenUp, Committed, InTable, Accepts
  <2>. QED BY <1>2, <2>1, <2>2 DEF CallOK
<1>. QED BY <1>3, <1>4

LEMMA CancelKeepsHolders ==
    ASSUME BaseInv, TasksOK, [AsyncNext]_asyncVars, NEW t \in Calls \cup Acceptors, Cancels(t),
           NEW s \in Sessions, Holder(s, Unreaped)
    PROVE  Holder(s, Unreaped)'
<1>1. CASE Promised(s, Unreaped)
  <2>1. PICK c \in Calls : /\ pending[c].connection = s
                           /\ c \in Unreaped \/ pc[c] \notin {"raised", "timedout"}
    BY <1>1 DEF Promised
  <2>2. c \in Unreaped' \/ pc'[c] \notin {"raised", "timedout"}
    <3>1. c \in Threads BY ThreadKinds
    <3>2. CASE c # t BY <2>1, <3>1, <3>2, CancelMoves, TasksGo
    <3>3. CASE c = t BY <3>3, CancelledCall
    <3>. QED BY <3>2, <3>3
  <2>3. pending'[c].connection = s BY <2>1, CancelLeaves
  <2>. QED BY <2>2, <2>3 DEF Holder, Promised
<1>. QED BY <1>1, CancelKeepsPlaces DEF Holder

-----------------------------------------------------------------------------
(* The invariants, and the theorems *)

TasksInv == /\ TasksOK /\ BaseInv /\ ResolutionInv /\ LifeInv
            /\ OrderInv /\ OwnInv /\ LiveIsRegistered /\ SnapshotCovers

LEMMA TasksInit == AsyncInit => TasksInv
BY BaseInit, ResolutionInit, LifeInit, OrderInit, OwnInit, LiveInit
   DEF AsyncInit, TasksInv, TasksOK, TaskStates

LEMMA TasksStep ==
    ASSUME TasksInv, [AsyncNext]_asyncVars
    PROVE  TasksInv' /\ Final
<1>. USE DEF TasksInv
<1>1. TasksOK' BY TasksGo
<1>2. CASE [Next]_vars
  <2>1. BaseInv' /\ Grows /\ ResolutionInv' /\ Final /\ LifeInv'
    BY <1>2, BaseStep, ResolutionStep, LifeStep
  <2>2. OrderInv' /\ OwnInv' BY <1>2, OrderStep, OwnStep
  <2>3. LiveIsRegistered' /\ SnapshotCovers' BY <1>2, <2>1, RegisteredStep, CoversStep
  <2>. QED BY <1>1, <2>1, <2>2, <2>3
<1>3. ASSUME NEW t \in Calls \cup Acceptors, Cancels(t) PROVE TasksInv' /\ Final
  BY <1>1, <1>3, CancelKeepsBase, CancelKeepsResolution, CancelKeepsLife, CancelKeepsOrder,
     CancelKeepsOwners, CancelKeepsLive
<1>. QED BY <1>2, <1>3, StepIs DEF TasksOK

LEMMA TasksInvariant == AsyncSpec => []TasksInv
<1>1. TasksInv /\ [AsyncNext]_asyncVars => TasksInv' BY TasksStep
<1>. QED BY <1>1, TasksInit, PTL DEF AsyncSpec

(* Every variable of an asyncio Peer keeps its type however its tasks are  *)
(* cancelled (asyncio.py); in particular the connection a connect() closes *)
(* on its way out is there.                                                *)
THEOREM AsyncTypeCorrect == AsyncSpec => []AsyncTypeOK
<1>1. TasksInv => AsyncTypeOK
  BY DEF TasksInv, TasksOK, AsyncTypeOK, BaseInv, TypeOK, CoreTypeOK, RakOK, TablesOK, ObjectsOK,
         QueueOK, PumpOK, CloseOK, ThreadsOK
<1>. QED BY <1>1, TasksInvariant, PTL

(* No step changes a pending connect whose event is set, also when the     *)
(* task that waits for it is cancelled or the close() is.                  *)
THEOREM AsyncResolvedForGood == AsyncSpec => ResolutionIsFinal
<1>1. TasksInv /\ [AsyncNext]_asyncVars => TasksInv' BY TasksStep
<1>2. TasksInv /\ [AsyncNext]_asyncVars
          => [\A c \in Calls : pending[c].event => pending'[c] = pending[c]]_vars
  BY TasksStep DEF Final
<1>. QED BY <1>1, <1>2, TasksInit, PTL DEF AsyncSpec, ResolutionIsFinal

(* The asyncio Peer keeps what the sync one does for every number of       *)
(* calls: a pending connect is resolved one way, whoever sees the end of a *)
(* connection finds it closed, a connection that is connected is in the    *)
(* table, and a finished close() leaves at most one connected.             *)
THEOREM AsyncKeepsSafety ==
    AsyncSpec => [](/\ ResolvedExactlyOnce
                    /\ ClosedMailboxMeansDisconnected
                    /\ LiveIsRegistered
                    /\ AtMostOneOrphan)
<1>1. TasksInv => /\ ResolvedExactlyOnce /\ ClosedMailboxMeansDisconnected
                  /\ LiveIsRegistered /\ AtMostOneOrphan
  BY AtMostOne DEF TasksInv, ResolutionInv, LifeInv
<1>. QED BY <1>1, TasksInvariant, PTL

-----------------------------------------------------------------------------
(* What needs that no two tasks dial the same address. *)

WaitsInv == SnapshotInv /\ WaiterInv

LEMMA WaitsStep ==
    ASSUME OneCallEach, TasksInv, WaitsInv, [AsyncNext]_asyncVars
    PROVE  WaitsInv'
<1>. USE DEF TasksInv, WaitsInv
<1>1. CASE [Next]_vars BY <1>1, SnapshotStep, WaiterStep
<1>2. ASSUME NEW t \in Calls \cup Acceptors, Cancels(t) PROVE WaitsInv'
  BY <1>2, CancelKeepsWaiters
<1>. QED BY <1>1, <1>2, StepIs DEF TasksOK

(* A task that waits for its event is known to the thread that sets it     *)
(* (connect in asyncio.py, _begin_close in _peer.py), whichever tasks are  *)
(* cancelled, as long as no two of them dial the same address.             *)
THEOREM TasksAreReachable ==
    ASSUME \A c, d \in Calls : Target[c] = Target[d] => c = d
    PROVE  AsyncSpec => []TaskIsReachable
<1>. DEFINE Inv == TasksInv /\ WaitsInv
<1>1. AsyncInit => Inv BY TasksInit, WaiterInit DEF AsyncInit, WaitsInv
<1>2. Inv /\ [AsyncNext]_asyncVars => Inv' BY TasksStep, WaitsStep DEF OneCallEach
<1>3. Inv => TaskIsReachable BY DEF WaitsInv, WaiterInv, TaskIsReachable, InTable
<1>. QED BY <1>1, <1>2, <1>3, PTL DEF AsyncSpec

HoldsInv ==
    /\ OthersOK(Unreaped)
    /\ \A s \in Sessions : connState[s] = "open" => Holder(s, Unreaped)

LEMMA HoldsStep ==
    ASSUME OneCallEach, TasksInv, HoldsInv, [AsyncNext]_asyncVars
    PROVE  HoldsInv'
<1>. USE DEF TasksInv
<1>1. TasksOK' /\ Unreaped \subseteq Unreaped' BY TasksGo
<1>2. CASE [Next]_vars
  <2>1. PICK lost : lost = Unreaped OBVIOUS
  <2>2. OthersOK(lost) BY <2>1 DEF HoldsInv
  <2>3. OthersOK(lost)' BY <1>2, <2>2, GiveUpStep
  <2>4. \A s \in Sessions : connState[s] = "open" => Holder(s, lost) BY <2>1 DEF HoldsInv
  <2>5. \A s \in Sessions : connState'[s] = "open" => Holder(s, lost)'
    BY <1>2, <2>2, <2>3, <2>4, HolderStep
  <2>6. lost \subseteq Unreaped' BY <1>1, <2>1
  <2>7. OthersOK(Unreaped)' BY <2>3, <2>6 DEF OthersOK
  <2>8. \A s \in Sessions : connState'[s] = "open" => Holder(s, Unreaped)'
    BY <2>5, <2>6 DEF Holder, Promised
  <2>. QED BY <2>7, <2>8 DEF HoldsInv
<1>3. ASSUME NEW t \in Calls \cup Acceptors, Cancels(t) PROVE HoldsInv'
  <2>1. OthersOK(Unreaped)' BY <1>3, CancelKeepsCalls DEF HoldsInv
  <2>2. \A s \in Sessions : connState'[s] = "open" => Holder(s, Unreaped)'
    BY <1>3, CancelLeaves, CancelKeepsHolders DEF HoldsInv
  <2>. QED BY <2>1, <2>2 DEF HoldsInv
<1>. QED BY <1>2, <1>3, StepIs DEF TasksOK

(* However connect() and accept() are cancelled, a connection that is      *)
(* connected has a task that will close it or is on its way to one; or its *)
(* connect() let go of it (the to_thread of connect in asyncio.py, and its *)
(* except branch), and then it is in the table; as long as no two tasks    *)
(* dial the same address.                                                  *)
THEOREM TasksHoldConnections ==
    ASSUME \A c, d \in Calls : Target[c] = Target[d] => c = d
    PROVE  AsyncSpec => []TaskHoldsConnection
<1>. DEFINE Inv == TasksInv /\ HoldsInv
<1>1. AsyncInit => Inv
  <2>1. AsyncInit => HoldsInv
    BY GiveUpInit DEF AsyncInit, GiveUpInv, OthersOK, HoldsInv, Init, CoreInit
  <2>. QED BY <2>1, TasksInit
<1>2. Inv /\ [AsyncNext]_asyncVars => Inv' BY TasksStep, HoldsStep DEF OneCallEach
<1>3. Inv => TaskHoldsConnection
  <2>1. SUFFICES ASSUME Inv, NEW s \in Sessions, Holder(s, Unreaped)
                 PROVE  \/ pc[s] # "idle"
                        \/ \E i \in DOMAIN acceptQueue : acceptQueue[i] = s
                        \/ pumpPc \in {"accept_put", "succeeded_publish"} /\ packet.session = s
                        \/ \E c \in Calls :
                               /\ pending[c].connection = s
                               /\ \/ ~LetGo(c) /\ pc[c] \notin {"raised", "timedout"}
                                  \/ LetGo(c)
    BY DEF HoldsInv, TaskHoldsConnection, TasksInv, LiveIsRegistered
  <2>2. DOMAIN acceptQueue = 1 .. Len(acceptQueue)
    BY <2>1, LenProperties DEF TasksInv, BaseInv, QueueOK, QueueTypeOK
  <2>. QED BY <2>1, <2>2 DEF Holder, Queued, InHand, BuiltPump, Promised, Unreaped, LetGo
<1>. QED BY <1>1, <1>2, <1>3, PTL DEF AsyncSpec

(* A cancelled task leaves its attempt to the table, or had timed out. *)
LEMMA CancelKeepsAttempts ==
    ASSUME BaseInv, AttemptInv, HandedInv, NEW t \in Calls \cup Acceptors, Cancels(t)
    PROVE  AttemptInv' /\ HandedInv'
<1>1. \A c \in Calls : /\ pc'[c] \in {"idle", "register", "dial", "undial"} => pc'[c] = pc[c]
                       /\ pc[c] \in {"cancel", "timedout"} => pc'[c] = pc[c]
  BY CancelMoves, ThreadKinds
<1>2. \A c \in Calls : (Dialled(c) => Dialled(c)') /\ (pc'[c] = "dial" => pc[c] = "dial")
                       /\ (InTable(c)' <=> InTable(c))
  BY <1>1, CancelLeaves DEF Dialled, InTable
<1>3. \A r \in Remotes : (OneAnswer(r)' <=> OneAnswer(r)) /\ (Outstanding(r)' <=> Outstanding(r))
  BY CancelLeaves DEF OneAnswer, Outstanding, Answered, AnsweredOnce, AtAnswer, Resolves
<1>4. Running' <=> Running BY CancelLeaves DEF Running
<1>5. AttemptInv' BY <1>2, <1>3, <1>4 DEF AttemptInv
<1>. QED BY <1>5, CancelLeaves DEF HandedInv, Built

LEMMA CancelKeepsZombies ==
    ASSUME BaseInv, ZombieOnlyAfterTimeout, NEW t \in Calls \cup Acceptors, Cancels(t)
    PROVE  ZombieOnlyAfterTimeout'
<1>1. \A c \in Calls : pc[c] \in {"cancel", "timedout"} => pc'[c] = pc[c]
  BY CancelMoves, ThreadKinds
<1>2. \A r \in Remotes : Zombie(r)' <=> Zombie(r) BY CancelLeaves DEF Zombie, Opening
<1>. QED BY <1>1, <1>2, CancelLeaves DEF ZombieOnlyAfterTimeout

(* The asyncio connect() leaves an established session behind without a    *)
(* Connection only where the sync one does, when it gives up an attempt    *)
(* that is being answered (connect in asyncio.py), as long as no two tasks *)
(* dial the same address: a task cancelled before its worker is done       *)
(* leaves the entry to the pump.                                           *)
THEOREM TasksLeaveZombiesLate ==
    ASSUME \A c, d \in Calls : Target[c] = Target[d] => c = d
    PROVE  AsyncSpec => []ZombieOnlyAfterTimeout
<1>. DEFINE Inv == TasksInv /\ AttemptInv /\ HandedInv /\ ZombieOnlyAfterTimeout
<1>1. AsyncInit => Inv BY TasksInit, AttemptInit, ZombieInit DEF AsyncInit
<1>2. Inv /\ [AsyncNext]_asyncVars => Inv'
  <2>1. SUFFICES ASSUME Inv, [AsyncNext]_asyncVars PROVE Inv' OBVIOUS
  <2>2. BaseInv /\ ResolutionInv /\ LifeInv /\ TasksOK BY <2>1 DEF TasksInv
  <2>3. OneCallEach BY DEF OneCallEach
  <2>4. CASE [Next]_vars
    BY <2>1, <2>2, <2>3, <2>4, TasksStep, AttemptStep, HandedStep, ZombieStep
  <2>5. ASSUME NEW t \in Calls \cup Acceptors, Cancels(t) PROVE Inv'
    BY <2>1, <2>2, <2>5, TasksStep, CancelKeepsAttempts, CancelKeepsZombies
  <2>. QED BY <2>1, <2>2, <2>4, <2>5, StepIs DEF TasksOK
<1>3. Inv => ZombieOnlyAfterTimeout OBVIOUS
<1>. QED BY <1>1, <1>2, <1>3, PTL DEF AsyncSpec
=============================================================================
