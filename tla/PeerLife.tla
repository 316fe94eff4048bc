------------------------------ MODULE PeerLife ------------------------------
(***************************************************************************)
(* The life of a RakPeer in the Python layer: Peer.__init__, the three     *)
(* factories of either layer, the receive pump and close(), as far as they *)
(* decide which thread is inside which method of the RakPeer, and who has  *)
(* a reference to it.  What the packets do to the tables is in PeerCore.   *)
(*                                                                         *)
(* Main is the caller of a factory: a thread, or in the asyncio layer a    *)
(* task with the worker threads it lends its blocking calls to.  Users are *)
(* the threads that call the peer while the caller has it.                 *)
(***************************************************************************)
EXTENDS RakPeer

CONSTANTS Main, Pump, Users

ASSUME PeerLifeAssumption ==
    /\ Threads = {Main, Pump} \cup Users
    /\ Main # Pump /\ Main \notin Users /\ Pump \notin Users

VARIABLES mainPc,      \* the step of the caller
          abandoned,   \* the caller was cancelled while a worker builds the peer
          pumpPc,      \* the step of the receive pump
          closed       \* Peer._closed

peerVars == <<mainPc, abandoned, pumpPc, closed>>
vars == <<rakPeerVars, peerVars>>

BuildPcs == {"start", "startup", "started", "configure", "thread"}
DialPcs  == {"dial", "dialled", "probe", "probed"}
UsePcs   == {"using", "begin", "join", "shutdown", "finish", "closed"}
PumpPcs  == {"none", "check", "received", "crashed", "failing", "failed", "exited"}

TypeOK ==
    /\ RakPeerTypeOK
    /\ mainPc \in BuildPcs \cup DialPcs \cup UsePcs \cup {"gone"}
    /\ abandoned \in BOOLEAN
    /\ pumpPc \in PumpPcs
    /\ closed \in BOOLEAN

Init ==
    /\ RakPeerInit
    /\ mainPc = "start"
    /\ abandoned = FALSE
    /\ pumpPc = "none"
    /\ closed = FALSE

MainGoes(step) == mainPc' = step /\ UNCHANGED <<abandoned, pumpPc>>

MainAt(step) == mainPc = step /\ Running(Main)

(* The caller lets go of the peer, by returning or by raising. *)
MainDrops ==
    /\ Drops(Main)
    /\ Forgets(Main)
    /\ MainGoes("gone")
    /\ UNCHANGED <<gilVars, bufferVars, pingVars>>

-----------------------------------------------------------------------------
(* Peer.__init__ *)

MainConstructs ==
    /\ MainAt("start")
    /\ Constructs(Main)
    /\ MainGoes("startup")
    /\ UNCHANGED closed

MainStartsUp ==
    /\ MainAt("startup")
    /\ StartupCalls(Main)
    /\ MainGoes("started")
    /\ UNCHANGED closed

(* StartupError unless RakNet started. *)
MainStarted ==
    /\ MainAt("started")
    /\ \/ /\ result[Main] = "RAKNET_STARTED"
          /\ MainGoes("configure")
          /\ Forgets(Main)
          /\ UNCHANGED <<gilVars, ownerVars, bufferVars, packetVars, pingVars>>
       \/ result[Main] # "RAKNET_STARTED" /\ MainDrops
    /\ UNCHANGED closed

(* The bound on incoming connections, the password and the ping response;  *)
(* an argument the binding cannot convert raises TypeError.                *)
MainConfigures ==
    /\ MainAt("configure")
    /\ \/ SetOfflinePingResponse(Main) /\ MainGoes("thread")
       \/ UNCHANGED rakPeerVars /\ MainGoes("thread")
       \/ MainDrops
    /\ UNCHANGED closed

(* The thread references the peer.  A peer whose task was cancelled goes   *)
(* to nobody; the others to create_server, create_connection or ping.      *)
PumpBegins ==
    /\ pumpPc' = "check"
    /\ \/ /\ abandoned
          /\ owners' = {Pump} /\ mainPc' = "gone"
       \/ /\ ~abandoned
          /\ owners' = {Main, Pump} /\ mainPc' \in {"using", "dial", "probe"}
    /\ UNCHANGED <<gilVars, result, instance, bufferVars, packetVars, pingVars, abandoned>>

(* The constructor raises when no thread can be started. *)
MainStartsPump ==
    /\ MainAt("thread")
    /\ PumpBegins \/ MainDrops
    /\ UNCHANGED closed

(* asyncio: the task of _create is cancelled, its worker thread goes on. *)
BuildIsCancelled ==
    /\ mainPc \in BuildPcs
    /\ abandoned' = TRUE
    /\ UNCHANGED <<rakPeerVars, mainPc, pumpPc, closed>>

-----------------------------------------------------------------------------
(* create_connection and ping *)

MainDials ==
    /\ MainAt("dial")
    /\ ConnectCalls(Main)
    /\ MainGoes("dialled")
    /\ UNCHANGED closed

MainDialled_JustRaises ==
    /\ MainAt("dialled")
    /\ \/ /\ result[Main] = "CONNECTION_ATTEMPT_STARTED"
          /\ MainGoes("using")
          /\ UNCHANGED rakPeerVars
       \/ MainDrops
    /\ UNCHANGED closed

(* connect() returns a connection that will close its peer, or raises, as  *)
(* it may even if RakNet began the attempt, and the peer is closed.        *)
MainDialled ==
    /\ MainAt("dialled")
    /\ \/ result[Main] = "CONNECTION_ATTEMPT_STARTED" /\ MainGoes("using")
       \/ MainGoes("begin")
    /\ Forgets(Main)
    /\ UNCHANGED <<gilVars, ownerVars, bufferVars, packetVars, pingVars, closed>>

MainProbes ==
    /\ MainAt("probe")
    /\ Ping(Main)
    /\ MainGoes("probed")
    /\ UNCHANGED closed

(* A pong, a failure or a timeout: the peer is closed in any case. *)
MainProbed ==
    /\ MainAt("probed")
    /\ MainGoes("begin")
    /\ UNCHANGED <<rakPeerVars, closed>>

-----------------------------------------------------------------------------
(* close() by the caller: of the peer, or of the connection that owns it *)

MainCloses ==
    /\ MainAt("using")
    /\ MainGoes("begin")
    /\ UNCHANGED <<rakPeerVars, closed>>

(* What the caller does with the peer meanwhile that matters to the users. *)
MainUses ==
    /\ MainAt("using")
    /\ GetOfflinePingResponse(Main) \/ ItemsChange(Main)
    /\ UNCHANGED peerVars

MainBeginsClose_NoJoin ==
    /\ MainAt("begin")
    /\ closed' = TRUE
    /\ MainGoes(IF closed THEN "closed" ELSE "shutdown")
    /\ UNCHANGED rakPeerVars

(* A crashed pump may have begun, and then close() returns at once. *)
MainBeginsClose ==
    /\ MainAt("begin")
    /\ closed' = TRUE
    /\ MainGoes(IF closed THEN "closed" ELSE "join")
    /\ UNCHANGED rakPeerVars

MainJoins ==
    /\ MainAt("join") /\ pumpPc = "exited"
    /\ MainGoes("shutdown")
    /\ UNCHANGED <<rakPeerVars, closed>>

MainShutsDown ==
    /\ MainAt("shutdown")
    /\ ShutdownCalls(Main)
    /\ MainGoes("finish")
    /\ UNCHANGED closed

MainFinishes ==
    /\ MainAt("finish")
    /\ MainGoes("closed")
    /\ UNCHANGED <<rakPeerVars, closed>>

MainLeaves ==
    /\ MainAt("closed")
    /\ MainDrops
    /\ UNCHANGED closed

(* asyncio: close() is cancelled while a worker joins the pump.  The rest  *)
(* of it is lost, and the caller goes without having shut RakNet down.     *)
JoinIsCancelled ==
    /\ MainAt("join")
    /\ MainGoes("closed")
    /\ UNCHANGED <<rakPeerVars, closed>>

MainStep ==
    \/ MainConstructs \/ MainStartsUp \/ MainStarted \/ MainConfigures \/ MainStartsPump
    \/ MainDials \/ MainDialled \/ MainProbes \/ MainProbed
    \/ MainBeginsClose \/ MainJoins \/ MainShutsDown \/ MainFinishes \/ MainLeaves

-----------------------------------------------------------------------------
(* The receive pump *)

PumpGoes(step) == pumpPc' = step /\ UNCHANGED <<mainPc, abandoned>>

PumpAt(step) == pumpPc = step /\ Running(Pump)

PumpChecks ==
    /\ PumpAt("check") /\ ~closed
    /\ ReceiveCalls(Pump)
    /\ PumpGoes("received")
    /\ UNCHANGED closed

(* Without a packet the pump sleeps, and gives up the GIL for it.  route() *)
(* returns or raises; so does receive().                                   *)
PumpRoutes ==
    /\ PumpAt("received")
    /\ \/ result[Pump] \in {"nullopt", "Packet"} /\ PumpGoes("check")
       \/ result[Pump] \in {"Packet", "MemoryError"} /\ PumpGoes("crashed")
    /\ gil' = IF result[Pump] = "nullopt" THEN None ELSE gil
    /\ Forgets(Pump)
    /\ UNCHANGED <<at, method, ownerVars, bufferVars, packetVars, pingVars, closed>>

PumpFails ==
    /\ PumpAt("crashed") /\ ~closed
    /\ closed' = TRUE
    /\ PumpGoes("failing")
    /\ UNCHANGED rakPeerVars

PumpShutsDown ==
    /\ PumpAt("failing")
    /\ ShutdownCalls(Pump)
    /\ PumpGoes("failed")
    /\ UNCHANGED closed

(* The thread ends: its loop saw _closed, or _fail is done or not needed. *)
PumpExits ==
    /\ PumpAt("check") \/ PumpAt("crashed") \/ PumpAt("failed")
    /\ closed
    /\ Drops(Pump)
    /\ PumpGoes("exited")
    /\ UNCHANGED <<gilVars, result, bufferVars, pingVars, closed>>

PumpStep == PumpChecks \/ PumpRoutes \/ PumpFails \/ PumpShutsDown \/ PumpExits

-----------------------------------------------------------------------------
(* Threads that use the peer from when a factory returned it until its     *)
(* caller lets go of it; a call they are in may end after that.            *)
UserCalls(u) ==
    /\ mainPc \in UsePcs
    /\ \/ Send(u) \/ SendList(u) \/ AdvertiseSystem(u) \/ SendOutOfBand(u)
       \/ SendTTL(u) \/ SendLoopback(u)
       \/ SetOfflinePingResponse(u) \/ GetOfflinePingResponse(u)
       \/ ItemsChange(u)

(* Which threads have Python code to run: while a caller joins the pump,   *)
(* in the asyncio layer, its event loop.                                   *)
Runnable(t) ==
    CASE t = Main -> mainPc # "gone"
      [] t = Pump -> pumpPc \notin {"none", "exited"}
      [] t \in Users -> TRUE

Resume(t) == Runnable(t) /\ Resumes(t)

Next ==
    \/ MainStep \/ MainUses \/ MainCloses \/ BuildIsCancelled \/ JoinIsCancelled
    \/ PumpStep
    \/ \E u \in Users : UserCalls(u) /\ UNCHANGED peerVars
    \/ \E t \in Threads :
           (Resume(t) \/ Preempts(t) \/ Returns(t) \/ NativeStep(t) \/ HeldStep(t))
               /\ UNCHANGED peerVars
    \/ PacketArrives /\ UNCHANGED peerVars

Spec == Init /\ [][Next]_vars

(* A thread that holds the GIL and goes on using it is asked to give it up *)
(* after a switch interval, and one that waits for it gets it in the end.  *)
(* Nothing is asked of RakNet: what a method asked it to do may never end. *)
Fairness ==
    /\ SF_vars((\E t \in Threads : Preempts(t)) /\ UNCHANGED peerVars)
    /\ \A t \in Threads : SF_vars(Returns(t) /\ UNCHANGED peerVars)
    /\ \A t \in Threads : WF_vars(HeldStep(t) /\ UNCHANGED peerVars)

FairSpec == Spec /\ Fairness

-----------------------------------------------------------------------------
(* Safety *)

(* RakNet never reads a bytes object that Python has freed: whatever a     *)
(* method lent it is referenced until RakNet is done, also when another    *)
(* thread changes the list that send_list was called with.                 *)
BuffersAreAlive ==
    \A t \in Threads : lent[t] \subseteq items \cup UNION {held[u] : u \in Threads}

(* receive() returns the packet RakNet handed it: between Receive and      *)
(* DeallocatePacket the GIL changes hands, and neither the network thread  *)
(* nor the shutdown of a close() or of a crashed pump may touch the        *)
(* packet's memory before it is copied.                                    *)
ReceiveIsFaithful == \A t \in Threads : at[t] = "bytes" => copy[t] = handed[t]

(* RakNet's packet memory is in its own hands, in those of a receive(), or *)
(* leaked by one that ran out of memory; nothing else stays allocated, and *)
(* no freed slot is still in use.                                          *)
EveryPacketGoesBack ==
    {s \in Slots : content[s] # None} =
        Range(arrived) \cup ({hand[t] : t \in Threads} \ {None}) \cup leaked

(* get_offline_ping_response uses a pointer into RakNet's buffer, which no *)
(* other thread replaces before the bytes are made of it.                  *)
ResponseIsStable == \A t \in Threads : at[t] = "pointer" => seen[t] = response

(* A pump that runs on an open peer has somebody to close it: a factory    *)
(* that raises closed the peer it made, except one of the asyncio layer    *)
(* that was cancelled while a worker thread built the peer.                *)
RunningPumpHasAnOwner ==
    pumpPc \in {"check", "received"} /\ ~closed => Main \in owners \/ abandoned

-----------------------------------------------------------------------------
(* Liveness *)

(* A thread whose method is done gets back to Python, however long RakNet  *)
(* works for the others: the methods that may block hold no GIL.           *)
GilIsPassedOn == \A t \in Threads : at[t] = "returning" ~> gil = t
=============================================================================
