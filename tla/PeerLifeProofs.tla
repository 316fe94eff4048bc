--------------------------- MODULE PeerLifeProofs ---------------------------
(***************************************************************************)
(* Theorems about PeerLife, for any number of user threads, buffers, slots *)
(* and contents.  A thread inside a method keeps the RakPeer alive; only   *)
(* the pump has a packet, and it cannot be between Receive and             *)
(* DeallocatePacket while a shutdown runs: close() joins it first, and a   *)
(* crashed pump is done with its packets.                                  *)
(***************************************************************************)
EXTENDS PeerLife, TLAPS

(* Whoever uses RakNet's memory in Python has the GIL; what RakNet uses of *)
(* Python's is referenced.                                                 *)
PlaceInv ==
    \A t \in Threads :
        /\ at[t] \in {"packet", "bytes", "pointer"} => gil = t
        /\ at[t] = "pointer" => seen[t] = response
        /\ lent[t] \subseteq held[t]
        /\ at[t] # "native" => lent[t] = {}

(* Which thread is in which method, at which step. *)
CallInv ==
    /\ \A u \in Users : at[u] = "native" => method[u] = "send"
    /\ at[Main] = "native" => method[Main] \in {"startup", "connect", "send"}
                              \/ (method[Main] = "shutdown" /\ mainPc = "finish")
    /\ at[Pump] = "native" => \/ method[Pump] = "receive" /\ pumpPc = "received"
                              \/ method[Pump] = "shutdown" /\ pumpPc = "failed"
    /\ mainPc \in {"shutdown", "finish"} => pumpPc = "exited"

(* Only the pump has a packet, from Receive to DeallocatePacket. *)
HandInv ==
    \A t \in Threads :
        /\ hand[t] # None => /\ t = Pump /\ pumpPc = "received"
                             /\ at[t] \in {"returning", "packet", "bytes"}
        /\ at[t] \in {"packet", "bytes"} => hand[t] # None

(* A slot is queued once, in a hand or leaked, and keeps what it holds. *)
PacketInv ==
    /\ EveryPacketGoesBack
    /\ \A i, j \in DOMAIN arrived : arrived[i] = arrived[j] => i = j
    /\ Range(arrived) \cap leaked = {}
    /\ \A t \in Threads : hand[t] # None =>
           /\ hand[t] \notin Range(arrived) \cup leaked
           /\ content[hand[t]] = handed[t]
    /\ ReceiveIsFaithful

(* A call references the RakPeer it is made on. *)
CallsReference == instance = "destroyed" => \A t \in Threads : ~InCall(t)

(* Who has a reference to the RakPeer, and what that keeps from happening. *)
OwnerInv ==
    /\ mainPc = "start" => \A t \in Threads : at[t] = "python"
    /\ mainPc = "start" => instance = "none"
    /\ mainPc \in BuildPcs => pumpPc = "none"
    /\ mainPc \notin {"start", "gone"} => Main \in owners
    /\ pumpPc \notin {"none", "exited"} => Pump \in owners
    /\ owners # {} => instance \in {"down", "up"}
    /\ CallsReference
    /\ mainPc \in {"join", "shutdown", "finish", "closed"} => closed
    /\ RunningPumpHasAnOwner

IInv == TypeOK /\ PlaceInv /\ CallInv /\ HandInv /\ PacketInv /\ OwnerInv

-----------------------------------------------------------------------------
(* What a step leaves alone *)

LEMMA TypeInit == Init => TypeOK
<1>. SUFFICES ASSUME Init PROVE TypeOK OBVIOUS
<1>. USE DEF Init, RakPeerInit
<1>1. RakPeerTypeOK BY DEF RakPeerTypeOK, Places
<1>2. mainPc \in BuildPcs /\ abandoned \in BOOLEAN /\ pumpPc \in PumpPcs /\ closed \in BOOLEAN
  BY DEF BuildPcs, PumpPcs
<1>. QED BY <1>1, <1>2 DEF TypeOK

LEMMA IInvInit == Init => IInv
<1>. SUFFICES ASSUME Init PROVE IInv OBVIOUS
<1>. USE RakPeerAssumption, PeerLifeAssumption DEF Init, RakPeerInit
<1>1. PlaceInv /\ CallInv /\ HandInv BY DEF PlaceInv, CallInv, HandInv
<1>2. PacketInv BY DEF PacketInv, EveryPacketGoesBack, ReceiveIsFaithful, Range
<1>3. OwnerInv BY DEF OwnerInv, CallsReference, RunningPumpHasAnOwner, InCall
<1>. QED BY TypeInit, <1>1, <1>2, <1>3 DEF IInv

(* A step of no part of the RakPeer. *)
LEMMA TypesKept == ASSUME RakPeerTypeOK, UNCHANGED rakPeerVars PROVE RakPeerTypeOK'
BY DEF RakPeerTypeOK, rakPeerVars, gilVars, ownerVars, bufferVars, packetVars, pingVars

(* Packets are safe from a step that touches none of them. *)
LEMMA PacketsKept ==
    ASSUME PacketInv, UNCHANGED packetVars,
           \A t \in Threads : at'[t] = "bytes" => at[t] = "bytes"
    PROVE  PacketInv'
BY DEF PacketInv, packetVars, EveryPacketGoesBack, ReceiveIsFaithful

(* RakNet frees all it has while no receive() has a packet. *)
LEMMA PacketsFreed ==
    ASSUME RakPeerTypeOK, FreePackets, \A t \in Threads : hand[t] = None,
           \A t \in Threads : at'[t] # "bytes"
    PROVE  /\ PacketInv'
           /\ content' \in [Slots -> Contents \cup {None}]
           /\ arrived' \in Seq(Slots) /\ leaked' \subseteq Slots
<1>. USE DEF FreePackets
<1>1. EveryPacketGoesBack' BY DEF EveryPacketGoesBack, Range
<1>2. ReceiveIsFaithful' BY DEF ReceiveIsFaithful
<1>. QED BY <1>1, <1>2 DEF PacketInv, Range

(* An owner in Python lets go of the RakPeer, which may destroy it. *)
LEMMA DropsProperties ==
    ASSUME IInv, NEW t \in Threads, Running(t), Drops(t), UNCHANGED at
    PROVE  /\ owners' = owners \ {t}
           /\ instance' = "destroyed" => owners' = {} /\ \A u \in Threads : at[u] = "python"
           /\ instance' # instance => instance' = "destroyed"
           /\ UNCHANGED <<hand, handed, copy>>
           /\ content' \in [Slots -> Contents \cup {None}]
           /\ arrived' \in Seq(Slots) /\ leaked' \subseteq Slots
           /\ PacketInv'
<1>1. CASE owners \ {t} = {} /\ \A u \in Threads : at[u] = "python"
  <2>1. FreePackets /\ instance' = "destroyed" /\ owners' = owners \ {t}
    BY <1>1 DEF Drops, Unreferenced, InCall, Destroys
  <2>2. \A u \in Threads : hand[u] = None BY <1>1 DEF IInv, HandInv
  <2>. QED BY <1>1, <2>1, <2>2, PacketsFreed DEF IInv, TypeOK, FreePackets
<1>2. CASE ~(owners \ {t} = {} /\ \A u \in Threads : at[u] = "python")
  <2>1. UNCHANGED <<instance, packetVars>> /\ owners' = owners \ {t}
    BY <1>2 DEF Drops, Unreferenced, InCall
  <2>2. PacketInv' BY <2>1, PacketsKept DEF IInv
  <2>3. instance = "destroyed" => owners = {} /\ \A u \in Threads : at[u] = "python"
    BY DEF IInv, OwnerInv, CallsReference, InCall
  <2>. QED BY <2>1, <2>2, <2>3 DEF packetVars, IInv, TypeOK, RakPeerTypeOK
<1>. QED BY <1>1, <1>2

-----------------------------------------------------------------------------
(* Packets *)

LEMMA AppendRange ==
    ASSUME NEW S, NEW q \in Seq(S), NEW x \in S
    PROVE  /\ Append(q, x) \in Seq(S)
           /\ Range(Append(q, x)) = Range(q) \cup {x}
           /\ \A i \in DOMAIN q : Append(q, x)[i] = q[i]
           /\ DOMAIN Append(q, x) = DOMAIN q \cup {Len(q) + 1}
           /\ Append(q, x)[Len(q) + 1] = x
<1>1. /\ DOMAIN Append(q, x) = DOMAIN q \cup {Len(q) + 1}
      /\ \A i \in DOMAIN q : Append(q, x)[i] = q[i]
      /\ Append(q, x)[Len(q) + 1] = x
  OBVIOUS
<1>2. Range(Append(q, x)) = Range(q) \cup {x}
  BY <1>1, Zenon DEF Range
<1>. QED BY <1>1, <1>2

(* The head of a sequence without repetition is gone from its tail. *)
LEMMA TailRange ==
    ASSUME NEW S, NEW q \in Seq(S), q # <<>>,
           \A i, j \in DOMAIN q : q[i] = q[j] => i = j
    PROVE  /\ Head(q) \in S /\ Tail(q) \in Seq(S)
           /\ Range(q) = Range(Tail(q)) \cup {Head(q)}
           /\ Head(q) \notin Range(Tail(q))
           /\ \A i, j \in DOMAIN Tail(q) : Tail(q)[i] = Tail(q)[j] => i = j
<1>1. /\ DOMAIN q = 1..Len(q) /\ Len(q) \in Nat \ {0}
      /\ DOMAIN Tail(q) = 1..(Len(q) - 1)
      /\ \A i \in 1..(Len(q) - 1) : Tail(q)[i] = q[i + 1]
      /\ Head(q) = q[1]
  OBVIOUS
<1>2. \A i \in DOMAIN Tail(q) : Tail(q)[i] = q[i + 1] /\ i + 1 \in DOMAIN q /\ i + 1 # 1
  BY <1>1
<1>3. \A j \in DOMAIN q : j = 1 \/ (j - 1 \in DOMAIN Tail(q) /\ q[j] = Tail(q)[j - 1])
  BY <1>1
<1>4. Range(q) = Range(Tail(q)) \cup {Head(q)}
  <2>1. Range(q) \subseteq Range(Tail(q)) \cup {Head(q)}
    <3>1. SUFFICES ASSUME NEW j \in DOMAIN q PROVE q[j] \in Range(Tail(q)) \cup {Head(q)}
      BY DEF Range
    <3>2. CASE j = 1 BY <1>1, <3>2
    <3>3. CASE j - 1 \in DOMAIN Tail(q) /\ q[j] = Tail(q)[j - 1] BY <3>3 DEF Range
    <3>. QED BY <1>3, <3>2, <3>3
  <2>2. Head(q) \in Range(q) BY <1>1 DEF Range
  <2>3. Range(Tail(q)) \subseteq Range(q) BY <1>2 DEF Range
  <2>. QED BY <2>1, <2>2, <2>3
<1>5. Head(q) \notin Range(Tail(q)) BY <1>1, <1>2 DEF Range
<1>6. \A i, j \in DOMAIN Tail(q) : Tail(q)[i] = Tail(q)[j] => i = j
  BY <1>1, <1>2
<1>. QED BY <1>4, <1>5, <1>6

(* A packet is queued in a free slot. *)
LEMMA QueuesProperties ==
    ASSUME RakPeerTypeOK, PacketInv, NEW c \in Contents, Queues(c), UNCHANGED at
    PROVE  /\ content' \in [Slots -> Contents \cup {None}] /\ arrived' \in Seq(Slots)
           /\ UNCHANGED <<hand, handed, copy, leaked>>
           /\ PacketInv'
<1>1. PICK s \in Slots :
          /\ content[s] = None /\ content' = [content EXCEPT ![s] = c]
          /\ arrived' = Append(arrived, s) /\ UNCHANGED <<hand, handed, copy, leaked>>
  BY DEF Queues
<1>2. content' \in [Slots -> Contents \cup {None}] /\ arrived \in Seq(Slots)
  BY <1>1 DEF RakPeerTypeOK
<1>3. arrived' \in Seq(Slots) /\ Range(arrived') = Range(arrived) \cup {s}
  BY <1>1, <1>2, AppendRange
<1>4. /\ s \notin Range(arrived) /\ s \notin leaked
      /\ \A t \in Threads : s # hand[t]
  BY <1>1, RakPeerAssumption DEF PacketInv, EveryPacketGoesBack
<1>5. EveryPacketGoesBack'
  <2>1. {r \in Slots : content'[r] # None} = {r \in Slots : content[r] # None} \cup {s}
    BY <1>1, RakPeerAssumption DEF RakPeerTypeOK
  <2>. QED BY <1>1, <1>3, <2>1 DEF PacketInv, EveryPacketGoesBack
<1>6. \A i, j \in DOMAIN arrived' : arrived'[i] = arrived'[j] => i = j
  <2>1. \A i \in DOMAIN arrived : arrived[i] # s BY <1>4 DEF Range
  <2>2. /\ \A i \in DOMAIN arrived : arrived'[i] = arrived[i]
        /\ DOMAIN arrived' = DOMAIN arrived \cup {Len(arrived) + 1}
        /\ arrived'[Len(arrived) + 1] = s
    BY <1>1, <1>2, AppendRange
  <2>. QED BY <2>1, <2>2 DEF PacketInv
<1>7. Range(arrived') \cap leaked' = {} BY <1>1, <1>3, <1>4 DEF PacketInv
<1>8. ASSUME NEW t \in Threads, hand[t] # None
      PROVE  hand[t] \notin Range(arrived') \cup leaked /\ content'[hand[t]] = handed[t]
  <2>1. hand[t] \in Slots /\ hand[t] # s BY <1>4, <1>8 DEF RakPeerTypeOK
  <2>. QED BY <1>1, <1>3, <1>8, <2>1 DEF PacketInv, RakPeerTypeOK
<1>9. ReceiveIsFaithful' BY <1>1 DEF PacketInv, ReceiveIsFaithful
<1>. QED BY <1>1, <1>2, <1>3, <1>5, <1>6, <1>7, <1>8, <1>9 DEF PacketInv

(* Receive hands out the first packet that arrived, if there is one. *)
LEMMA ReceiveRunsProperties ==
    ASSUME IInv, NEW t \in Threads, ReceiveRuns(t)
    PROVE  /\ arrived' \in Seq(Slots)
           /\ hand' \in [Threads -> Slots \cup {None}]
           /\ handed' \in [Threads -> Contents \cup {None}]
           /\ UNCHANGED <<content, copy, leaked>>
           /\ PacketInv'
<1>. USE DEF IInv, TypeOK, RakPeerTypeOK
<1>1. CASE arrived = <<>>
  <2>1. UNCHANGED packetVars /\ at' = [at EXCEPT ![t] = "returning"]
    BY <1>1 DEF ReceiveRuns, NativeEnds, Goes
  <2>. QED BY <2>1, PacketsKept DEF packetVars
<1>2. CASE arrived # <<>>
  <2>. DEFINE s == Head(arrived)
  <2>1. /\ hand' = [hand EXCEPT ![t] = s] /\ handed' = [handed EXCEPT ![t] = content[s]]
        /\ arrived' = Tail(arrived) /\ UNCHANGED <<content, copy, leaked>>
        /\ at' = [at EXCEPT ![t] = "returning"] /\ at[t] = "native"
    BY <1>2 DEF ReceiveRuns, NativeEnds, Goes, Native
  <2>2. /\ s \in Slots /\ arrived' \in Seq(Slots)
        /\ Range(arrived) = Range(arrived') \cup {s} /\ s \notin Range(arrived')
        /\ \A i, j \in DOMAIN arrived' : arrived'[i] = arrived'[j] => i = j
    BY <1>2, <2>1, TailRange DEF PacketInv
  <2>3. hand[t] = None BY <2>1 DEF HandInv
  <2>4. /\ hand'[t] = s /\ handed'[t] = content[s]
        /\ \A u \in Threads : u # t => hand'[u] = hand[u] /\ handed'[u] = handed[u]
    BY <2>1
  <2>5. s \notin leaked /\ \A u \in Threads : hand[u] # s
    BY <2>2, RakPeerAssumption DEF PacketInv
  <2>6. EveryPacketGoesBack'
    <3>1. {hand'[u] : u \in Threads} \ {None} = ({hand[u] : u \in Threads} \ {None}) \cup {s}
      BY <2>2, <2>3, <2>4, RakPeerAssumption
    <3>2. {x \in Slots : content'[x] # None}
            = Range(arrived) \cup ({hand[u] : u \in Threads} \ {None}) \cup leaked
      BY <2>1 DEF PacketInv, EveryPacketGoesBack
    <3>3. leaked' = leaked BY <2>1
    <3>4. Range(arrived) \cup ({hand[u] : u \in Threads} \ {None}) \cup leaked
            = Range(arrived') \cup (({hand[u] : u \in Threads} \ {None}) \cup {s})
                \cup leaked
      <4>. HIDE DEF s
      <4>. QED BY ONLY <2>2
    <3>. QED BY ONLY <3>1, <3>2, <3>3, <3>4 DEF EveryPacketGoesBack
  <2>7. ASSUME NEW u \in Threads, hand'[u] # None
        PROVE  hand'[u] \notin Range(arrived') \cup leaked /\ content[hand'[u]] = handed'[u]
    BY <2>2, <2>4, <2>5, <2>7 DEF PacketInv
  <2>8. ReceiveIsFaithful' BY <2>1, <2>4 DEF PacketInv, ReceiveIsFaithful
  <2>9. hand' \in [Threads -> Slots \cup {None}] /\ handed' \in [Threads -> Contents \cup {None}]
    BY <2>1, <2>2
  <2>10. Range(arrived') \cap leaked = {} BY <2>2 DEF PacketInv
  <2>. QED BY <2>1, <2>2, <2>6, <2>7, <2>8, <2>9, <2>10 DEF PacketInv
<1>. QED BY <1>1, <1>2

(* A step of other variables. *)
LEMMA StutterKeepsIInv == ASSUME IInv, UNCHANGED <<rakPeerVars, peerVars>> PROVE IInv'
<1>. USE DEF IInv, rakPeerVars, gilVars, ownerVars, bufferVars, packetVars, pingVars,
        peerVars
<1>1. TypeOK' BY TypesKept DEF TypeOK
<1>2. PacketInv' BY PacketsKept
<1>3. PlaceInv' /\ CallInv' /\ HandInv' BY DEF PlaceInv, CallInv, HandInv
<1>4. OwnerInv' BY DEF OwnerInv, CallsReference, RunningPumpHasAnOwner, InCall
<1>. QED BY <1>1, <1>2, <1>3, <1>4

-----------------------------------------------------------------------------
(* The steps *)

(* Steps of the caller and of the pump that no RakPeer is part of. *)
LEMMA PythonStepKeepsIInv ==
    ASSUME IInv, MainProbed \/ MainCloses \/ MainBeginsClose \/ MainJoins \/ MainFinishes
               \/ BuildIsCancelled \/ JoinIsCancelled \/ PumpFails
    PROVE  IInv'
<1>. USE PeerLifeAssumption DEF IInv, MainProbed, MainCloses, MainBeginsClose,
        MainJoins, MainFinishes, BuildIsCancelled, JoinIsCancelled, PumpFails, MainAt,
        MainGoes, PumpAt, PumpGoes, Running, rakPeerVars, gilVars, ownerVars,
        bufferVars, packetVars, pingVars
<1>1. TypeOK' BY TypesKept DEF TypeOK, PumpPcs, BuildPcs, DialPcs, UsePcs
<1>2. PlaceInv' BY DEF PlaceInv
<1>3. CallInv' BY DEF CallInv, TypeOK, RakPeerTypeOK
<1>4. HandInv' BY DEF HandInv
<1>5. PacketInv' BY PacketsKept
<1>6. OwnerInv'
  BY DEF OwnerInv, CallsReference, RunningPumpHasAnOwner, TypeOK,
    RakPeerTypeOK, BuildPcs, DialPcs, UsePcs
<1>. QED BY <1>1, <1>2, <1>3, <1>4, <1>5, <1>6

(* Peer.__init__ makes the RakPeer. *)
LEMMA MainConstructsKeepsIInv ==
    ASSUME IInv, MainConstructs
    PROVE  IInv'
<1>. USE PeerLifeAssumption DEF IInv, MainConstructs, Constructs, MainAt, MainGoes,
        Running, rakPeerVars, gilVars, ownerVars, bufferVars, packetVars, pingVars
<1>1. TypeOK' BY DEF TypeOK, RakPeerTypeOK, PumpPcs, BuildPcs, DialPcs, UsePcs
<1>2. PlaceInv' BY DEF PlaceInv
<1>3. CallInv' BY DEF CallInv, TypeOK, RakPeerTypeOK
<1>4. HandInv' BY DEF HandInv
<1>5. PacketInv' BY PacketsKept
<1>6. OwnerInv'
  BY DEF OwnerInv, CallsReference, RunningPumpHasAnOwner, TypeOK,
    RakPeerTypeOK, BuildPcs, DialPcs, UsePcs
<1>. QED BY <1>1, <1>2, <1>3, <1>4, <1>5, <1>6

(* The caller leaves Python for a method. *)
LEMMA MainCallsKeepsIInv ==
    ASSUME IInv, MainStartsUp \/ MainDials \/ MainProbes \/ MainShutsDown
    PROVE  IInv'
<1>. USE PeerLifeAssumption DEF IInv, MainStartsUp, MainDials, MainProbes,
        MainShutsDown, StartupCalls, ConnectCalls, Ping, ShutdownCalls, Releases, Goes,
        MainAt, MainGoes, Running, rakPeerVars, gilVars, ownerVars, bufferVars,
        packetVars, pingVars
<1>1. TypeOK'
  BY DEF TypeOK, RakPeerTypeOK, Places, ReleasedMethods, PumpPcs, BuildPcs, DialPcs,
    UsePcs
<1>2. PlaceInv' BY DEF PlaceInv, TypeOK, RakPeerTypeOK
<1>3. CallInv' BY DEF CallInv, TypeOK, RakPeerTypeOK
<1>4. HandInv' BY DEF HandInv, TypeOK, RakPeerTypeOK
<1>5. PacketInv' BY PacketsKept DEF TypeOK, RakPeerTypeOK
<1>6. OwnerInv'
  BY DEF OwnerInv, CallsReference, RunningPumpHasAnOwner, TypeOK,
    RakPeerTypeOK, BuildPcs, DialPcs, UsePcs
<1>. QED BY <1>1, <1>2, <1>3, <1>4, <1>5, <1>6

(* So does the pump. *)
LEMMA PumpCallsKeepsIInv ==
    ASSUME IInv, PumpChecks \/ PumpShutsDown
    PROVE  IInv'
<1>. USE PeerLifeAssumption DEF IInv, PumpChecks, PumpShutsDown, ReceiveCalls,
        ShutdownCalls, Releases, Goes, PumpAt, PumpGoes, Running, rakPeerVars, gilVars,
        ownerVars, bufferVars, packetVars, pingVars
<1>1. TypeOK'
  BY DEF TypeOK, RakPeerTypeOK, Places, ReleasedMethods, PumpPcs, BuildPcs, DialPcs,
    UsePcs
<1>2. PlaceInv' BY DEF PlaceInv, TypeOK, RakPeerTypeOK
<1>3. CallInv' BY DEF CallInv, TypeOK, RakPeerTypeOK
<1>4. HandInv' BY DEF HandInv, TypeOK, RakPeerTypeOK
<1>5. PacketInv' BY PacketsKept DEF TypeOK, RakPeerTypeOK
<1>6. OwnerInv'
  BY DEF OwnerInv, CallsReference, RunningPumpHasAnOwner, TypeOK,
    RakPeerTypeOK, BuildPcs, DialPcs, UsePcs
<1>. QED BY <1>1, <1>2, <1>3, <1>4, <1>5, <1>6

(* So does a user that sends. *)
LEMMA UserSendsKeepsIInv ==
    ASSUME IInv, NEW u \in Users, NEW lends \in SUBSET Buffers, mainPc \in UsePcs,
           Releases(u, "send", lends), UNCHANGED peerVars
    PROVE  IInv'
<1>. USE PeerLifeAssumption DEF IInv, Releases, Goes, Running, peerVars, rakPeerVars,
        gilVars, ownerVars, bufferVars, packetVars, pingVars
<1>1. TypeOK'
  BY DEF TypeOK, RakPeerTypeOK, Places, ReleasedMethods, PumpPcs, BuildPcs, DialPcs,
    UsePcs
<1>2. PlaceInv' BY DEF PlaceInv, TypeOK, RakPeerTypeOK
<1>3. CallInv' BY DEF CallInv, TypeOK, RakPeerTypeOK
<1>4. HandInv' BY DEF HandInv, TypeOK, RakPeerTypeOK
<1>5. PacketInv' BY PacketsKept DEF TypeOK, RakPeerTypeOK
<1>6. OwnerInv'
  BY DEF OwnerInv, CallsReference, RunningPumpHasAnOwner, TypeOK,
    RakPeerTypeOK, BuildPcs, DialPcs, UsePcs
<1>. QED BY <1>1, <1>2, <1>3, <1>4, <1>5, <1>6

(* The caller lets go of a peer without a pump, or of a closed one. *)
LEMMA MainDropsKeepsIInv ==
    ASSUME IInv, mainPc \in BuildPcs \ {"start"} \/ mainPc = "closed",
           Running(Main), MainDrops, UNCHANGED closed
    PROVE  IInv'
<1>. USE PeerLifeAssumption DEF IInv, MainDrops, Forgets, MainGoes, Running,
        rakPeerVars, gilVars, ownerVars, bufferVars, packetVars, pingVars
<1>1. TypeOK'
  BY DropsProperties DEF TypeOK, RakPeerTypeOK, PumpPcs, BuildPcs, DialPcs, UsePcs
<1>2. PlaceInv' BY DropsProperties DEF PlaceInv
<1>3. CallInv' BY DropsProperties DEF CallInv
<1>4. HandInv' BY DropsProperties DEF HandInv
<1>5. PacketInv' BY DropsProperties
<1>6. OwnerInv'
  BY DropsProperties DEF OwnerInv, CallsReference, RunningPumpHasAnOwner,
    InCall, BuildPcs, DialPcs, UsePcs
<1>. QED BY <1>1, <1>2, <1>3, <1>4, <1>5, <1>6

(* The caller sees what its method returned, and keeps the peer. *)
LEMMA MainReturnsKeepsIInv ==
    ASSUME IInv, MainStarted \/ MainDialled, ~MainDrops
    PROVE  IInv'
<1>. USE PeerLifeAssumption DEF IInv, MainStarted, MainDialled, Forgets, MainAt,
        MainGoes, Running, rakPeerVars, gilVars, ownerVars, bufferVars, packetVars,
        pingVars
<1>1. TypeOK' BY DEF TypeOK, RakPeerTypeOK, PumpPcs, BuildPcs, DialPcs, UsePcs
<1>2. PlaceInv' BY DEF PlaceInv, TypeOK, RakPeerTypeOK
<1>3. CallInv' BY DEF CallInv, TypeOK, RakPeerTypeOK
<1>4. HandInv' BY DEF HandInv, TypeOK, RakPeerTypeOK
<1>5. PacketInv' BY PacketsKept DEF TypeOK, RakPeerTypeOK
<1>6. OwnerInv'
  BY DEF OwnerInv, CallsReference, RunningPumpHasAnOwner, TypeOK,
    RakPeerTypeOK, BuildPcs, DialPcs, UsePcs
<1>. QED BY <1>1, <1>2, <1>3, <1>4, <1>5, <1>6

(* The ping response is set. *)
LEMMA MainConfiguresKeepsIInv ==
    ASSUME IInv, MainConfigures, ~MainDrops
    PROVE  IInv'
<1>. USE PeerLifeAssumption DEF IInv, MainConfigures, SetOfflinePingResponse, MainAt,
        MainGoes, Running, rakPeerVars, gilVars, ownerVars, bufferVars, packetVars,
        pingVars
<1>1. TypeOK' BY DEF TypeOK, RakPeerTypeOK, PumpPcs, BuildPcs, DialPcs, UsePcs
<1>2. PlaceInv' BY DEF PlaceInv, TypeOK, RakPeerTypeOK
<1>3. CallInv' BY DEF CallInv, TypeOK, RakPeerTypeOK
<1>4. HandInv' BY DEF HandInv, TypeOK, RakPeerTypeOK
<1>5. PacketInv' BY PacketsKept DEF TypeOK, RakPeerTypeOK
<1>6. OwnerInv'
  BY DEF OwnerInv, CallsReference, RunningPumpHasAnOwner, TypeOK,
    RakPeerTypeOK, BuildPcs, DialPcs, UsePcs
<1>. QED BY <1>1, <1>2, <1>3, <1>4, <1>5, <1>6

(* The pump starts, and the factory goes on or was cancelled. *)
LEMMA MainStartsPumpKeepsIInv ==
    ASSUME IInv, MainStartsPump, ~MainDrops
    PROVE  IInv'
<1>. USE PeerLifeAssumption DEF IInv, MainStartsPump, PumpBegins, MainAt, Running, rakPeerVars,
        gilVars, ownerVars, bufferVars, packetVars, pingVars
<1>1. TypeOK' BY DEF TypeOK, RakPeerTypeOK, PumpPcs, BuildPcs, DialPcs, UsePcs
<1>2. PlaceInv' BY DEF PlaceInv, TypeOK, RakPeerTypeOK
<1>3. CallInv' BY DEF CallInv, OwnerInv, TypeOK, RakPeerTypeOK, BuildPcs
<1>4. HandInv' BY DEF HandInv, OwnerInv, TypeOK, RakPeerTypeOK, BuildPcs
<1>5. PacketInv' BY PacketsKept DEF TypeOK, RakPeerTypeOK
<1>6. OwnerInv'
  BY DEF OwnerInv, CallsReference, RunningPumpHasAnOwner, TypeOK,
    RakPeerTypeOK, BuildPcs, DialPcs, UsePcs
<1>. QED BY <1>1, <1>2, <1>3, <1>4, <1>5, <1>6

(* The pump has routed what it received. *)
LEMMA PumpRoutesKeepsIInv ==
    ASSUME IInv, PumpRoutes
    PROVE  IInv'
<1>. USE PeerLifeAssumption DEF IInv, PumpRoutes, Forgets, PumpAt, PumpGoes, Running,
        rakPeerVars, gilVars, ownerVars, bufferVars, packetVars, pingVars
<1>1. TypeOK' BY DEF TypeOK, RakPeerTypeOK, PumpPcs, BuildPcs, DialPcs, UsePcs
<1>2. PlaceInv' BY DEF PlaceInv, TypeOK, RakPeerTypeOK
<1>3. CallInv' BY DEF CallInv, TypeOK, RakPeerTypeOK
<1>4. HandInv' BY DEF HandInv, TypeOK, RakPeerTypeOK
<1>5. PacketInv' BY PacketsKept DEF TypeOK, RakPeerTypeOK
<1>6. OwnerInv'
  BY DEF OwnerInv, CallsReference, RunningPumpHasAnOwner, TypeOK,
    RakPeerTypeOK, BuildPcs, DialPcs, UsePcs
<1>. QED BY <1>1, <1>2, <1>3, <1>4, <1>5, <1>6

(* The pump ends and lets go of the RakPeer. *)
LEMMA PumpExitsKeepsIInv ==
    ASSUME IInv, PumpExits
    PROVE  IInv'
<1>. USE PeerLifeAssumption DEF IInv, PumpExits, PumpAt, PumpGoes, Running, rakPeerVars,
        gilVars, ownerVars, bufferVars, packetVars, pingVars
<1>1. TypeOK'
  BY DropsProperties DEF TypeOK, RakPeerTypeOK, PumpPcs, BuildPcs, DialPcs, UsePcs
<1>2. PlaceInv' BY DropsProperties DEF PlaceInv
<1>3. CallInv' BY DropsProperties DEF CallInv
<1>4. HandInv' BY DropsProperties DEF HandInv
<1>5. PacketInv' BY DropsProperties
<1>6. OwnerInv'
  BY DropsProperties DEF OwnerInv, CallsReference, RunningPumpHasAnOwner,
    InCall, BuildPcs, DialPcs, UsePcs
<1>. QED BY <1>1, <1>2, <1>3, <1>4, <1>5, <1>6

(* The GIL is taken. *)
LEMMA ResumeKeepsIInv ==
    ASSUME IInv, NEW t \in Threads, Resume(t),
           UNCHANGED peerVars
    PROVE  IInv'
<1>. USE PeerLifeAssumption DEF IInv, Resume, Resumes, peerVars, rakPeerVars, gilVars,
        ownerVars, bufferVars, packetVars, pingVars
<1>1. TypeOK' BY DEF TypeOK, RakPeerTypeOK, PumpPcs, BuildPcs, DialPcs, UsePcs
<1>2. PlaceInv' BY RakPeerAssumption DEF PlaceInv, TypeOK, RakPeerTypeOK
<1>3. CallInv' BY DEF CallInv, TypeOK, RakPeerTypeOK
<1>4. HandInv' BY DEF HandInv, TypeOK, RakPeerTypeOK
<1>5. PacketInv' BY PacketsKept DEF TypeOK, RakPeerTypeOK
<1>6. OwnerInv'
  BY DEF OwnerInv, CallsReference, RunningPumpHasAnOwner, InCall, TypeOK,
    RakPeerTypeOK, BuildPcs, DialPcs, UsePcs
<1>. QED BY <1>1, <1>2, <1>3, <1>4, <1>5, <1>6

(* The GIL is given up. *)
LEMMA PreemptsKeepsIInv ==
    ASSUME IInv, NEW t \in Threads, Preempts(t),
           UNCHANGED peerVars
    PROVE  IInv'
<1>. USE PeerLifeAssumption DEF IInv, Preempts, Running, peerVars, rakPeerVars, gilVars,
        ownerVars, bufferVars, packetVars, pingVars
<1>1. TypeOK' BY DEF TypeOK, RakPeerTypeOK, PumpPcs, BuildPcs, DialPcs, UsePcs
<1>2. PlaceInv' BY RakPeerAssumption DEF PlaceInv, TypeOK, RakPeerTypeOK
<1>3. CallInv' BY DEF CallInv, TypeOK, RakPeerTypeOK
<1>4. HandInv' BY DEF HandInv, TypeOK, RakPeerTypeOK
<1>5. PacketInv' BY PacketsKept DEF TypeOK, RakPeerTypeOK
<1>6. OwnerInv'
  BY DEF OwnerInv, CallsReference, RunningPumpHasAnOwner, InCall, TypeOK,
    RakPeerTypeOK, BuildPcs, DialPcs, UsePcs
<1>. QED BY <1>1, <1>2, <1>3, <1>4, <1>5, <1>6

(* RakNet does what no packet is part of. *)
LEMMA NativeStepKeepsIInv ==
    ASSUME IInv, NEW t \in Threads, StartupRuns(t) \/ ConnectRuns(t) \/ SendRuns(t),
           UNCHANGED peerVars
    PROVE  IInv'
<1>. USE PeerLifeAssumption DEF IInv, StartupRuns, ConnectRuns, SendRuns, Native,
        NativeEnds, Goes, peerVars, rakPeerVars, gilVars, ownerVars, bufferVars,
        packetVars, pingVars
<1>1. TypeOK'
  BY DEF TypeOK, RakPeerTypeOK, Places, Results, PumpPcs, BuildPcs, DialPcs, UsePcs
<1>2. PlaceInv' BY DEF PlaceInv, TypeOK, RakPeerTypeOK
<1>3. CallInv' BY DEF CallInv, TypeOK, RakPeerTypeOK
<1>4. HandInv' BY DEF HandInv, TypeOK, RakPeerTypeOK
<1>5. PacketInv' BY PacketsKept DEF TypeOK, RakPeerTypeOK
<1>6. OwnerInv'
  BY DEF OwnerInv, CallsReference, RunningPumpHasAnOwner, InCall, TypeOK,
    RakPeerTypeOK, BuildPcs, DialPcs, UsePcs
<1>. QED BY <1>1, <1>2, <1>3, <1>4, <1>5, <1>6

(* RakNet shuts down: the pump has ended, or runs the shutdown itself. *)
LEMMA ShutdownRunsKeepsIInv ==
    ASSUME IInv, NEW t \in Threads, ShutdownRuns(t),
           UNCHANGED peerVars
    PROVE  IInv'
<1>. USE PeerLifeAssumption DEF IInv, ShutdownRuns, Native, NativeEnds, Goes,
        FreePackets, peerVars, rakPeerVars, gilVars, ownerVars, bufferVars, packetVars,
        pingVars
<1>1. TypeOK' BY DEF TypeOK, RakPeerTypeOK, Places, PumpPcs, BuildPcs, DialPcs, UsePcs
<1>2. PlaceInv' BY DEF PlaceInv, TypeOK, RakPeerTypeOK
<1>3. CallInv' BY DEF CallInv, TypeOK, RakPeerTypeOK
<1>4. HandInv' BY DEF HandInv, TypeOK, RakPeerTypeOK
<1>5. PacketInv' BY PacketsFreed DEF CallInv, HandInv, TypeOK, RakPeerTypeOK
<1>6. OwnerInv'
  BY DEF OwnerInv, CallsReference, RunningPumpHasAnOwner, InCall, TypeOK,
    RakPeerTypeOK, BuildPcs, DialPcs, UsePcs
<1>. QED BY <1>1, <1>2, <1>3, <1>4, <1>5, <1>6

(* receive() after Receive. *)
LEMMA HeldStepKeepsIInv ==
    ASSUME IInv, NEW t \in Threads, ReceiveCopies(t) \/ ReceiveRaises(t) \/ ReceiveDeallocates(t),
           UNCHANGED peerVars
    PROVE  IInv'
<1>. USE PeerLifeAssumption DEF IInv, ReceiveCopies, ReceiveRaises, ReceiveDeallocates,
        Goes, peerVars, rakPeerVars, gilVars, ownerVars, bufferVars, packetVars,
        pingVars
<1>1. TypeOK'
  BY DEF HandInv, TypeOK, RakPeerTypeOK, Places, Results, PumpPcs, BuildPcs, DialPcs,
    UsePcs
<1>2. PlaceInv' BY DEF PlaceInv, TypeOK, RakPeerTypeOK
<1>3. CallInv' BY DEF CallInv, TypeOK, RakPeerTypeOK
<1>4. HandInv' BY DEF HandInv, TypeOK, RakPeerTypeOK
<1>5. PacketInv'
  BY DEF PacketInv, EveryPacketGoesBack, ReceiveIsFaithful, HandInv, Range, TypeOK,
    RakPeerTypeOK
<1>6. OwnerInv'
  BY DEF OwnerInv, CallsReference, RunningPumpHasAnOwner, InCall, TypeOK,
    RakPeerTypeOK, BuildPcs, DialPcs, UsePcs
<1>. QED BY <1>1, <1>2, <1>3, <1>4, <1>5, <1>6

(* get_offline_ping_response after its pointer. *)
LEMMA ResponseCopiesKeepsIInv ==
    ASSUME IInv, NEW t \in Threads, ResponseCopies(t),
           UNCHANGED peerVars
    PROVE  IInv'
<1>. USE PeerLifeAssumption DEF IInv, ResponseCopies, Goes, peerVars, rakPeerVars,
        gilVars, ownerVars, bufferVars, packetVars, pingVars
<1>1. TypeOK' BY DEF TypeOK, RakPeerTypeOK, Places, PumpPcs, BuildPcs, DialPcs, UsePcs
<1>2. PlaceInv' BY DEF PlaceInv, TypeOK, RakPeerTypeOK
<1>3. CallInv' BY DEF CallInv, TypeOK, RakPeerTypeOK
<1>4. HandInv' BY DEF HandInv, TypeOK, RakPeerTypeOK
<1>5. PacketInv' BY PacketsKept DEF TypeOK, RakPeerTypeOK
<1>6. OwnerInv'
  BY DEF OwnerInv, CallsReference, RunningPumpHasAnOwner, InCall, TypeOK,
    RakPeerTypeOK, BuildPcs, DialPcs, UsePcs
<1>. QED BY <1>1, <1>2, <1>3, <1>4, <1>5, <1>6

(* Uses of a peer that keep the GIL. *)
LEMMA UsesKeepsIInv ==
    ASSUME IInv, NEW t \in Threads, mainPc \in UsePcs, UNCHANGED peerVars,
           ItemsChange(t) \/ SetOfflinePingResponse(t) \/ GetOfflinePingResponse(t)
    PROVE  IInv'
<1>. USE PeerLifeAssumption DEF IInv, ItemsChange, SetOfflinePingResponse,
        GetOfflinePingResponse, Goes, Running, peerVars, rakPeerVars, gilVars,
        ownerVars, bufferVars, packetVars, pingVars
<1>1. TypeOK' BY DEF TypeOK, RakPeerTypeOK, Places, PumpPcs, BuildPcs, DialPcs, UsePcs
<1>2. PlaceInv' BY DEF PlaceInv, TypeOK, RakPeerTypeOK
<1>3. CallInv' BY DEF CallInv, TypeOK, RakPeerTypeOK
<1>4. HandInv' BY DEF HandInv, TypeOK, RakPeerTypeOK
<1>5. PacketInv' BY PacketsKept DEF TypeOK, RakPeerTypeOK
<1>6. OwnerInv'
  BY DEF OwnerInv, CallsReference, RunningPumpHasAnOwner, InCall, TypeOK,
    RakPeerTypeOK, BuildPcs, DialPcs, UsePcs
<1>. QED BY <1>1, <1>2, <1>3, <1>4, <1>5, <1>6

(* A packet arrives, from the network or from the peer itself. *)
LEMMA PacketArrivesKeepsIInv ==
    ASSUME IInv, NEW c \in Contents, Queues(c), instance = "up", UNCHANGED peerVars,
           UNCHANGED <<gilVars, result, ownerVars, bufferVars, pingVars>>
    PROVE  IInv'
<1>. USE PeerLifeAssumption DEF IInv, peerVars, rakPeerVars, gilVars, ownerVars,
        bufferVars, packetVars, pingVars
<1>1. TypeOK' BY QueuesProperties DEF TypeOK, RakPeerTypeOK
<1>2. PlaceInv' BY DEF PlaceInv
<1>3. CallInv' BY DEF CallInv, TypeOK, RakPeerTypeOK
<1>4. HandInv' BY QueuesProperties DEF HandInv, TypeOK
<1>5. PacketInv' BY QueuesProperties DEF TypeOK
<1>6. OwnerInv'
  BY DEF OwnerInv, CallsReference, RunningPumpHasAnOwner, TypeOK,
    RakPeerTypeOK, BuildPcs, DialPcs, UsePcs
<1>. QED BY <1>1, <1>2, <1>3, <1>4, <1>5, <1>6

(* Receive returns a packet or none. *)
LEMMA ReceiveRunsKeepsIInv ==
    ASSUME IInv, NEW t \in Threads, ReceiveRuns(t),
           UNCHANGED peerVars
    PROVE  IInv'
<1>. USE PeerLifeAssumption DEF IInv, ReceiveRuns, Native, NativeEnds, Goes, peerVars,
        rakPeerVars, gilVars, ownerVars, bufferVars, packetVars, pingVars
<1>1. TypeOK' BY ReceiveRunsProperties DEF TypeOK, RakPeerTypeOK, Places, Results
<1>2. PlaceInv' BY DEF PlaceInv, TypeOK, RakPeerTypeOK
<1>3. CallInv' BY DEF CallInv, TypeOK, RakPeerTypeOK
<1>4. HandInv' BY DEF HandInv, CallInv, TypeOK, RakPeerTypeOK
<1>5. PacketInv' BY ReceiveRunsProperties
<1>6. OwnerInv'
  BY DEF OwnerInv, CallsReference, RunningPumpHasAnOwner, InCall, TypeOK,
    RakPeerTypeOK, BuildPcs, DialPcs, UsePcs
<1>. QED BY <1>1, <1>2, <1>3, <1>4, <1>5, <1>6

(* A method comes back to Python, and may have had the last reference. *)
LEMMA ReturnsKeepsIInv ==
    ASSUME IInv, NEW t \in Threads, Returns(t),
           UNCHANGED peerVars
    PROVE  IInv'
<1>. USE PeerLifeAssumption DEF IInv, Returns, Destroys, Unreferenced, Goes, peerVars,
        rakPeerVars, gilVars, ownerVars, bufferVars, packetVars, pingVars
<1>1. TypeOK'
  BY PacketsFreed DEF TypeOK, RakPeerTypeOK, HandInv, FreePackets, InCall, Places
<1>2. PlaceInv' BY RakPeerAssumption DEF PlaceInv, TypeOK, RakPeerTypeOK
<1>3. CallInv' BY DEF CallInv, TypeOK, RakPeerTypeOK
<1>4. HandInv' BY DEF HandInv, FreePackets, TypeOK, RakPeerTypeOK
<1>5. PacketInv'
  BY PacketsKept, PacketsFreed DEF HandInv, FreePackets, InCall, TypeOK, RakPeerTypeOK
<1>6. OwnerInv'
  BY DEF OwnerInv, CallsReference, RunningPumpHasAnOwner, InCall, TypeOK,
    RakPeerTypeOK, BuildPcs, DialPcs, UsePcs
<1>. QED BY <1>1, <1>2, <1>3, <1>4, <1>5, <1>6

-----------------------------------------------------------------------------
(* The specification *)

LEMMA UserCallsKeepsIInv ==
    ASSUME IInv, NEW u \in Users, UserCalls(u), UNCHANGED peerVars
    PROVE  IInv'
<1>1. u \in Threads /\ mainPc \in UsePcs BY PeerLifeAssumption DEF UserCalls
<1>2. CASE Send(u) \/ AdvertiseSystem(u) \/ SendOutOfBand(u)
  <2>1. PICK b \in Buffers : Releases(u, "send", {b})
    BY <1>2 DEF Send, AdvertiseSystem, SendOutOfBand
  <2>. QED BY <1>1, <2>1, UserSendsKeepsIInv
<1>3. CASE SendList(u)
  <2>1. items \in SUBSET Buffers BY DEF IInv, TypeOK, RakPeerTypeOK
  <2>. QED BY <1>1, <1>3, <2>1, UserSendsKeepsIInv DEF SendList
<1>4. CASE SendTTL(u)
  BY <1>1, <1>4, UserSendsKeepsIInv DEF SendTTL
<1>5. CASE SendLoopback(u)
  <2>1. PICK c \in Contents : Queues(c) BY <1>5 DEF SendLoopback
  <2>. QED BY <1>5, <2>1, PacketArrivesKeepsIInv DEF SendLoopback
<1>6. CASE SetOfflinePingResponse(u) \/ GetOfflinePingResponse(u) \/ ItemsChange(u)
  BY <1>1, <1>6, UsesKeepsIInv
<1>. QED BY <1>2, <1>3, <1>4, <1>5, <1>6 DEF UserCalls

LEMMA MainStepKeepsIInv == ASSUME IInv, MainStep PROVE IInv'
<1>1. CASE MainConstructs BY <1>1, MainConstructsKeepsIInv
<1>2. CASE MainStartsUp \/ MainDials \/ MainProbes \/ MainShutsDown
  BY <1>2, MainCallsKeepsIInv
<1>3. CASE MainProbed \/ MainBeginsClose \/ MainJoins \/ MainFinishes
  BY <1>3, PythonStepKeepsIInv
<1>4. CASE MainStarted \/ MainConfigures \/ MainStartsPump \/ MainLeaves
  <2>1. UNCHANGED closed /\ Running(Main) /\ (mainPc \in BuildPcs \ {"start"} \/ mainPc = "closed")
    BY <1>4 DEF MainStarted, MainConfigures, MainStartsPump, MainLeaves, MainAt, BuildPcs
  <2>2. CASE MainDrops BY <2>1, <2>2, MainDropsKeepsIInv
  <2>3. CASE ~MainDrops
    BY <1>4, <2>3, MainReturnsKeepsIInv, MainConfiguresKeepsIInv, MainStartsPumpKeepsIInv
    DEF MainLeaves
  <2>. QED BY <2>2, <2>3
<1>5. CASE MainDialled
  <2>1. ~MainDrops
    BY <1>5 DEF MainDialled, MainDrops, MainGoes, MainAt
  <2>. QED BY <1>5, <2>1, MainReturnsKeepsIInv
<1>. QED BY <1>1, <1>2, <1>3, <1>4, <1>5 DEF MainStep

LEMMA IInvNext == IInv /\ [Next]_vars => IInv'
<1>. SUFFICES ASSUME IInv, [Next]_vars PROVE IInv' OBVIOUS
<1>1. CASE MainStep BY <1>1, MainStepKeepsIInv
<1>2. CASE MainUses
  <2>1. Main \in Threads /\ mainPc \in UsePcs
    BY <1>2, PeerLifeAssumption DEF MainUses, MainAt, UsePcs
  <2>. QED BY <1>2, <2>1, UsesKeepsIInv DEF MainUses
<1>3. CASE MainCloses \/ BuildIsCancelled \/ JoinIsCancelled
  BY <1>3, PythonStepKeepsIInv
<1>4. CASE PumpStep
  BY <1>4, PumpCallsKeepsIInv, PumpRoutesKeepsIInv, PythonStepKeepsIInv,
      PumpExitsKeepsIInv
  DEF PumpStep
<1>5. CASE \E u \in Users : UserCalls(u) /\ UNCHANGED peerVars
  BY <1>5, UserCallsKeepsIInv
<1>6. ASSUME NEW t \in Threads, UNCHANGED peerVars,
             Resume(t) \/ Preempts(t) \/ Returns(t) \/ NativeStep(t) \/ HeldStep(t)
      PROVE  IInv'
  <2>1. CASE Resume(t) \/ Preempts(t) \/ Returns(t)
    BY <1>6, <2>1, ResumeKeepsIInv, PreemptsKeepsIInv, ReturnsKeepsIInv
  <2>2. CASE NativeStep(t)
    BY <1>6, <2>2, NativeStepKeepsIInv, ShutdownRunsKeepsIInv, ReceiveRunsKeepsIInv DEF
      NativeStep
  <2>3. CASE HeldStep(t)
    BY <1>6, <2>3, HeldStepKeepsIInv, ResponseCopiesKeepsIInv DEF HeldStep
  <2>. QED BY <1>6, <2>1, <2>2, <2>3
<1>7. CASE PacketArrives /\ UNCHANGED peerVars
  BY <1>7, PacketArrivesKeepsIInv DEF PacketArrives
<1>8. CASE UNCHANGED vars
  <2>1. UNCHANGED <<rakPeerVars, peerVars>> BY <1>8 DEF vars
  <2>. QED BY <2>1, StutterKeepsIInv
<1>. QED BY <1>1, <1>2, <1>3, <1>4, <1>5, <1>6, <1>7, <1>8 DEF Next

LEMMA IInvAlways == Spec => []IInv
<1>. QED BY IInvInit, IInvNext, PTL DEF Spec

(* Every variable keeps its type: no method is left with a slot that it    *)
(* does not have, for any threads, buffers and packets.                    *)
THEOREM PeerLifeTypeCorrect == Spec => []TypeOK
<1>1. IInv => TypeOK BY DEF IInv
<1>. QED BY <1>1, IInvAlways, PTL

(* Python frees no buffer that RakNet still reads, whoever changes the     *)
(* list of send_list meanwhile.                                            *)
THEOREM LentBuffersAreAlive == Spec => []BuffersAreAlive
<1>1. IInv => BuffersAreAlive BY DEF IInv, PlaceInv, BuffersAreAlive
<1>. QED BY <1>1, IInvAlways, PTL

(* receive() copies the packet that RakNet handed it, not what became of   *)
(* its memory.                                                             *)
THEOREM ReceivedFaithfully == Spec => []ReceiveIsFaithful
<1>1. IInv => ReceiveIsFaithful BY DEF IInv, PacketInv
<1>. QED BY <1>1, IInvAlways, PTL

(* RakNet's packets are its own, in a receive() or leaked by one that      *)
(* raised, also over shutdowns and the destruction of the RakPeer.         *)
THEOREM PacketsGoBack == Spec => []EveryPacketGoesBack
<1>1. IInv => EveryPacketGoesBack BY DEF IInv, PacketInv
<1>. QED BY <1>1, IInvAlways, PTL

(* The ping response is not replaced while a thread reads it by pointer.   *)
THEOREM ResponseStable == Spec => []ResponseIsStable
<1>1. IInv => ResponseIsStable BY DEF IInv, PlaceInv, ResponseIsStable
<1>. QED BY <1>1, IInvAlways, PTL

(* Each factory closes the peer it made, or hands it over, or was          *)
(* cancelled while a worker thread built it.                               *)
THEOREM PumpHasAnOwner == Spec => []RunningPumpHasAnOwner
<1>1. IInv => RunningPumpHasAnOwner BY DEF IInv, OwnerInv
<1>. QED BY <1>1, IInvAlways, PTL
=============================================================================
