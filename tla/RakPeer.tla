------------------------------- MODULE RakPeer -------------------------------
(***************************************************************************)
(* The RakPeer class of raknet_python.cpp: a RakNet peer, the methods bound *)
(* to it, and the GIL they give up while RakNet works.                     *)
(*                                                                         *)
(* A method without gil_scoped_release is one step of the thread that      *)
(* holds the GIL, or several where it hands out a pointer first.  A method *)
(* with it is three: it leaves Python, RakNet does its work at any later   *)
(* time, and it comes back once it has the GIL.  RakNet itself is          *)
(* external; of it only what the bindings can get wrong is kept: who owns  *)
(* the memory a pointer leads to, and for how long.                        *)
(***************************************************************************)
EXTENDS Naturals, FiniteSets, Sequences, Functions, PythonNone

CONSTANTS Threads,     \* Python threads
          Buffers,     \* bytes objects that are passed to RakNet
          Slots,       \* RakNet's packet memory, reused as soon as it is free
          Contents     \* what a packet or a ping response may hold

ASSUME RakPeerAssumption == None \notin Threads \cup Slots \cup Contents

VARIABLES gil,         \* the thread that holds the GIL, if one does
          at,          \* how far each thread is with a bound method
          method,      \* the method it is in that gives up the GIL
          result,      \* what the method returned, or the error it raised
          instance,    \* the RakPeerInterface of the RakPeer
          owners,      \* the threads with a reference to the RakPeer
          lent,        \* the buffers each call gave RakNet a pointer to
          held,        \* the buffers the arguments of each call reference
          items,       \* the buffers in a list the threads share
          content,     \* what each slot holds; None while it is free
          arrived,     \* the packets RakNet has for Receive
          hand,        \* the packet each receive() has to give back
          handed,      \* history: what it held when Receive returned it
          copy,        \* the bytes receive() made of it
          leaked,      \* history: packets that were never given back
          response,    \* RakNet's buffer with the offline ping response
          seen         \* history: what it held when its pointer was taken

gilVars    == <<gil, at, method>>
ownerVars  == <<instance, owners>>
bufferVars == <<lent, held, items>>
packetVars == <<content, arrived, hand, handed, copy, leaked>>
pingVars   == <<response, seen>>
rakPeerVars == <<gilVars, result, ownerVars, bufferVars, packetVars, pingVars>>

StartupResult == {"RAKNET_STARTED", "RAKNET_ALREADY_STARTED",
    "INVALID_SOCKET_DESCRIPTORS", "INVALID_MAX_CONNECTIONS",
    "SOCKET_FAMILY_NOT_SUPPORTED", "SOCKET_PORT_ALREADY_IN_USE",
    "SOCKET_FAILED_TO_BIND", "SOCKET_FAILED_TEST_SEND", "PORT_CANNOT_BE_ZERO",
    "FAILED_TO_CREATE_NETWORK_THREAD", "COULD_NOT_GENERATE_GUID",
    "STARTUP_OTHER_FAILURE"}

ConnectionAttemptResult == {"CONNECTION_ATTEMPT_STARTED", "INVALID_PARAMETER",
    "CANNOT_RESOLVE_DOMAIN_NAME", "ALREADY_CONNECTED_TO_ENDPOINT",
    "CONNECTION_ATTEMPT_ALREADY_IN_PROGRESS", "SECURITY_INITIALIZATION_FAILED"}

Results == StartupResult \cup ConnectionAttemptResult
               \cup {"Packet", "nullopt", "MemoryError"}

ReleasedMethods == {"startup", "connect", "shutdown", "receive", "send"}

(* "native": RakNet has yet to do what the method asked.  "returning": it  *)
(* has, and the method waits for the GIL.  "packet", "bytes", "pointer":   *)
(* inside a method that has the GIL and still uses RakNet's memory.        *)
Places == {"python", "native", "returning", "packet", "bytes", "pointer"}

RakPeerTypeOK ==
    /\ gil \in Threads \cup {None}
    /\ at \in [Threads -> Places]
    /\ method \in [Threads -> ReleasedMethods \cup {None}]
    /\ result \in [Threads -> Results \cup {None}]
    /\ instance \in {"none", "down", "up", "destroyed"}
    /\ owners \subseteq Threads
    /\ lent \in [Threads -> SUBSET Buffers]
    /\ held \in [Threads -> SUBSET Buffers]
    /\ items \subseteq Buffers
    /\ content \in [Slots -> Contents \cup {None}]
    /\ arrived \in Seq(Slots)
    /\ hand \in [Threads -> Slots \cup {None}]
    /\ handed \in [Threads -> Contents \cup {None}]
    /\ copy \in [Threads -> Contents \cup {None}]
    /\ leaked \subseteq Slots
    /\ response \in Contents
    /\ seen \in [Threads -> Contents \cup {None}]

RakPeerInit ==
    /\ gil = None
    /\ at = [t \in Threads |-> "python"]
    /\ method = [t \in Threads |-> None]
    /\ result = [t \in Threads |-> None]
    /\ instance = "none"
    /\ owners = {}
    /\ lent = [t \in Threads |-> {}]
    /\ held = [t \in Threads |-> {}]
    /\ items = Buffers
    /\ content = [s \in Slots |-> None]
    /\ arrived = <<>>
    /\ hand = [t \in Threads |-> None]
    /\ handed = [t \in Threads |-> None]
    /\ copy = [t \in Threads |-> None]
    /\ leaked = {}
    /\ response \in Contents
    /\ seen = [t \in Threads |-> None]

-----------------------------------------------------------------------------
(* The GIL *)

(* t executes Python code. *)
Running(t) == gil = t /\ at[t] = "python"

Goes(t, place) == at' = [at EXCEPT ![t] = place]

(* The interpreter takes the GIL from t between two bytecodes. *)
Preempts(t) ==
    /\ Running(t)
    /\ gil' = None
    /\ UNCHANGED <<at, method, result, ownerVars, bufferVars, packetVars, pingVars>>

Resumes(t) ==
    /\ gil = None /\ at[t] = "python"
    /\ gil' = t
    /\ UNCHANGED <<at, method, result, ownerVars, bufferVars, packetVars, pingVars>>

(* t has looked at what its last method returned. *)
Forgets(t) == result' = [result EXCEPT ![t] = None]

(* A method leaves Python: RakNet gets pointers into lends, which the      *)
(* arguments of the call keep alive.                                       *)
Releases(t, m, lends) ==
    /\ Running(t)
    /\ gil' = None
    /\ Goes(t, "native")
    /\ method' = [method EXCEPT ![t] = m]
    /\ lent' = [lent EXCEPT ![t] = lends]
    /\ held' = [held EXCEPT ![t] = lends]
    /\ UNCHANGED <<result, ownerVars, items, packetVars, pingVars>>

(* RakNet has done what method m of t asked it to do. *)
Native(t, m) == at[t] = "native" /\ method[t] = m

NativeEnds(t) ==
    /\ Goes(t, "returning")
    /\ lent' = [lent EXCEPT ![t] = {}]
    /\ UNCHANGED <<gil, method, held, items>>

-----------------------------------------------------------------------------
(* The RakPeer object: its constructor and its destructor *)

InCall(t) == at[t] # "python"

FreePackets ==
    /\ content' = [s \in Slots |-> None]
    /\ arrived' = <<>>
    /\ leaked' = {}
    /\ UNCHANGED <<hand, handed, copy>>

(* DestroyInstance shuts RakNet down first. *)
Destroys ==
    /\ instance' = "destroyed"
    /\ FreePackets

Constructs(t) ==
    /\ Running(t) /\ instance = "none"
    /\ instance' = "down"
    /\ owners' = {t}
    /\ UNCHANGED <<gilVars, result, bufferVars, packetVars, pingVars>>

(* A reference is held by each owner, and by each call for its self. *)
Unreferenced(own, calling) == own = {} /\ calling = {}

Drops(t) ==
    /\ owners' = owners \ {t}
    /\ IF Unreferenced(owners \ {t}, {u \in Threads : InCall(u)})
       THEN Destroys
       ELSE UNCHANGED <<instance, packetVars>>

(* A released method is back in Python; receive() still has a packet, and  *)
(* its thread, the pump, a reference of its own.                           *)
Returns(t) ==
    /\ gil = None /\ at[t] = "returning"
    /\ gil' = t
    /\ Goes(t, IF hand[t] = None THEN "python" ELSE "packet")
    /\ method' = [method EXCEPT ![t] = None]
    /\ held' = [held EXCEPT ![t] = {}]
    /\ IF hand[t] = None /\ Unreferenced(owners, {u \in Threads \ {t} : InCall(u)})
       THEN Destroys
       ELSE UNCHANGED <<instance, packetVars>>
    /\ UNCHANGED <<result, owners, lent, items, pingVars>>
-----------------------------------------------------------------------------
(* Methods that give up the GIL *)

StartupCalls(t) == Releases(t, "startup", {})

StartupRuns(t) ==
    /\ Native(t, "startup")
    /\ NativeEnds(t)
    /\ \E r \in StartupResult :
           /\ (r = "RAKNET_ALREADY_STARTED") = (instance = "up")
           /\ result' = [result EXCEPT ![t] = r]
           /\ instance' = IF r = "RAKNET_STARTED" THEN "up" ELSE instance
    /\ UNCHANGED <<owners, packetVars, pingVars>>

(* The password is a buffer like any other. *)
ConnectCalls(t) == \E b \in Buffers : Releases(t, "connect", {b})

ConnectRuns(t) ==
    /\ Native(t, "connect")
    /\ NativeEnds(t)
    /\ \E r \in ConnectionAttemptResult :
           /\ r = "CONNECTION_ATTEMPT_STARTED" => instance = "up"
           /\ result' = [result EXCEPT ![t] = r]
    /\ UNCHANGED <<ownerVars, packetVars, pingVars>>

ShutdownCalls_KeepsGil(t) ==
    /\ Running(t)
    /\ Goes(t, "native")
    /\ method' = [method EXCEPT ![t] = "shutdown"]
    /\ UNCHANGED <<gil, result, ownerVars, bufferVars, packetVars, pingVars>>

ShutdownCalls(t) == Releases(t, "shutdown", {})

(* RakNet frees the packets it holds and those nobody gave back. *)
ShutdownRuns(t) ==
    /\ Native(t, "shutdown")
    /\ NativeEnds(t)
    /\ instance' = "down"
    /\ FreePackets
    /\ UNCHANGED <<result, owners, pingVars>>

Send(t) == \E b \in Buffers : Releases(t, "send", {b})

SendList_Borrows(t) ==
    /\ Running(t)
    /\ gil' = None
    /\ Goes(t, "native")
    /\ method' = [method EXCEPT ![t] = "send"]
    /\ lent' = [lent EXCEPT ![t] = items]
    /\ UNCHANGED <<result, ownerVars, held, items, packetVars, pingVars>>

(* The vector the list is converted to references each of its items. *)
SendList(t) == Releases(t, "send", items)

AdvertiseSystem(t) == \E b \in Buffers : Releases(t, "send", {b})

SendOutOfBand(t) == \E b \in Buffers : Releases(t, "send", {b})

Ping(t) == Releases(t, "send", {})

SendTTL(t) == Releases(t, "send", {})

(* Whatever RakNet sends, it copies from the buffers it was lent. *)
SendRuns(t) ==
    /\ Native(t, "send")
    /\ NativeEnds(t)
    /\ UNCHANGED <<result, ownerVars, packetVars, pingVars>>

(* Another thread changes the list whose items were sent. *)
ItemsChange(t) ==
    /\ Running(t)
    /\ \E bufs \in SUBSET Buffers : items' = bufs
    /\ UNCHANGED <<gilVars, result, ownerVars, lent, held, packetVars, pingVars>>

-----------------------------------------------------------------------------
(* receive() *)

ReceiveCalls(t) == Releases(t, "receive", {})

ReceiveRuns_NoNullCheck(t) ==
    /\ Native(t, "receive")
    /\ NativeEnds(t)
    /\ IF arrived = <<>>
       THEN hand' = [hand EXCEPT ![t] = "nullptr"] /\ UNCHANGED <<arrived, handed>>
       ELSE /\ hand' = [hand EXCEPT ![t] = Head(arrived)]
            /\ handed' = [handed EXCEPT ![t] = content[Head(arrived)]]
            /\ arrived' = Tail(arrived)
    /\ result' = [result EXCEPT ![t] = "Packet"]
    /\ UNCHANGED <<ownerVars, content, copy, leaked, pingVars>>

ReceiveRuns(t) ==
    /\ Native(t, "receive")
    /\ NativeEnds(t)
    /\ IF arrived = <<>>
       THEN UNCHANGED packetVars
       ELSE /\ hand' = [hand EXCEPT ![t] = Head(arrived)]
            /\ handed' = [handed EXCEPT ![t] = content[Head(arrived)]]
            /\ arrived' = Tail(arrived)
            /\ UNCHANGED <<content, copy, leaked>>
    /\ result' = [result EXCEPT ![t] = IF arrived = <<>> THEN "nullopt" ELSE "Packet"]
    /\ UNCHANGED <<ownerVars, pingVars>>

ReceiveCopies(t) ==
    /\ at[t] = "packet"
    /\ copy' = [copy EXCEPT ![t] = content[hand[t]]]
    /\ Goes(t, "bytes")
    /\ UNCHANGED <<gil, method, result, ownerVars, bufferVars, content, arrived, hand,
                   handed, leaked, pingVars>>

(* No memory for the bytes: the exception leaves the packet with RakNet.   *)
ReceiveRaises(t) ==
    /\ at[t] = "packet"
    /\ Goes(t, "python")
    /\ result' = [result EXCEPT ![t] = "MemoryError"]
    /\ leaked' = leaked \cup {hand[t]}
    /\ hand' = [hand EXCEPT ![t] = None]
    /\ handed' = [handed EXCEPT ![t] = None]
    /\ UNCHANGED <<gil, method, ownerVars, bufferVars, content, arrived, copy, pingVars>>

ReceiveDeallocates_Forgets(t) ==
    /\ at[t] = "bytes"
    /\ Goes(t, "python")
    /\ hand' = [hand EXCEPT ![t] = None]
    /\ handed' = [handed EXCEPT ![t] = None]
    /\ copy' = [copy EXCEPT ![t] = None]
    /\ UNCHANGED <<gil, method, result, ownerVars, bufferVars, content, arrived, leaked, pingVars>>

(* DeallocatePacket; what is returned no longer needs the packet. *)
ReceiveDeallocates(t) ==
    /\ at[t] = "bytes"
    /\ Goes(t, "python")
    /\ content' = [content EXCEPT ![hand[t]] = None]
    /\ hand' = [hand EXCEPT ![t] = None]
    /\ handed' = [handed EXCEPT ![t] = None]
    /\ copy' = [copy EXCEPT ![t] = None]
    /\ UNCHANGED <<gil, method, result, ownerVars, bufferVars, arrived, leaked, pingVars>>

-----------------------------------------------------------------------------
(* Methods that keep the GIL *)

Queues(c) ==
    \E s \in Slots :
        /\ content[s] = None
        /\ content' = [content EXCEPT ![s] = c]
        /\ arrived' = Append(arrived, s)
        /\ UNCHANGED <<hand, handed, copy, leaked>>

SendLoopback(t) ==
    /\ Running(t) /\ instance = "up"
    /\ \E c \in Contents : Queues(c)
    /\ UNCHANGED <<gilVars, result, ownerVars, bufferVars, pingVars>>

SetOfflinePingResponse_Released(t) ==
    /\ at[t] = "python"
    /\ \E c \in Contents : response' = c
    /\ UNCHANGED <<gilVars, result, ownerVars, bufferVars, packetVars, seen>>

SetOfflinePingResponse(t) ==
    /\ Running(t)
    /\ \E c \in Contents : response' = c
    /\ UNCHANGED <<gilVars, result, ownerVars, bufferVars, packetVars, seen>>

(* RakNet gives a pointer to its buffer and a length ... *)
GetOfflinePingResponse(t) ==
    /\ Running(t)
    /\ Goes(t, "pointer")
    /\ seen' = [seen EXCEPT ![t] = response]
    /\ UNCHANGED <<gil, method, result, ownerVars, bufferVars, packetVars, response>>

(* ... which the bytes are then made of. *)
ResponseCopies(t) ==
    /\ at[t] = "pointer"
    /\ Goes(t, "python")
    /\ seen' = [seen EXCEPT ![t] = None]
    /\ UNCHANGED <<gil, method, result, ownerVars, bufferVars, packetVars, response>>

-----------------------------------------------------------------------------
(* RakNet's network thread *)
PacketArrives ==
    /\ instance = "up"
    /\ \E c \in Contents : Queues(c)
    /\ UNCHANGED <<gilVars, result, ownerVars, bufferVars, pingVars>>

(* What RakNet and the bindings do for t once it has called a method. *)
NativeStep(t) ==
    StartupRuns(t) \/ ConnectRuns(t) \/ ShutdownRuns(t) \/ SendRuns(t) \/ ReceiveRuns(t)

HeldStep(t) ==
    ReceiveCopies(t) \/ ReceiveRaises(t) \/ ReceiveDeallocates(t) \/ ResponseCopies(t)
=============================================================================
