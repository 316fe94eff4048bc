------------------------------- MODULE Router -------------------------------
(***************************************************************************)
(* The demultiplexer between RakNet's packets and the sink callbacks of a  *)
(* Peer.  A packet is represented by the first byte of its data, which is  *)
(* all Router.route looks at; None stands for an empty payload.            *)
(***************************************************************************)
EXTENDS Naturals, PythonNone

Byte == 0 .. 255

(***************************************************************************)
(* The members of DefaultMessageIDTypes the Python code names, or could    *)
(* meet.  The enumeration is dense and starts at 0.                        *)
(***************************************************************************)
ID_REMOTE_SYSTEM_REQUIRES_PUBLIC_KEY == 10
ID_CONNECTION_REQUEST_ACCEPTED       == 16
ID_CONNECTION_ATTEMPT_FAILED         == 17
ID_ALREADY_CONNECTED                 == 18
ID_NEW_INCOMING_CONNECTION           == 19
ID_NO_FREE_INCOMING_CONNECTIONS      == 20
ID_DISCONNECTION_NOTIFICATION        == 21
ID_CONNECTION_LOST                   == 22
ID_CONNECTION_BANNED                 == 23
ID_INVALID_PASSWORD                  == 24
ID_INCOMPATIBLE_PROTOCOL_VERSION     == 25
ID_IP_RECENTLY_CONNECTED             == 26
ID_UNCONNECTED_PONG                  == 28
ID_USER_PACKET_ENUM                  == 134

(* The enumeration: what the _MSG(mid) of a failed connect can produce. *)
DefaultMessageIDTypes == 0 .. ID_USER_PACKET_ENUM

CONNECT_FAILURES ==
    { ID_CONNECTION_ATTEMPT_FAILED, ID_ALREADY_CONNECTED,
      ID_NO_FREE_INCOMING_CONNECTIONS, ID_CONNECTION_BANNED,
      ID_INVALID_PASSWORD, ID_INCOMPATIBLE_PROTOCOL_VERSION,
      ID_IP_RECENTLY_CONNECTED }

Route_NoIncoming(mid) ==
    CASE mid = None                               -> "ignored"
      [] mid \in Byte /\ mid >= ID_USER_PACKET_ENUM -> "message"
      [] mid = ID_CONNECTION_REQUEST_ACCEPTED     -> "connect_succeeded"
      [] mid \in CONNECT_FAILURES                 -> "connect_failed"
      [] mid = ID_DISCONNECTION_NOTIFICATION      -> "disconnected"
      [] mid = ID_CONNECTION_LOST                 -> "disconnected"
      [] mid = ID_UNCONNECTED_PONG                -> "pong"
      [] OTHER                                    -> "ignored"

(***************************************************************************)
(* The sink callback a packet is handed to; "ignored" when route returns   *)
(* without calling one.                                                    *)
(***************************************************************************)
Route(mid) ==
    CASE mid = None                               -> "ignored"
      [] mid \in Byte /\ mid >= ID_USER_PACKET_ENUM -> "message"
      [] mid = ID_NEW_INCOMING_CONNECTION         -> "incoming_connection"
      [] mid = ID_CONNECTION_REQUEST_ACCEPTED     -> "connect_succeeded"
      [] mid \in CONNECT_FAILURES                 -> "connect_failed"
      [] mid = ID_DISCONNECTION_NOTIFICATION      -> "disconnected"
      [] mid = ID_CONNECTION_LOST                 -> "disconnected"
      [] mid = ID_UNCONNECTED_PONG                -> "pong"
      [] OTHER                                    -> "ignored"
=============================================================================
