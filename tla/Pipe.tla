-------------------------------- MODULE Pipe --------------------------------
(***************************************************************************)
(* What a Connection promises its reader: a message pipe.  Messages come   *)
(* out once each and in the order they went in, at most MaxQueue are held, *)
(* and the reader is told that the connection ended, with the first reason *)
(* it ended for, only after everything that arrived before the end.        *)
(* Messages are numbered in the order they arrive.                         *)
(***************************************************************************)
EXTENDS Naturals

CONSTANTS None, Reasons, MaxQueue

VARIABLES sent,        \* messages taken in
          delivered,   \* messages handed out
          ended,       \* the reason the pipe ended for
          mark,        \* messages that had arrived when it ended
          told         \* the reasons readers were given

vars == <<sent, delivered, ended, mark, told>>

Init ==
    /\ sent = 0 /\ delivered = 0
    /\ ended = None /\ mark = 0 /\ told = {}

Send ==
    /\ MaxQueue = None \/ sent - delivered < MaxQueue
    /\ sent' = sent + 1
    /\ UNCHANGED <<delivered, ended, mark, told>>

Deliver ==
    /\ delivered < sent
    /\ delivered' = delivered + 1
    /\ UNCHANGED <<sent, ended, mark, told>>

End(reason) ==
    /\ ended = None
    /\ ended' = reason
    /\ mark' = sent
    /\ UNCHANGED <<sent, delivered, told>>

Tell ==
    /\ ended # None
    /\ delivered >= mark
    /\ told' = told \cup {ended}
    /\ UNCHANGED <<sent, delivered, ended, mark>>

Next == Send \/ Deliver \/ (\E reason \in Reasons : End(reason)) \/ Tell

Spec == Init /\ [][Next]_vars
=============================================================================
