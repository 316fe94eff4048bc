---------------------------- MODULE MailboxData -----------------------------
(***************************************************************************)
(* The data of a _Mailbox and what its critical sections do to it.  The    *)
(* threads that wait on the mailbox are in module Mailbox; module Peer     *)
(* keeps one such value per connection.                                    *)
(***************************************************************************)
EXTENDS Naturals, Sequences, PythonNone

CONSTANT MaxQueue      \* max_queue: a bound, or None for no bound

(* The two kinds of ConnectionClosed a mailbox is closed with. *)
Reasons == {"ConnectionClosedOK", "ConnectionClosedError"}

ASSUME MailboxAssumption ==
    /\ MaxQueue \in Nat \cup {None}
    /\ None \notin Nat \cup Reasons

Mailboxes(Item) == [items : Seq(Item), exc : Reasons \cup {None}]

EmptyMailbox == [items |-> <<>>, exc |-> None]

Full(m) == MaxQueue # None /\ Len(m.items) >= MaxQueue

(* put does not look at _exc: a closed mailbox still takes items. *)
PutItem(m, item) == [m EXCEPT !.items = Append(@, item)]

(* The first reason stays. *)
CloseWith(m, exc) == IF m.exc = None THEN [m EXCEPT !.exc = exc] ELSE m

Ready_ItemsOnly(m) == m.items # <<>>

(* What recv and poll wait for. *)
Ready(m) == m.items # <<>> \/ m.exc # None

TakeItem(m) == [m EXCEPT !.items = Tail(@)]
=============================================================================
