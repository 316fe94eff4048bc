---------------------------- MODULE MailboxProofs ----------------------------
(* Theorems about Mailbox, for any number of threads, any bound of the     *)
(* queue and any number of messages.                                       *)
EXTENDS Mailbox, FiniteSetTheorems, FunctionTheorems, SequenceTheorems, TLAPS

-----------------------------------------------------------------------------
(* What the critical sections do to the data. *)

LEMMA EmptyMailboxType == ASSUME NEW Item PROVE EmptyMailbox \in Mailboxes(Item)
BY EmptySeq DEF EmptyMailbox, Mailboxes

LEMMA PutItemProperties ==
    ASSUME NEW Item, NEW m \in Mailboxes(Item), NEW item \in Item
    PROVE  /\ PutItem(m, item) \in Mailboxes(Item)
           /\ PutItem(m, item).exc = m.exc
           /\ Len(PutItem(m, item).items) = Len(m.items) + 1
           /\ \A i \in 1 .. Len(m.items) : PutItem(m, item).items[i] = m.items[i]
           /\ PutItem(m, item).items[Len(m.items) + 1] = item
<1>1. m.items \in Seq(Item) BY DEF Mailboxes
<1>2. PutItem(m, item) = [items |-> Append(m.items, item), exc |-> m.exc]
  BY DEF PutItem, Mailboxes
<1>. QED BY <1>1, <1>2, AppendProperties DEF Mailboxes

LEMMA TakeItemProperties ==
    ASSUME NEW Item, NEW m \in Mailboxes(Item), m.items # <<>>
    PROVE  /\ TakeItem(m) \in Mailboxes(Item)
           /\ TakeItem(m).exc = m.exc
           /\ Head(m.items) = m.items[1]
           /\ 1 \in 1 .. Len(m.items)
           /\ Len(TakeItem(m).items) = Len(m.items) - 1
           /\ \A i \in 1 .. Len(m.items) - 1 : TakeItem(m).items[i] = m.items[i + 1]
<1>1. m.items \in Seq(Item) BY DEF Mailboxes
<1>2. TakeItem(m) = [items |-> Tail(m.items), exc |-> m.exc]
  BY DEF TakeItem, Mailboxes
<1>3. Len(m.items) \in Nat \ {0} BY <1>1, EmptySeq, LenProperties
<1>. QED BY <1>1, <1>2, <1>3, HeadTailProperties DEF Mailboxes

LEMMA CloseWithProperties ==
    ASSUME NEW Item, NEW m \in Mailboxes(Item), NEW exc \in Reasons
    PROVE  /\ CloseWith(m, exc) \in Mailboxes(Item)
           /\ CloseWith(m, exc).items = m.items
           /\ CloseWith(m, exc).exc = IF m.exc = None THEN exc ELSE m.exc
           /\ m.exc # None => CloseWith(m, exc) = m
           /\ CloseWith(m, exc).exc # None
<1>1. None \notin Reasons BY MailboxAssumption
<1>. QED BY <1>1 DEF CloseWith, Mailboxes

(* The queue of sleepers without its i-th. *)
LEMMA RemoveAtProperties ==
    ASSUME NEW S, NEW s \in Seq(S), NEW i \in 1 .. Len(s)
    PROVE  /\ RemoveAt(s, i) \in Seq(S) /\ Len(RemoveAt(s, i)) = Len(s) - 1
           /\ \A j \in 1 .. Len(s) - 1 : RemoveAt(s, i)[j] = s[IF j < i THEN j ELSE j + 1]
           /\ \A e : Contains(s, e) /\ e # s[i] => Contains(RemoveAt(s, i), e)
<1>. DEFINE a == SubSeq(s, 1, i - 1)
            b == SubSeq(s, i + 1, Len(s))
<1>0. Len(s) \in Nat /\ \A j \in 1 .. Len(s) : s[j] \in S
  BY ElementOfSeq, LenProperties
<1>1. /\ a \in Seq(S)
      /\ Len(a) = i - 1
      /\ \A j \in 1 .. i - 1 : a[j] = s[j]
  <2>1. i - 1 \in Int /\ 1 \in Int /\ \A j \in 1 .. i - 1 : s[j] \in S BY <1>0
  <2>2. Len(a) = IF 1 <= i - 1 THEN (i - 1) - 1 + 1 ELSE 0
    BY <2>1, SubSeqProperties
  <2>3. \A j \in 1 .. (i - 1) - 1 + 1 : a[j] = s[1 + j - 1] /\ a \in Seq(S)
    BY <2>1, SubSeqProperties
  <2>4. a \in Seq(S) BY <2>1, SubSeqProperties
  <2>. QED BY <2>2, <2>3, <2>4, <1>0
<1>2. /\ b \in Seq(S)
      /\ Len(b) = Len(s) - i
      /\ \A j \in 1 .. Len(s) - i : b[j] = s[i + j]
  <2>1. i + 1 \in Int /\ Len(s) \in Int /\ \A j \in i + 1 .. Len(s) : s[j] \in S BY <1>0
  <2>2. Len(b) = IF i + 1 <= Len(s) THEN Len(s) - (i + 1) + 1 ELSE 0
    BY <2>1, SubSeqProperties
  <2>3. \A j \in 1 .. Len(s) - (i + 1) + 1 : b[j] = s[(i + 1) + j - 1]
    BY <2>1, SubSeqProperties
  <2>4. b \in Seq(S) BY <2>1, SubSeqProperties
  <2>. QED BY <2>2, <2>3, <2>4, <1>0
<1>. HIDE DEF a, b
<1>3. /\ a \o b \in Seq(S)
      /\ Len(a \o b) = Len(a) + Len(b)
      /\ \A j \in 1 .. Len(a) + Len(b) :
            (a \o b)[j] = IF j <= Len(a) THEN a[j] ELSE b[j - Len(a)]
  BY <1>1, <1>2, ConcatProperties
<1>4. RemoveAt(s, i) = a \o b BY DEF RemoveAt, a, b
<1>5. ASSUME NEW e, Contains(s, e), e # s[i] PROVE Contains(RemoveAt(s, i), e)
  <2>1. PICK j \in 1 .. Len(s) : s[j] = e BY <1>5 DEF Contains
  <2>2. CASE j < i
    <3>1. j \in 1 .. i - 1 /\ j \in 1 .. Len(a) + Len(b) /\ j <= Len(a)
      BY <2>1, <2>2, <1>0, <1>1, <1>2
    <3>2. (a \o b)[j] = e BY <3>1, <2>1, <1>1, <1>3
    <3>. QED BY <3>1, <3>2, <1>3, <1>4 DEF Contains
  <2>3. CASE j > i
    <3>1. /\ j - 1 \in 1 .. Len(a) + Len(b)
          /\ ~(j - 1 <= Len(a))
          /\ (j - 1) - Len(a) = j - i
          /\ j - i \in 1 .. Len(s) - i
          /\ i + (j - i) = j
      BY <2>1, <2>3, <1>0, <1>1, <1>2
    <3>2. b[j - i] = e BY <3>1, <2>1, <1>2
    <3>3. (a \o b)[j - 1] = e BY <3>1, <3>2, <1>3
    <3>. QED BY <3>1, <3>3, <1>3, <1>4 DEF Contains
  <2>. QED BY <2>1, <2>2, <2>3, <1>5, <1>0
<1>6. Len(RemoveAt(s, i)) = Len(s) - 1 BY <1>0, <1>1, <1>2, <1>3, <1>4
<1>7. ASSUME NEW j \in 1 .. Len(s) - 1
      PROVE  RemoveAt(s, i)[j] = s[IF j < i THEN j ELSE j + 1]
  <2>1. j \in 1 .. Len(a) + Len(b) BY <1>0, <1>1, <1>2
  <2>2. CASE j < i
    <3>1. j \in 1 .. i - 1 /\ j <= Len(a) BY <1>1, <2>2
    <3>. QED BY <1>1, <1>3, <1>4, <2>1, <2>2, <3>1
  <2>3. CASE ~(j < i)
    <3>1. /\ ~(j <= Len(a)) /\ j - Len(a) = j - i + 1
          /\ j - i + 1 \in 1 .. Len(s) - i /\ i + (j - i + 1) = j + 1
      BY <1>0, <1>1, <2>3
    <3>. QED BY <1>2, <1>3, <1>4, <2>1, <2>3, <3>1
  <2>. QED BY <2>2, <2>3
<1>. QED BY <1>3, <1>4, <1>5, <1>6, <1>7

-----------------------------------------------------------------------------
(* Types. *)

LEMMA ReasonsExclude == None \notin Reasons /\ Getters \cap Pollers = {} /\ MaxMessages \in Nat
BY MailboxAssumption, MailboxThreads

(* What a get() or a poll() that returns does to what readers see. *)
LEMMA ReturnsType ==
    ASSUME TypeOK, NEW t \in Threads, Returns(t)
    PROVE  /\ box' \in Mailboxes(1 .. MaxMessages)
           /\ taken' \in 0 .. MaxMessages
           /\ told' \subseteq Reasons
           /\ pc' \in [Threads -> Pcs]
<1>1. pc' \in [Threads -> Pcs] BY DEF Returns, TypeOK, Pcs
<1>2. CASE UNCHANGED <<box, taken, told>> BY <1>1, <1>2 DEF TypeOK
<1>3. CASE GetReturns
  <2>1. CASE box.items # <<>> /\ box' = TakeItem(box)
             /\ taken' = Head(box.items) /\ UNCHANGED told
    <3>1. Head(box.items) \in 1 .. MaxMessages
      BY <2>1, HeadTailProperties DEF TypeOK, Mailboxes
    <3>. QED BY <1>1, <2>1, <3>1, TakeItemProperties, ReasonsExclude DEF TypeOK
  <2>2. CASE box.items = <<>> /\ told' = told \cup {box.exc} /\ UNCHANGED <<box, taken>>
    <3>1. box.exc \in Reasons BY <2>2 DEF Returns, Ready, TypeOK, Mailboxes
    <3>. QED BY <1>1, <2>2, <3>1 DEF TypeOK
  <2>. QED BY <1>3, <2>1, <2>2 DEF GetReturns
<1>. QED BY <1>2, <1>3 DEF Returns

LEMMA DequeuesType ==
    ASSUME waiters \in Seq(Threads), NEW t \in Threads, Dequeues(t)
    PROVE  /\ waiters' \in Seq(Threads)
           /\ \A u \in Threads : u # t /\ Contains(waiters, u) => Contains(waiters', u)
<1>1. CASE ~Contains(waiters, t) /\ UNCHANGED waiters BY <1>1
<1>2. ASSUME NEW i \in 1 .. Len(waiters), waiters[i] = t, waiters' = RemoveAt(waiters, i)
      PROVE  /\ waiters' \in Seq(Threads)
             /\ \A u \in Threads : u # t /\ Contains(waiters, u) => Contains(waiters', u)
  BY <1>2, RemoveAtProperties
<1>. QED BY <1>1, <1>2 DEF Dequeues

LEMMA SleepsType ==
    ASSUME TypeOK, NEW t \in Threads, Sleeps(t)
    PROVE  waiters' \in Seq(Threads) /\ pc' \in [Threads -> Pcs] /\ UNCHANGED <<box, taken, told>>
BY AppendProperties DEF TypeOK, Sleeps, Pcs

LEMMA CloseType ==
    ASSUME TypeOK, NEW exc \in Reasons, Close(exc)
    PROVE  /\ box' \in Mailboxes(1 .. MaxMessages)
           /\ waiters' \in Seq(Threads)
           /\ pc' \in [Threads -> Pcs]
           /\ mark' \in 0 .. MaxMessages
           /\ UNCHANGED <<sent, taken, told, polled>>
<1>1. box' \in Mailboxes(1 .. MaxMessages) BY CloseWithProperties DEF TypeOK, Close
<1>2. waiters' \in Seq(Threads) BY EmptySeq DEF Close
<1>3. pc' \in [Threads -> Pcs] BY DEF TypeOK, Close, Wakes, Pcs
<1>. QED BY <1>1, <1>2, <1>3 DEF TypeOK, Close

LEMMA PutType ==
    ASSUME TypeOK, Put
    PROVE  TypeOK'
<1>1. sent + 1 \in 1 .. MaxMessages BY ReasonsExclude DEF TypeOK, Put
<1>2. box' \in Mailboxes(1 .. MaxMessages) BY <1>1, PutItemProperties DEF TypeOK, Put
<1>3. waiters' \in Seq(Threads)
  BY HeadTailProperties DEF TypeOK, Put
<1>4. pc' \in [Threads -> Pcs] BY DEF TypeOK, Put, Wakes, Pcs
<1>. QED BY <1>1, <1>2, <1>3, <1>4 DEF TypeOK, Put

LEMMA TypeInit == Init => TypeOK
<1>. SUFFICES ASSUME Init PROVE TypeOK OBVIOUS
<1>1. box \in Mailboxes(1 .. MaxMessages) BY EmptyMailboxType DEF Init
<1>2. waiters \in Seq(Threads) BY EmptySeq DEF Init
<1>3. {sent, taken, mark} \subseteq 0 .. MaxMessages BY ReasonsExclude DEF Init
<1>4. pc \in [Threads -> Pcs] BY DEF Init, Pcs
<1>5. told \subseteq Reasons /\ refused \in BOOLEAN /\ polled \in BOOLEAN BY DEF Init
<1>. QED BY <1>1, <1>2, <1>3, <1>4, <1>5 DEF TypeOK

LEMMA TypeStep == TypeOK /\ [Next]_vars => TypeOK'
<1>. SUFFICES ASSUME TypeOK, [Next]_vars PROVE TypeOK' OBVIOUS
<1>1. CASE Put BY <1>1, PutType
<1>2. CASE PutRefused BY <1>2 DEF PutRefused, TypeOK
<1>3. CASE Overflow
  BY <1>3, CloseType DEF Overflow, Reasons, TypeOK
<1>4. CASE CloseAtAnyTime
  <2>1. PICK exc \in Reasons : Close(exc) /\ UNCHANGED refused BY <1>4 DEF CloseAtAnyTime
  <2>. QED BY <2>1, CloseType DEF TypeOK
<1>5. ASSUME NEW t \in Threads, Enter(t) PROVE TypeOK'
  BY <1>5, ReturnsType, SleepsType DEF Enter, TypeOK
<1>6. ASSUME NEW t \in Threads, Wake(t) PROVE TypeOK'
  <2>1. polled' \in BOOLEAN BY <1>6 DEF Wake
  <2>. QED BY <1>6, <2>1, ReturnsType, SleepsType DEF Wake, TypeOK
<1>7. ASSUME NEW t \in Threads, Expire(t) PROVE TypeOK'
  BY <1>7 DEF Expire, TypeOK, Pcs
<1>8. ASSUME NEW t \in Threads, TimedOut(t) PROVE TypeOK'
  <2>1. polled' \in BOOLEAN BY <1>8 DEF TimedOut
  <2>2. waiters' \in Seq(Threads) BY <1>8, DequeuesType DEF TimedOut, TypeOK
  <2>3. CASE Returns(t) BY <1>8, <2>1, <2>2, <2>3, ReturnsType DEF TimedOut, TypeOK
  <2>4. CASE pc' = [pc EXCEPT ![t] = "idle"] /\ UNCHANGED <<box, taken, told>>
    BY <1>8, <2>1, <2>2, <2>4 DEF TimedOut, TypeOK, Pcs
  <2>. QED BY <1>8, <2>3, <2>4 DEF TimedOut
<1>9. CASE UNCHANGED vars BY <1>9 DEF vars, TypeOK
<1>. QED BY <1>1, <1>2, <1>3, <1>4, <1>5, <1>6, <1>7, <1>8, <1>9 DEF Next

(* Every variable of the mailbox keeps its type; in particular get() never *)
(* raises the None that _exc holds while the mailbox is open (the assert   *)
(* at _peer.py:71).                                                        *)
THEOREM MailboxTypeCorrect == Spec => []TypeOK
<1>1. Init => TypeOK BY TypeInit
<1>2. TypeOK /\ [Next]_vars => TypeOK' BY TypeStep
<1>. QED BY <1>1, <1>2, PTL DEF Spec

-----------------------------------------------------------------------------
(* Nobody sleeps on a closed mailbox. *)

(* A sleeper is in the queue of the condition, so the close that sets the  *)
(* reason finds it there.                                                  *)
SleepersAreQueued == \A t \in Threads : pc[t] = "waiting" => Contains(waiters, t)

WakeInv == SleepersAreQueued /\ ClosedWakesEveryone

LEMMA CloseWakes ==
    ASSUME TypeOK, SleepersAreQueued, NEW exc \in Reasons, Close(exc)
    PROVE  \A t \in Threads : pc'[t] # "waiting"
<1>. SUFFICES ASSUME NEW t \in Threads PROVE pc'[t] # "waiting" OBVIOUS
<1>1. waiters \in Seq(Threads) BY DEF TypeOK
<1>2. ASSUME pc[t] = "waiting" PROVE t \in Range(waiters)
  <2>1. PICK i \in 1 .. Len(waiters) : waiters[i] = t
    BY <1>2 DEF SleepersAreQueued, Contains
  <2>2. DOMAIN waiters = 1 .. Len(waiters) BY <1>1, LenProperties
  <2>. QED BY <2>1, <2>2 DEF Range
<1>3. pc'[t] = IF t \in Range(waiters) /\ pc[t] = "waiting" THEN "notified" ELSE pc[t]
  BY DEF Close, Wakes
<1>. QED BY <1>2, <1>3

LEMMA PutKeepsSleepersQueued ==
    ASSUME TypeOK, SleepersAreQueued, Put
    PROVE  SleepersAreQueued'
<1>. SUFFICES ASSUME NEW t \in Threads, pc'[t] = "waiting" PROVE Contains(waiters', t)
  BY DEF SleepersAreQueued
<1>1. CASE waiters = <<>> BY <1>1 DEF Put, SleepersAreQueued
<1>2. CASE waiters # <<>>
  <2>1. waiters \in Seq(Threads) BY DEF TypeOK
  <2>2. waiters' = Tail(waiters) /\ Wakes({Head(waiters)}) BY <1>2 DEF Put
  <2>3. pc[t] = "waiting" /\ t # Head(waiters) BY <2>2 DEF Wakes
  <2>4. PICK i \in 1 .. Len(waiters) : waiters[i] = t
    BY <2>3 DEF SleepersAreQueued, Contains
  <2>5. /\ Len(waiters) \in Nat
        /\ Len(waiters') = Len(waiters) - 1
        /\ \A j \in 1 .. Len(waiters) - 1 : waiters'[j] = waiters[j + 1]
    BY <1>2, <2>1, <2>2, HeadTailProperties, LenProperties
  <2>6. Head(waiters) = waiters[1] BY <1>2, <2>1
  <2>7. i # 1 BY <2>3, <2>4, <2>6
  <2>8. i - 1 \in 1 .. Len(waiters') /\ waiters'[i - 1] = t BY <2>4, <2>5, <2>7
  <2>. QED BY <2>8 DEF Contains
<1>. QED BY <1>1, <1>2

LEMMA WakeStep == TypeOK /\ WakeInv /\ [Next]_vars => WakeInv'
<1>. SUFFICES ASSUME TypeOK, SleepersAreQueued, ClosedWakesEveryone, [Next]_vars
              PROVE  SleepersAreQueued' /\ ClosedWakesEveryone'
  BY DEF WakeInv
<1>. USE DEF ClosedWakesEveryone
<1>1. CASE Put
  <2>1. box'.exc = box.exc
    <3>1. sent + 1 \in 1 .. MaxMessages BY <1>1, ReasonsExclude DEF TypeOK, Put
    <3>. QED BY <1>1, <3>1, PutItemProperties DEF Put, TypeOK
  <2>2. \A t \in Threads : pc'[t] = "waiting" => pc[t] = "waiting"
    BY <1>1 DEF Put, Wakes
  <2>. QED BY <1>1, <2>1, <2>2, PutKeepsSleepersQueued
<1>2. CASE PutRefused BY <1>2 DEF PutRefused, SleepersAreQueued
<1>3. CASE Overflow
  <2>1. Close("ConnectionClosedError") BY <1>3 DEF Overflow
  <2>. QED BY <2>1, CloseWakes DEF Reasons, SleepersAreQueued
<1>4. CASE CloseAtAnyTime
  <2>1. PICK exc \in Reasons : Close(exc) BY <1>4 DEF CloseAtAnyTime
  <2>. QED BY <2>1, CloseWakes DEF SleepersAreQueued
<1>5. ASSUME NEW t \in Threads, Returns(t)
      PROVE  /\ \A u \in Threads : pc'[u] = "waiting" => pc[u] = "waiting" /\ u # t
             /\ box'.exc = box.exc
  <2>1. \A u \in Threads : pc'[u] = "waiting" => pc[u] = "waiting" /\ u # t
    BY <1>5 DEF Returns, TypeOK
  <2>2. box'.exc = box.exc
    BY <1>5, TakeItemProperties DEF Returns, GetReturns, TypeOK
  <2>. QED BY <2>1, <2>2
<1>6. ASSUME NEW t \in Threads, Sleeps(t)
      PROVE  SleepersAreQueued' /\ ClosedWakesEveryone'
  <2>1. box'.exc = None BY <1>6 DEF Sleeps, Ready
  <2>2. waiters \in Seq(Threads) /\ waiters' = Append(waiters, t)
    BY <1>6 DEF Sleeps, TypeOK
  <2>3. \A u \in Threads : Contains(waiters, u) \/ u = t => Contains(waiters', u)
    BY <2>2, AppendProperties, LenProperties DEF Contains
  <2>4. \A u \in Threads : pc'[u] = "waiting" => pc[u] = "waiting" \/ u = t
    BY <1>6 DEF Sleeps, TypeOK
  <2>. QED BY <2>1, <2>3, <2>4 DEF SleepersAreQueued
<1>7. ASSUME NEW t \in Threads, Enter(t) \/ Wake(t)
      PROVE  SleepersAreQueued' /\ ClosedWakesEveryone'
  BY <1>5, <1>6, <1>7 DEF Enter, Wake, SleepersAreQueued
<1>8. ASSUME NEW t \in Threads, Expire(t)
      PROVE  SleepersAreQueued' /\ ClosedWakesEveryone'
  BY <1>8 DEF Expire, SleepersAreQueued, TypeOK
<1>9. ASSUME NEW t \in Threads, TimedOut(t)
      PROVE  SleepersAreQueued' /\ ClosedWakesEveryone'
  <2>1. \A u \in Threads : u # t /\ Contains(waiters, u) => Contains(waiters', u)
    BY <1>9, DequeuesType DEF TimedOut, TypeOK
  <2>2. /\ \A u \in Threads : pc'[u] = "waiting" => pc[u] = "waiting" /\ u # t
        /\ box'.exc = box.exc
    <3>1. CASE Returns(t) BY <3>1, <1>5
    <3>2. CASE pc' = [pc EXCEPT ![t] = "idle"] /\ UNCHANGED <<box, taken, told>>
      BY <3>2 DEF TypeOK
    <3>. QED BY <1>9, <3>1, <3>2 DEF TimedOut
  <2>. QED BY <2>1, <2>2 DEF SleepersAreQueued
<1>10. CASE UNCHANGED vars BY <1>10 DEF vars, SleepersAreQueued
<1>. QED BY <1>1, <1>2, <1>3, <1>4, <1>7, <1>8, <1>9, <1>10 DEF Next

(* No thread is asleep on a closed mailbox, whatever the number of threads *)
(* and however their timeouts fall: close() wakes the whole queue, and the *)
(* predicate is tested under the lock before a thread goes to sleep.       *)
THEOREM ClosedMailboxWakes == Spec => []ClosedWakesEveryone
<1>1. Init => TypeOK /\ WakeInv
  BY TypeInit DEF Init, WakeInv, SleepersAreQueued, ClosedWakesEveryone
<1>2. TypeOK /\ WakeInv /\ [Next]_vars => (TypeOK /\ WakeInv)' BY TypeStep, WakeStep
<1>3. WakeInv => ClosedWakesEveryone BY DEF WakeInv
<1>. QED BY <1>1, <1>2, <1>3, PTL DEF Spec

-----------------------------------------------------------------------------
(* No message waits while somebody sleeps for it. *)

(* The queue of the condition: sleepers, some of whose timeouts have run   *)
(* out, each once.                                                         *)
LineInv ==
    /\ \A i \in 1 .. Len(waiters) : pc[waiters[i]] \in {"waiting", "expired"}
    /\ \A i, j \in 1 .. Len(waiters) : waiters[i] = waiters[j] => i = j

(* There may be messages that nobody comes for, but then nobody sleeps:    *)
(* poll() apart, put() has sent somebody for each of the others.           *)
OnePerMessage ==
    /\ IsFiniteSet(OnTheirWay)
    /\ waiters = <<>> \/ polled \/ Len(box.items) <= Cardinality(OnTheirWay)

WakeupInv == TypeOK /\ SleepersAreQueued /\ LineInv /\ OnePerMessage

LEMMA WakeupImplies == WakeupInv => NoLostWakeup
<1>. SUFFICES ASSUME WakeupInv, \E t \in Getters : pc[t] = "waiting", ~polled
              PROVE  Len(box.items) <= Cardinality(OnTheirWay)
  BY DEF NoLostWakeup
<1>1. PICK t \in Threads : Contains(waiters, t)
  BY DEF WakeupInv, SleepersAreQueued, Threads
<1>2. waiters # <<>> BY <1>1, EmptySeq DEF Contains
<1>. QED BY <1>2 DEF WakeupInv, OnePerMessage

(* Who is on his way, one step later. *)
LEMMA OneMoreComes ==
    ASSUME IsFiniteSet(OnTheirWay), NEW t, t \notin OnTheirWay,
           OnTheirWay' = OnTheirWay \cup {t}
    PROVE  IsFiniteSet(OnTheirWay') /\ Cardinality(OnTheirWay') = Cardinality(OnTheirWay) + 1
BY FS_AddElement

LEMMA OneLessComes ==
    ASSUME IsFiniteSet(OnTheirWay), NEW t, t \in OnTheirWay,
           OnTheirWay' = OnTheirWay \ {t}
    PROVE  IsFiniteSet(OnTheirWay') /\ Cardinality(OnTheirWay') = Cardinality(OnTheirWay) - 1
BY FS_RemoveElement

LEMMA PutSendsOne ==
    ASSUME WakeupInv, Put
    PROVE  LineInv' /\ OnePerMessage'
<1>. PICK n \in Nat : n = Len(waiters) BY LenProperties DEF WakeupInv, TypeOK
<1>1. CASE waiters = <<>>
  <2>1. UNCHANGED <<waiters, pc, polled>> BY <1>1 DEF Put
  <2>2. OnTheirWay' = OnTheirWay BY <2>1 DEF OnTheirWay
  <2>. QED BY <1>1, <2>1, <2>2 DEF WakeupInv, LineInv, OnePerMessage
<1>2. CASE waiters # <<>>
  <2>1. waiters \in Seq(Threads) /\ box \in Mailboxes(1 .. MaxMessages) BY DEF WakeupInv, TypeOK
  <2>2. waiters' = Tail(waiters) /\ Wakes({Head(waiters)}) /\ UNCHANGED polled BY <1>2 DEF Put
  <2>3. /\ n # 0 /\ Len(waiters') = n - 1 /\ 1 \in 1 .. n /\ Head(waiters) = waiters[1]
        /\ \A i \in 1 .. n - 1 : waiters'[i] = waiters[i + 1] /\ i + 1 \in 1 .. n /\ i + 1 # 1
    BY <1>2, <2>1, <2>2, EmptySeq, HeadTailProperties
  <2>4. \A t \in Threads : pc'[t] = IF t = waiters[1] /\ pc[t] = "waiting" THEN "notified" ELSE pc[t]
    BY <2>2, <2>3 DEF Wakes
  <2>5. \A i \in 1 .. n : waiters[i] \in Threads BY <2>1, ElementOfSeq
  <2>6. LineInv'
    <3>1. ASSUME NEW i \in 1 .. n - 1 PROVE pc'[waiters'[i]] \in {"waiting", "expired"}
      BY <2>3, <2>4, <2>5 DEF WakeupInv, LineInv
    <3>2. ASSUME NEW i \in 1 .. n - 1, NEW j \in 1 .. n - 1, waiters'[i] = waiters'[j]
          PROVE  i = j
      <4>1. i + 1 = j + 1 BY <2>3, <3>2 DEF WakeupInv, LineInv
      <4>. QED BY <4>1
    <3>. QED BY <2>3, <3>1, <3>2 DEF LineInv
  <2>7. \A t \in Threads : Contains(waiters', t) <=> Contains(waiters, t) /\ t # waiters[1]
    <3>1. ASSUME NEW t \in Threads, Contains(waiters', t)
          PROVE  Contains(waiters, t) /\ t # waiters[1]
      <4>1. PICK i \in 1 .. n - 1 : waiters'[i] = t BY <2>3, <3>1 DEF Contains
      <4>. QED BY <2>3, <4>1 DEF Contains, WakeupInv, LineInv
    <3>2. ASSUME NEW t \in Threads, Contains(waiters, t), t # waiters[1]
          PROVE  Contains(waiters', t)
      <4>1. PICK i \in 1 .. n : waiters[i] = t BY <3>2 DEF Contains
      <4>2. i - 1 \in 1 .. n - 1 /\ (i - 1) + 1 = i BY <3>2, <4>1
      <4>. QED BY <2>3, <4>1, <4>2 DEF Contains
    <3>. QED BY <3>1, <3>2
  <2>8. waiters[1] \in Threads /\ Contains(waiters, waiters[1])
        /\ pc[waiters[1]] \in {"waiting", "expired"}
    BY <2>3, <2>5 DEF Contains, WakeupInv, LineInv
  <2>9. waiters[1] \notin OnTheirWay BY <2>8 DEF OnTheirWay
  <2>10. OnTheirWay' = OnTheirWay \cup {waiters[1]} BY <2>4, <2>7, <2>8 DEF OnTheirWay
  <2>11. IsFiniteSet(OnTheirWay') /\ Cardinality(OnTheirWay') = Cardinality(OnTheirWay) + 1
    BY <2>9, <2>10, OneMoreComes DEF WakeupInv, OnePerMessage
  <2>12. Len(box'.items) = Len(box.items) + 1 /\ Len(box.items) \in Nat
    <3>1. sent + 1 \in 1 .. MaxMessages BY ReasonsExclude DEF WakeupInv, TypeOK, Put
    <3>2. box.items \in Seq(1 .. MaxMessages) BY <2>1 DEF Mailboxes
    <3>3. box' = PutItem(box, sent + 1) BY DEF Put
    <3>4. Len(PutItem(box, sent + 1).items) = Len(box.items) + 1
      BY <2>1, <3>1, PutItemProperties
    <3>5. Len(box.items) \in Nat BY <3>2, LenProperties
    <3>. QED BY <3>3, <3>4, <3>5
  <2>13. Cardinality(OnTheirWay) \in Nat BY FS_CardinalityType DEF WakeupInv, OnePerMessage
  <2>14. OnePerMessage'
    <3>1. polled' \/ Len(box'.items) <= Cardinality(OnTheirWay')
      <4>1. CASE polled BY <2>2, <4>1
      <4>2. CASE Len(box.items) <= Cardinality(OnTheirWay) BY <2>11, <2>12, <2>13, <4>2
      <4>. QED BY <1>2, <4>1, <4>2 DEF WakeupInv, OnePerMessage
    <3>. QED BY <2>11, <3>1 DEF OnePerMessage
  <2>. QED BY <2>6, <2>14
<1>. QED BY <1>1, <1>2

LEMMA CloseSendsAll ==
    ASSUME WakeupInv, NEW exc \in Reasons, Close(exc)
    PROVE  LineInv' /\ OnePerMessage'
<1>. PICK n \in Nat : n = Len(waiters) BY LenProperties DEF WakeupInv, TypeOK
<1>1. waiters' = <<>> /\ Wakes(Range(waiters)) BY DEF Close
<1>2. LineInv' BY <1>1, EmptySeq DEF LineInv
<1>3. IsFiniteSet(OnTheirWay')
  <2>1. waiters \in [1 .. n -> Threads]
    BY LenProperties DEF WakeupInv, TypeOK
  <2>2. IsFiniteSet(Range(waiters))
    <3>1. 1 \in Int /\ n \in Int OBVIOUS
    <3>2. IsFiniteSet(1 .. n) BY <3>1, FS_Interval
    <3>3. waiters \in Surjection(1 .. n, Range(waiters)) BY <2>1, Fun_RangeProperties
    <3>. QED BY <3>2, <3>3, FS_Surjection
  <2>3. OnTheirWay' \subseteq OnTheirWay \cup Range(waiters)
    <3>1. ASSUME NEW t \in OnTheirWay', t \notin Range(waiters) PROVE t \in OnTheirWay
      <4>1. ~Contains(waiters, t) BY <2>1, <3>1 DEF Contains, Range
      <4>2. t \in Threads /\ pc'[t] = pc[t] BY <1>1, <3>1 DEF Wakes, OnTheirWay
      <4>. QED BY <3>1, <4>1, <4>2 DEF OnTheirWay
    <3>. QED BY <3>1
  <2>4. IsFiniteSet(OnTheirWay \cup Range(waiters))
    BY <2>2, FS_Union DEF WakeupInv, OnePerMessage
  <2>. QED BY <2>3, <2>4, FS_Subset
<1>. QED BY <1>1, <1>2, <1>3 DEF OnePerMessage

(* A getter that returns takes a message; one that finds none leaves none. *)
LEMMA GetterTakes ==
    ASSUME TypeOK, GetReturns
    PROVE  /\ Len(box.items) \in Nat /\ Len(box'.items) \in Nat
           /\ Len(box'.items) = IF Len(box.items) = 0 THEN 0 ELSE Len(box.items) - 1
<1>1. box \in Mailboxes(1 .. MaxMessages) /\ box.items \in Seq(1 .. MaxMessages)
  BY DEF TypeOK, Mailboxes
<1>2. Len(box.items) \in Nat BY <1>1, LenProperties
<1>3. CASE box.items = <<>> /\ UNCHANGED box BY <1>2, <1>3, EmptySeq
<1>4. CASE box.items # <<>> /\ box' = TakeItem(box)
  <2>1. Len(box.items) # 0 BY <1>1, <1>4, EmptySeq
  <2>. QED BY <1>1, <1>2, <1>4, <2>1, TakeItemProperties
<1>. QED BY <1>3, <1>4 DEF GetReturns

(* A mailbox that nobody can return from is empty. *)
LEMMA NotReadyEmpty ==
    ASSUME TypeOK, ~Ready(box), box' = box
    PROVE  Len(box'.items) = 0
BY EmptySeq DEF Ready

(* One of those on their way arrives. *)
LEMMA ArriverTakes ==
    ASSUME WakeupInv, NEW t \in OnTheirWay, OnTheirWay' = OnTheirWay \ {t},
           \/ t \in Getters /\ GetReturns /\ UNCHANGED waiters /\ (polled => polled')
           \/ t \in Pollers /\ polled'
           \/ Len(box'.items) = 0
    PROVE  OnePerMessage'
<1>1. IsFiniteSet(OnTheirWay') /\ Cardinality(OnTheirWay') = Cardinality(OnTheirWay) - 1
  BY OneLessComes DEF WakeupInv, OnePerMessage
<1>2. Cardinality(OnTheirWay) \in Nat /\ Cardinality(OnTheirWay') \in Nat
  BY <1>1, FS_CardinalityType DEF WakeupInv, OnePerMessage
<1>3. CASE polled' BY <1>1, <1>3 DEF OnePerMessage
<1>4. CASE Len(box'.items) = 0 BY <1>1, <1>2, <1>4 DEF OnePerMessage
<1>5. CASE GetReturns /\ UNCHANGED waiters /\ ~polled'  /\ ~polled
  <2>1. /\ Len(box.items) \in Nat
        /\ Len(box'.items) = IF Len(box.items) = 0 THEN 0 ELSE Len(box.items) - 1
    BY <1>5, GetterTakes DEF WakeupInv
  <2>2. CASE waiters = <<>> BY <1>1, <1>5, <2>2 DEF OnePerMessage
  <2>3. CASE Len(box.items) <= Cardinality(OnTheirWay)
    <3>1. Len(box'.items) <= Cardinality(OnTheirWay') BY <1>1, <1>2, <2>1, <2>3
    <3>. QED BY <1>1, <3>1 DEF OnePerMessage
  <2>. QED BY <1>5, <2>2, <2>3 DEF WakeupInv, OnePerMessage
<1>. QED BY <1>3, <1>4, <1>5

(* One of the others: nothing to take, or less than before. *)
LEMMA OthersTake ==
    ASSUME WakeupInv, OnTheirWay' = OnTheirWay,
           \/ GetReturns \/ box' = box,
           \/ Len(box'.items) = 0 \/ polled'
           \/ (waiters = <<>> => waiters' = <<>>) /\ (polled => polled')
    PROVE  OnePerMessage'
<1>1. IsFiniteSet(OnTheirWay) /\ Cardinality(OnTheirWay) \in Nat
  BY FS_CardinalityType DEF WakeupInv, OnePerMessage
<1>2. Len(box.items) \in Nat /\ Len(box'.items) \in Nat /\ Len(box'.items) <= Len(box.items)
  <2>1. CASE GetReturns BY <2>1, GetterTakes DEF WakeupInv
  <2>2. CASE box' = box
    <3>1. box.items \in Seq(1 .. MaxMessages) BY DEF WakeupInv, TypeOK, Mailboxes
    <3>. QED BY <2>2, <3>1, LenProperties
  <2>. QED BY <2>1, <2>2
<1>3. CASE polled' BY <1>1, <1>3 DEF OnePerMessage
<1>4. CASE Len(box'.items) = 0 BY <1>1, <1>4 DEF OnePerMessage
<1>5. CASE ~polled /\ (waiters = <<>> => waiters' = <<>>)
  <2>1. CASE waiters = <<>> BY <1>1, <1>5, <2>1 DEF OnePerMessage
  <2>2. CASE Len(box.items) <= Cardinality(OnTheirWay)
    <3>1. Len(box'.items) <= Cardinality(OnTheirWay') BY <1>1, <1>2, <2>2
    <3>. QED BY <1>1, <3>1 DEF OnePerMessage
  <2>. QED BY <1>5, <2>1, <2>2 DEF WakeupInv, OnePerMessage
<1>. QED BY <1>3, <1>4, <1>5

(* The queue with a thread that went to sleep. *)
LEMMA SleepsInLine ==
    ASSUME WakeupInv, NEW t \in Threads, pc[t] \in {"idle", "notified"}, Sleeps(t)
    PROVE  /\ LineInv'
           /\ \A u \in Threads : Contains(waiters', u) <=> Contains(waiters, u) \/ u = t
<1>. PICK n \in Nat : n = Len(waiters) BY LenProperties DEF WakeupInv, TypeOK
<1>1. /\ waiters \in Seq(Threads) /\ waiters' = Append(waiters, t)
      /\ \A u \in Threads : pc'[u] = IF u = t THEN "waiting" ELSE pc[u]
  BY DEF Sleeps, WakeupInv, TypeOK
<1>2. /\ Len(waiters') = n + 1 /\ waiters'[n + 1] = t
      /\ \A i \in 1 .. n : waiters'[i] = waiters[i] /\ waiters[i] \in Threads
      /\ \A i \in 1 .. n + 1 : i \in 1 .. n \/ i = n + 1
      /\ n + 1 \in 1 .. n + 1 /\ \A i \in 1 .. n : i \in 1 .. n + 1
  BY <1>1, AppendProperties, ElementOfSeq
<1>3. \A i \in 1 .. n : waiters[i] # t BY DEF WakeupInv, LineInv
<1>4. ASSUME NEW i \in 1 .. n + 1 PROVE pc'[waiters'[i]] \in {"waiting", "expired"}
  <2>1. CASE i = n + 1 BY <1>1, <1>2, <2>1
  <2>2. CASE i \in 1 .. n BY <1>1, <1>2, <1>3, <2>2 DEF WakeupInv, LineInv
  <2>. QED BY <1>2, <2>1, <2>2
<1>5. ASSUME NEW i \in 1 .. n + 1, NEW j \in 1 .. n + 1, waiters'[i] = waiters'[j] PROVE i = j
  <2>1. CASE i \in 1 .. n /\ j \in 1 .. n BY <1>2, <1>5, <2>1 DEF WakeupInv, LineInv
  <2>2. CASE i = n + 1 \/ j = n + 1 BY <1>2, <1>3, <1>5, <2>2
  <2>. QED BY <1>2, <2>1, <2>2
<1>. QED BY <1>1, <1>2, <1>4, <1>5 DEF LineInv, Contains

(* The queue without a thread whose wait timed out. *)
LEMMA LeavesLine ==
    ASSUME WakeupInv, NEW t \in Threads, pc[t] = "expired", Dequeues(t),
           pc' = [pc EXCEPT ![t] = "idle"]
    PROVE  /\ LineInv' /\ ~Contains(waiters', t)
           /\ \A u \in Threads : u # t => (Contains(waiters', u) <=> Contains(waiters, u))
           /\ ~Contains(waiters, t) => UNCHANGED waiters
<1>. PICK n \in Nat : n = Len(waiters) BY LenProperties DEF WakeupInv, TypeOK
<1>1. /\ waiters \in Seq(Threads) /\ \A i \in 1 .. n : waiters[i] \in Threads
      /\ \A u \in Threads : u # t => pc'[u] = pc[u]
  BY ElementOfSeq DEF WakeupInv, TypeOK
<1>2. CASE ~Contains(waiters, t) /\ UNCHANGED waiters
  <2>1. \A i \in 1 .. n : waiters[i] # t BY <1>2 DEF Contains
  <2>2. \A i \in 1 .. n : pc'[waiters[i]] = pc[waiters[i]] BY <1>1, <2>1
  <2>3. LineInv' BY <1>2, <2>2 DEF WakeupInv, LineInv
  <2>. QED BY <1>2, <2>3
<1>3. ASSUME NEW k \in 1 .. n, waiters[k] = t, waiters' = RemoveAt(waiters, k)
      PROVE  /\ LineInv' /\ ~Contains(waiters', t) /\ Contains(waiters, t)
             /\ \A u \in Threads : u # t => (Contains(waiters', u) <=> Contains(waiters, u))
  <2>. DEFINE at(j) == IF j < k THEN j ELSE j + 1
  <2>1. /\ Len(waiters') = n - 1
        /\ \A j \in 1 .. n - 1 : waiters'[j] = waiters[at(j)]
        /\ \A u : Contains(waiters, u) /\ u # t => Contains(waiters', u)
    BY <1>1, <1>3, RemoveAtProperties
  <2>2. \A j \in 1 .. n - 1 : at(j) \in 1 .. n /\ at(j) # k OBVIOUS
  <2>3. \A i, j \in 1 .. n - 1 : at(i) = at(j) => i = j OBVIOUS
  <2>. HIDE DEF at
  <2>4. \A j \in 1 .. n - 1 : waiters'[j] # t BY <1>3, <2>1, <2>2 DEF WakeupInv, LineInv
  <2>5. ASSUME NEW j \in 1 .. n - 1 PROVE pc'[waiters'[j]] \in {"waiting", "expired"}
    BY <1>1, <2>1, <2>2, <2>4 DEF WakeupInv, LineInv
  <2>6. ASSUME NEW i \in 1 .. n - 1, NEW j \in 1 .. n - 1, waiters'[i] = waiters'[j] PROVE i = j
    BY <2>1, <2>2, <2>3, <2>6 DEF WakeupInv, LineInv
  <2>7. ASSUME NEW u \in Threads, Contains(waiters', u) PROVE Contains(waiters, u)
    <3>1. PICK j \in 1 .. n - 1 : waiters'[j] = u BY <2>1, <2>7 DEF Contains
    <3>. QED BY <2>1, <2>2, <3>1 DEF Contains
  <2>. QED BY <1>3, <2>1, <2>4, <2>5, <2>6, <2>7 DEF LineInv, Contains
<1>. QED BY <1>2, <1>3 DEF Dequeues

(* A thread that stands in line for nothing looks, takes and is gone, or   *)
(* goes to sleep.                                                          *)
LEMMA LooksAgain ==
    ASSUME WakeupInv, NEW t \in Threads, Enter(t) \/ Wake(t)
    PROVE  LineInv' /\ OnePerMessage'
<1>1. pc[t] \in {"idle", "notified"} /\ pc \in [Threads -> Pcs] /\ (polled => polled')
  BY DEF Enter, Wake, WakeupInv, TypeOK
<1>2. ~Contains(waiters, t) BY <1>1 DEF Contains, WakeupInv, LineInv
<1>3. t \in OnTheirWay <=> pc[t] = "notified" BY <1>1, <1>2 DEF OnTheirWay
<1>4. pc[t] = "idle" <=> Enter(t) BY DEF Enter, Wake
<1>5. CASE Returns(t) /\ UNCHANGED waiters
  <2>1. \A u \in Threads : pc'[u] = IF u = t THEN "idle" ELSE pc[u] BY <1>1, <1>5 DEF Returns
  <2>2. LineInv'
    <3>1. \A i \in 1 .. Len(waiters) : waiters[i] # t BY <1>2 DEF Contains
    <3>2. \A i \in 1 .. Len(waiters) : waiters[i] \in Threads
      BY ElementOfSeq DEF WakeupInv, TypeOK
    <3>. QED BY <1>5, <2>1, <3>1, <3>2 DEF WakeupInv, LineInv
  <2>3. OnTheirWay' = OnTheirWay \ {t} BY <1>2, <1>5, <2>1 DEF OnTheirWay
  <2>4. CASE pc[t] = "notified"
    <3>1. Wake(t) BY <1>4, <2>4
    <3>2. t \in Pollers => polled' BY <3>1 DEF Wake
    <3>. QED BY <1>1, <1>3, <1>5, <2>2, <2>3, <2>4, <3>2, ArriverTakes DEF Returns
  <2>5. CASE pc[t] = "idle"
    <3>1. OnTheirWay' = OnTheirWay BY <1>3, <2>3, <2>5
    <3>. QED BY <1>1, <1>5, <2>2, <3>1, OthersTake DEF Returns
  <2>. QED BY <1>1, <2>4, <2>5
<1>6. CASE Sleeps(t)
  <2>1. /\ LineInv'
        /\ \A u \in Threads : Contains(waiters', u) <=> Contains(waiters, u) \/ u = t
    BY <1>1, <1>6, SleepsInLine
  <2>2. \A u \in Threads : pc'[u] = IF u = t THEN "waiting" ELSE pc[u] BY <1>1, <1>6 DEF Sleeps
  <2>3. OnTheirWay' = OnTheirWay \ {t} BY <2>1, <2>2 DEF OnTheirWay
  <2>4. box' = box /\ Len(box'.items) = 0 BY <1>6, NotReadyEmpty DEF Sleeps, WakeupInv
  <2>5. CASE t \in OnTheirWay BY <2>1, <2>3, <2>4, <2>5, ArriverTakes
  <2>6. CASE t \notin OnTheirWay
    <3>1. OnTheirWay' = OnTheirWay BY <2>3, <2>6
    <3>. QED BY <2>1, <2>4, <3>1, OthersTake
  <2>. QED BY <2>5, <2>6
<1>. QED BY <1>5, <1>6 DEF Enter, Wake

LEMMA GivesUp ==
    ASSUME WakeupInv, NEW t \in Threads, TimedOut(t)
    PROVE  LineInv' /\ OnePerMessage'
<1>1. pc[t] = "expired" /\ Dequeues(t) /\ pc' = [pc EXCEPT ![t] = "idle"] /\ (polled => polled')
  BY DEF TimedOut, Returns
<1>2. /\ LineInv' /\ ~Contains(waiters', t)
      /\ \A u \in Threads : u # t => (Contains(waiters', u) <=> Contains(waiters, u))
      /\ ~Contains(waiters, t) => UNCHANGED waiters
  BY <1>1, LeavesLine
<1>3. \A u \in Threads : pc'[u] = IF u = t THEN "idle" ELSE pc[u]
  BY <1>1 DEF WakeupInv, TypeOK
<1>4. OnTheirWay' = OnTheirWay \ {t} BY <1>2, <1>3 DEF OnTheirWay
<1>5. \/ t \in Getters /\ GetReturns
      \/ t \in Pollers /\ box' = box
      \/ box' = box /\ Len(box'.items) = 0
  BY NotReadyEmpty DEF TimedOut, Returns, WakeupInv
<1>6. CASE ~Contains(waiters, t)
  <2>1. t \in OnTheirWay BY <1>1, <1>6 DEF OnTheirWay
  <2>2. t \in Pollers => polled' BY <1>6 DEF TimedOut
  <2>. QED BY <1>1, <1>2, <1>4, <1>5, <1>6, <2>1, <2>2, ArriverTakes
<1>7. CASE Contains(waiters, t)
  <2>1. OnTheirWay' = OnTheirWay BY <1>1, <1>4, <1>7 DEF OnTheirWay
  <2>2. waiters # <<>> BY <1>7, EmptySeq DEF Contains
  <2>. QED BY <1>1, <1>2, <1>5, <2>1, <2>2, OthersTake
<1>. QED BY <1>6, <1>7

LEMMA Expires ==
    ASSUME WakeupInv, NEW t \in Threads, Expire(t)
    PROVE  LineInv' /\ OnePerMessage'
<1>1. /\ pc[t] = "waiting" /\ UNCHANGED <<box, waiters, polled>>
      /\ \A u \in Threads : pc'[u] = IF u = t THEN "expired" ELSE pc[u]
  BY DEF Expire, WakeupInv, TypeOK
<1>2. Contains(waiters, t) BY <1>1 DEF WakeupInv, SleepersAreQueued
<1>3. OnTheirWay' = OnTheirWay BY <1>1, <1>2 DEF OnTheirWay
<1>4. LineInv'
  <2>1. \A i \in 1 .. Len(waiters) : waiters[i] \in Threads BY ElementOfSeq DEF WakeupInv, TypeOK
  <2>. QED BY <1>1, <2>1 DEF WakeupInv, LineInv
<1>. QED BY <1>1, <1>3, <1>4 DEF WakeupInv, OnePerMessage

LEMMA WakeupStep == WakeupInv /\ ClosedWakesEveryone /\ [Next]_vars => (WakeupInv /\ ClosedWakesEveryone)'
<1>. SUFFICES ASSUME WakeupInv, ClosedWakesEveryone, [Next]_vars
              PROVE  (WakeupInv /\ ClosedWakesEveryone)'
  OBVIOUS
<1>1. TypeOK' /\ SleepersAreQueued' /\ ClosedWakesEveryone'
  BY TypeStep, WakeStep DEF WakeupInv, WakeInv
<1>2. LineInv' /\ OnePerMessage'
  <2>1. CASE UNCHANGED <<box, waiters, pc, polled>>
    <3>1. OnTheirWay' = OnTheirWay BY <2>1 DEF OnTheirWay
    <3>. QED BY <2>1, <3>1 DEF WakeupInv, LineInv, OnePerMessage
  <2>2. CASE Put BY <2>2, PutSendsOne
  <2>3. CASE Overflow \/ CloseAtAnyTime
    <3>1. \E exc \in Reasons : Close(exc) BY <2>3 DEF Overflow, CloseAtAnyTime, Reasons
    <3>. QED BY <3>1, CloseSendsAll
  <2>4. ASSUME NEW t \in Threads, Enter(t) \/ Wake(t) \/ Expire(t) \/ TimedOut(t)
        PROVE  LineInv' /\ OnePerMessage'
    BY <2>4, LooksAgain, Expires, GivesUp
  <2>. QED BY <2>1, <2>2, <2>3, <2>4 DEF Next, PutRefused, vars
<1>. QED BY <1>1, <1>2 DEF WakeupInv

(* No thread in get() sleeps on while a message it could have is left      *)
(* behind, for any number of threads in get() and poll() and any timeouts: *)
(* put() notifies one sleeper per message, and only a poll(), which leaves *)
(* what it was woken for, can use a notification up (_Mailbox, _peer.py).  *)
THEOREM NobodyOversleeps == Spec => []NoLostWakeup
<1>1. Init => WakeupInv /\ ClosedWakesEveryone
  <2>. SUFFICES ASSUME Init PROVE WakeupInv /\ ClosedWakesEveryone OBVIOUS
  <2>1. TypeOK BY TypeInit
  <2>2. \A t \in Threads : pc[t] = "idle" BY DEF Init
  <2>3. OnTheirWay = {} BY <2>2 DEF OnTheirWay
  <2>4. OnePerMessage /\ LineInv BY <2>3, FS_EmptySet, EmptySeq DEF Init, OnePerMessage, LineInv
  <2>. QED BY <2>1, <2>2, <2>4 DEF WakeupInv, SleepersAreQueued, ClosedWakesEveryone
<1>. QED BY <1>1, WakeupStep, WakeupImplies, PTL DEF Spec

-----------------------------------------------------------------------------
(* The mailbox is a pipe. *)

(* The queue holds the messages put and not taken, in their order. *)
QueueInv ==
    /\ taken <= sent /\ mark <= sent
    /\ Len(box.items) = sent - taken
    /\ \A i \in 1 .. Len(box.items) : box.items[i] = taken + i

LEMMA QueueInit == Init => QueueInv
<1>. SUFFICES ASSUME Init PROVE QueueInv OBVIOUS
<1>1. box.items = <<>> BY DEF Init, EmptyMailbox
<1>2. Len(box.items) = 0 BY <1>1, EmptySeq
<1>. QED BY <1>2 DEF Init, QueueInv

LEMMA QueuePut ==
    ASSUME TypeOK, QueueInv, Put
    PROVE  QueueInv' /\ ThePipe!Send
<1>1. sent \in Nat /\ taken \in Nat /\ mark \in Nat /\ sent + 1 \in 1 .. MaxMessages
  BY ReasonsExclude DEF TypeOK, Put
<1>2. /\ box'.exc = box.exc
      /\ Len(box'.items) = Len(box.items) + 1
      /\ \A i \in 1 .. Len(box.items) : box'.items[i] = box.items[i]
      /\ box'.items[Len(box.items) + 1] = sent + 1
  <2>1. box \in Mailboxes(1 .. MaxMessages) /\ box' = PutItem(box, sent + 1)
    BY DEF TypeOK, Put
  <2>. DEFINE m == PutItem(box, sent + 1)
  <2>2. /\ m.exc = box.exc
        /\ Len(m.items) = Len(box.items) + 1
        /\ \A i \in 1 .. Len(box.items) : m.items[i] = box.items[i]
        /\ m.items[Len(box.items) + 1] = sent + 1
    <3>. DEFINE Item == 1 .. MaxMessages
                n == sent + 1
    <3>1. box \in Mailboxes(Item) /\ n \in Item BY <1>1, <2>1
    <3>. HIDE DEF Item, n
    <3>2. /\ PutItem(box, n).exc = box.exc
          /\ Len(PutItem(box, n).items) = Len(box.items) + 1
          /\ \A i \in 1 .. Len(box.items) : PutItem(box, n).items[i] = box.items[i]
          /\ PutItem(box, n).items[Len(box.items) + 1] = n
      BY <3>1, PutItemProperties
    <3>. QED BY <3>2 DEF n
  <2>. QED BY <2>1, <2>2
<1>3. sent' = sent + 1 /\ UNCHANGED <<taken, mark, told>> BY DEF Put
<1>4. \A i \in 1 .. Len(box'.items) : box'.items[i] = taken' + i
  <2>. SUFFICES ASSUME NEW i \in 1 .. Len(box'.items) PROVE box'.items[i] = taken' + i
    OBVIOUS
  <2>1. CASE i \in 1 .. Len(box.items) BY <2>1, <1>2, <1>3 DEF QueueInv
  <2>2. CASE i = Len(box.items) + 1 BY <2>2, <1>1, <1>2, <1>3 DEF QueueInv
  <2>. QED BY <2>1, <2>2, <1>1, <1>2 DEF QueueInv
<1>5. MaxQueue = None \/ sent - taken < MaxQueue
  <2>1. MaxQueue = None \/ ~(Len(box.items) >= MaxQueue) BY DEF Put, Full
  <2>. QED BY <2>1, <1>1, MailboxAssumption DEF QueueInv
<1>6. QueueInv' BY <1>1, <1>2, <1>3, <1>4 DEF QueueInv
<1>. QED BY <1>2, <1>3, <1>5, <1>6 DEF ThePipe!Send

LEMMA QueueReturns ==
    ASSUME TypeOK, QueueInv, NEW t \in Threads, Returns(t), UNCHANGED <<sent, mark>>
    PROVE  QueueInv' /\ (ThePipe!Deliver \/ ThePipe!Tell \/ UNCHANGED ThePipe!vars)
<1>1. sent \in Nat /\ taken \in Nat /\ mark \in Nat BY ReasonsExclude DEF TypeOK
<1>2. CASE UNCHANGED <<box, taken, told>> BY <1>2 DEF QueueInv, ThePipe!vars
<1>3. CASE box.items # <<>> /\ box' = TakeItem(box)
           /\ taken' = Head(box.items) /\ UNCHANGED told
  <2>1. /\ box'.exc = box.exc
        /\ Head(box.items) = box.items[1]
        /\ 1 \in 1 .. Len(box.items)
        /\ Len(box'.items) = Len(box.items) - 1
        /\ \A i \in 1 .. Len(box.items) - 1 : box'.items[i] = box.items[i + 1]
    BY <1>3, TakeItemProperties DEF TypeOK
  <2>2. taken' = taken + 1 /\ taken < sent BY <1>1, <1>3, <2>1 DEF QueueInv
  <2>3. \A i \in 1 .. Len(box'.items) : box'.items[i] = taken' + i
    <3>. SUFFICES ASSUME NEW i \in 1 .. Len(box'.items) PROVE box'.items[i] = taken' + i
      OBVIOUS
    <3>1. i + 1 \in 1 .. Len(box.items) /\ box'.items[i] = box.items[i + 1]
      BY <1>1, <2>1 DEF QueueInv
    <3>2. box.items[i + 1] = taken + (i + 1) BY <3>1 DEF QueueInv
    <3>. QED BY <1>1, <2>2, <3>1, <3>2
  <2>4. QueueInv' BY <1>1, <2>1, <2>2, <2>3 DEF QueueInv
  <2>. QED BY <1>3, <2>1, <2>2, <2>4 DEF ThePipe!Deliver
<1>4. CASE box.items = <<>> /\ told' = told \cup {box.exc} /\ UNCHANGED <<box, taken>>
  <2>1. box.exc # None BY <1>4 DEF Returns, Ready
  <2>2. taken >= mark BY <1>1, <1>4, EmptySeq DEF QueueInv
  <2>3. QueueInv' BY <1>4 DEF QueueInv
  <2>. QED BY <1>4, <2>1, <2>2, <2>3 DEF ThePipe!Tell
<1>. QED BY <1>2, <1>3, <1>4 DEF Returns, GetReturns

LEMMA QueueCloses ==
    ASSUME TypeOK, QueueInv, NEW exc \in Reasons, Close(exc)
    PROVE  QueueInv' /\ (ThePipe!End(exc) \/ UNCHANGED ThePipe!vars)
<1>1. sent \in Nat /\ taken \in Nat BY ReasonsExclude DEF TypeOK
<1>2. /\ box'.items = box.items
      /\ box'.exc = IF box.exc = None THEN exc ELSE box.exc
  BY CloseWithProperties DEF Close, TypeOK
<1>3. QueueInv' BY <1>1, <1>2 DEF QueueInv, Close
<1>. QED BY <1>2, <1>3 DEF Close, ThePipe!End, ThePipe!vars

LEMMA QueueStep ==
    ASSUME TypeOK, QueueInv, [Next]_vars
    PROVE  QueueInv' /\ [ThePipe!Next]_(ThePipe!vars)
<1>1. CASE Put BY <1>1, QueuePut DEF ThePipe!Next
<1>2. CASE PutRefused BY <1>2 DEF PutRefused, QueueInv, ThePipe!vars
<1>3. CASE Overflow
  <2>1. "ConnectionClosedError" \in Reasons /\ Close("ConnectionClosedError")
    BY <1>3 DEF Overflow, Reasons
  <2>. QED BY <2>1, QueueCloses DEF ThePipe!Next
<1>4. CASE CloseAtAnyTime
  <2>1. PICK exc \in Reasons : Close(exc) BY <1>4 DEF CloseAtAnyTime
  <2>. QED BY <2>1, QueueCloses DEF ThePipe!Next
<1>5. ASSUME NEW t \in Threads, Sleeps(t), UNCHANGED <<sent, mark>>
      PROVE  QueueInv' /\ UNCHANGED ThePipe!vars
  BY <1>5 DEF Sleeps, QueueInv, ThePipe!vars
<1>6. ASSUME NEW t \in Threads, Enter(t) \/ Wake(t)
      PROVE  QueueInv' /\ [ThePipe!Next]_(ThePipe!vars)
  <2>1. UNCHANGED <<sent, mark>> /\ (Returns(t) \/ Sleeps(t)) BY <1>6 DEF Enter, Wake
  <2>. QED BY <2>1, <1>5, QueueReturns DEF ThePipe!Next
<1>7. ASSUME NEW t \in Threads, Expire(t)
      PROVE  QueueInv' /\ [ThePipe!Next]_(ThePipe!vars)
  BY <1>7 DEF Expire, QueueInv, ThePipe!vars
<1>8. ASSUME NEW t \in Threads, TimedOut(t)
      PROVE  QueueInv' /\ [ThePipe!Next]_(ThePipe!vars)
  <2>1. UNCHANGED <<sent, mark>> BY <1>8 DEF TimedOut
  <2>2. CASE Returns(t) BY <2>1, <2>2, QueueReturns DEF ThePipe!Next
  <2>3. CASE UNCHANGED <<box, taken, told>> BY <2>1, <2>3 DEF QueueInv, ThePipe!vars
  <2>. QED BY <1>8, <2>2, <2>3 DEF TimedOut
<1>9. CASE UNCHANGED vars BY <1>9 DEF vars, QueueInv, ThePipe!vars
<1>. QED BY <1>1, <1>2, <1>3, <1>4, <1>6, <1>7, <1>8, <1>9 DEF Next

(* The mailbox implements the pipe: messages come out once each, in order, *)
(* never more than max_queue are held, and ConnectionClosed is raised with *)
(* the first reason and only after all that arrived before the close, for  *)
(* any number of threads in get() and poll() and any timeouts.             *)
THEOREM MailboxImplementsPipe == Spec => ImplementsPipe
<1>1. Init => TypeOK /\ QueueInv BY TypeInit, QueueInit
<1>2. TypeOK /\ QueueInv /\ [Next]_vars => (TypeOK /\ QueueInv)'
  BY TypeStep, QueueStep
<1>3. Init => ThePipe!Init BY DEF Init, ThePipe!Init, EmptyMailbox
<1>4. TypeOK /\ QueueInv /\ [Next]_vars => [ThePipe!Next]_(ThePipe!vars)
  BY QueueStep
<1>. QED BY <1>1, <1>2, <1>3, <1>4, PTL DEF Spec, ImplementsPipe, ThePipe!Spec
=============================================================================
