-------------------------- MODULE AsyncMailboxProofs --------------------------
(* Theorems about AsyncMailbox, for any number of tasks, any bound of the  *)
(* queue and any number of messages and closes.                            *)
EXTENDS AsyncMailbox, FiniteSetTheorems, FunctionTheorems, SequenceTheorems, TLAPS

-----------------------------------------------------------------------------
(* The stream of messages: taken, in the queue, scheduled.  Once the queue *)
(* has the end, it has it once, wherever the getters have put it back.     *)

(* The last message the loop has moved into the queue. *)
Through == taken + Len(queue) - (IF exc = None THEN 0 ELSE 1)

(* CLOSED is at k, and the messages follow the last one taken. *)
EndIsAt(k) ==
    \A i \in 1 .. Len(queue) :
        queue[i] = IF i < k THEN taken + i ELSE IF i = k THEN CLOSED ELSE taken + i - 1

QueueInv ==
    \E k \in 1 .. Len(queue) + 1 :
        /\ EndIsAt(k)
        /\ k = Len(queue) + 1 <=> exc = None
        /\ exc # None /\ ~drained => taken + k - 1 >= mark

IsPut(i) == scheduled[i].item # CLOSED

(* What is scheduled are the messages after those, in their order. *)
ScheduleInv ==
    /\ Through <= sent
    /\ \A i \in 1 .. Len(scheduled) : IsPut(i) => scheduled[i].item \in Through + 1 .. sent
    /\ \A i, j \in 1 .. Len(scheduled) :
           i < j /\ IsPut(i) /\ IsPut(j) => scheduled[i].item < scheduled[j].item
    /\ \A m \in Through + 1 .. sent : \E i \in 1 .. Len(scheduled) : scheduled[i].item = m

(* Until the loop runs the first close, nothing put before it is behind.   *)
FirstClose(i) ==
    /\ scheduled[i].exc = ended
    /\ \A j \in i + 1 .. Len(scheduled) : IsPut(j) => scheduled[j].item > mark

EndInv ==
    /\ mark <= sent
    /\ exc # None => exc = ended
    /\ drained => exc # None /\ taken >= mark
    /\ exc = None /\ ended # None => \E i \in 1 .. Len(scheduled) : ~IsPut(i)
    /\ \A i \in 1 .. Len(scheduled) : ~IsPut(i) =>
           /\ ended # None /\ scheduled[i].exc # None
           /\ exc = None /\ (\A j \in 1 .. i - 1 : IsPut(j)) => FirstClose(i)

SizeInv ==
    /\ size = sent - taken + (IF pump = "counted" THEN 1 ELSE 0)
    /\ pump = "counted" => sent < MaxMessages

StreamInv == QueueInv /\ ScheduleInv /\ EndInv /\ SizeInv

-----------------------------------------------------------------------------
(* What the steps are made of. *)

LEMMA ConstantsAre ==
    /\ None \notin Reasons /\ None \notin Tasks /\ MaxMessages \in Nat
    /\ MaxQueue # None => MaxQueue \in Nat
BY MailboxAssumption, AsyncMailboxAssumption

LEMMA RestProperties ==
    ASSUME NEW S, NEW s \in Seq(S)
    PROVE  /\ Rest(s) \in Seq(S)
           /\ s # <<>> => /\ Head(s) \in S /\ Head(s) = s[1]
                          /\ Len(s) \in Nat \ {0} /\ Len(Rest(s)) = Len(s) - 1
                          /\ \A i \in 1 .. Len(s) - 1 : Rest(s)[i] = s[i + 1]
<1>1. Len(s) \in Nat /\ \A i \in 1 .. Len(s) : s[i] \in S BY ElementOfSeq, LenProperties
<1>2. /\ Rest(s) \in Seq(S)
      /\ Len(Rest(s)) = IF 2 <= Len(s) THEN Len(s) - 2 + 1 ELSE 0
      /\ \A i \in 1 .. Len(s) - 2 + 1 : Rest(s)[i] = s[2 + i - 1]
  <2>1. 2 \in Int /\ Len(s) \in Int /\ \A i \in 2 .. Len(s) : s[i] \in S BY <1>1
  <2>. QED BY <2>1, SubSeqProperties DEF Rest
<1>3. ASSUME s # <<>> PROVE Len(s) # 0 /\ Head(s) = s[1] /\ Head(s) \in S
  BY <1>3, EmptySeq, HeadTailProperties
<1>4. ASSUME s # <<>> PROVE Len(Rest(s)) = Len(s) - 1
  <2>1. PICK n \in Nat : n = Len(s) BY <1>1
  <2>2. n # 0 BY <1>3, <1>4, <2>1
  <2>3. n = 1 \/ 2 <= n BY <2>2
  <2>. QED BY <1>2, <2>1, <2>3
<1>5. ASSUME s # <<>>, NEW i \in 1 .. Len(s) - 1 PROVE Rest(s)[i] = s[i + 1]
  <2>1. i \in 1 .. Len(s) - 2 + 1 /\ 2 + i - 1 = i + 1 BY <1>1, <1>5
  <2>. QED BY <1>2, <2>1
<1>. QED BY <1>1, <1>2, <1>3, <1>4, <1>5

LEMMA AppendedProperties ==
    ASSUME NEW S, NEW s \in Seq(S), NEW e \in S
    PROVE  /\ Append(s, e) \in Seq(S) /\ Len(s) \in Nat /\ Len(Append(s, e)) = Len(s) + 1
           /\ \A i \in 1 .. Len(s) : Append(s, e)[i] = s[i]
           /\ Append(s, e)[Len(s) + 1] = e
BY AppendProperties, LenProperties

(* A getter that gives up leaves the others in line. *)
LEMMA RemovedType ==
    ASSUME NEW S, NEW s \in Seq(S), NEW i \in 1 .. Len(s)
    PROVE  RemoveAt(s, i) \in Seq(S)
<1>1. Len(s) \in Nat /\ \A j \in 1 .. Len(s) : s[j] \in S BY ElementOfSeq, LenProperties
<1>2. SubSeq(s, 1, i - 1) \in Seq(S)
  <2>1. 1 \in Int /\ i - 1 \in Int /\ \A j \in 1 .. i - 1 : s[j] \in S BY <1>1
  <2>. QED BY <2>1, SubSeqProperties
<1>3. SubSeq(s, i + 1, Len(s)) \in Seq(S)
  <2>1. i + 1 \in Int /\ Len(s) \in Int /\ \A j \in i + 1 .. Len(s) : s[j] \in S BY <1>1
  <2>. QED BY <2>1, SubSeqProperties
<1>. QED BY <1>2, <1>3, ConcatProperties DEF RemoveAt

TaskPcs == {"idle", "waiting", "woken"}

(* What the tasks are and where they stand in line. *)
LineOK == getters \in Seq(Tasks) /\ pc \in [Tasks -> TaskPcs]

LEMMA WakesType ==
    ASSUME LineOK, NEW threads \in [Tasks -> TaskPcs], WakesNext(threads)
    PROVE  LineOK'
<1>1. getters' \in Seq(Tasks) BY RestProperties DEF LineOK, WakesNext
<1>2. pc' \in [Tasks -> TaskPcs] BY DEF WakesNext, TaskPcs
<1>. QED BY <1>1, <1>2 DEF LineOK

LEMMA IdleType == ASSUME LineOK, NEW t \in Tasks PROVE Idle(t) \in [Tasks -> TaskPcs]
BY DEF LineOK, Idle, TaskPcs

LEMMA LineStep ==
    ASSUME LineOK, [Next]_vars
    PROVE  LineOK'
<1>1. CASE UNCHANGED <<getters, pc>> BY <1>1 DEF LineOK
<1>2. CASE LoopRuns
  <2>1. pc \in [Tasks -> TaskPcs] BY DEF LineOK
  <2>. QED BY <1>1, <1>2, <2>1, WakesType DEF LoopRuns, RunsPut, RunsClose
<1>3. ASSUME NEW t \in Tasks, Gets(t) \/ Raises(t) PROVE LineOK'
  <2>1. CASE Raises(t) \/ TakesItem(t)
    BY <2>1, IdleType DEF Raises, TakesItem, LineOK
  <2>2. CASE TakesClosed(t) BY <2>2, IdleType, WakesType DEF TakesClosed
  <2>3. CASE Waits(t)
    <3>1. getters' \in Seq(Tasks) BY <2>3, AppendedProperties DEF Waits, LineOK
    <3>2. pc' \in [Tasks -> TaskPcs] BY <2>3 DEF Waits, LineOK, TaskPcs
    <3>. QED BY <3>1, <3>2 DEF LineOK
  <2>. QED BY <1>3, <2>1, <2>2, <2>3 DEF Gets
<1>4. ASSUME NEW t \in Tasks, Cancel(t) PROVE LineOK'
  <2>1. CASE pc' = Idle(t) /\ UNCHANGED getters BY <2>1, IdleType DEF LineOK
  <2>2. CASE WakesNext(Idle(t)) BY <2>2, IdleType, WakesType
  <2>3. CASE pc' = Idle(t) /\ \E i \in 1 .. Len(getters) : getters' = RemoveAt(getters, i)
    BY <2>3, IdleType, RemovedType DEF LineOK
  <2>. QED BY <1>4, <2>1, <2>2, <2>3 DEF Cancel
<1>. QED BY <1>1, <1>2, <1>3, <1>4
     DEF Next, vars, loopSide, PutCounts, PutRefused, PutSchedules, Overflow, CloseAtAnyTime, Close,
         Enter, Resume

-----------------------------------------------------------------------------
(* The invariant without the line of getters. *)

DataTypeOK ==
    /\ size \in Int
    /\ pump \in {"idle", "counted", "refused"}
    /\ scheduled \in Seq(Callbacks)
    /\ queue \in Seq(0 .. MaxMessages)
    /\ exc \in Reasons \cup {None}
    /\ drained \in BOOLEAN
    /\ sent \in 0 .. MaxMessages
    /\ taken \in 0 .. MaxMessages
    /\ ended \in Reasons \cup {None}
    /\ mark \in 0 .. MaxMessages
    /\ told \subseteq Reasons

(* The bound, counted on the pump's side. *)
BoundInv == MaxQueue # None => size <= MaxQueue

DataInv == DataTypeOK /\ StreamInv /\ BoundInv

LEMMA Numbers ==
    ASSUME DataTypeOK
    PROVE  /\ MaxMessages \in Nat /\ sent \in Nat /\ taken \in Nat /\ mark \in Nat
           /\ Len(queue) \in Nat /\ Len(scheduled) \in Nat /\ Through \in Int
           /\ \A i \in 1 .. Len(queue) : queue[i] \in 0 .. MaxMessages
           /\ \A i \in 1 .. Len(scheduled) : scheduled[i].item \in 0 .. MaxMessages
<1>1. /\ MaxMessages \in Nat /\ Len(queue) \in Nat /\ Len(scheduled) \in Nat
      /\ \A i \in 1 .. Len(queue) : queue[i] \in 0 .. MaxMessages
      /\ \A i \in 1 .. Len(scheduled) : scheduled[i] \in Callbacks
  BY ConstantsAre, ElementOfSeq, LenProperties DEF DataTypeOK
<1>. QED BY <1>1 DEF DataTypeOK, Through, Callbacks

(* The readers never get ahead of the loop, nor the loop of the pump. *)
LEMMA StreamBounds ==
    ASSUME DataTypeOK, QueueInv, ScheduleInv
    PROVE  taken <= Through /\ Through <= sent
<1>1. Len(queue) + 1 \in Nat /\ Len(queue) \in Nat /\ taken \in Nat BY Numbers
<1>2. exc # None => Len(queue) >= 1 BY <1>1 DEF QueueInv
<1>. QED BY <1>1, <1>2 DEF Through, ScheduleInv

(* Steps of the pump's side *)

LEMMA ScheduledPut ==
    ASSUME DataInv, PutSchedules
    PROVE  DataInv'
<1>. DEFINE p == [item |-> sent + 1, exc |-> None]
<1>. PICK n : n = Len(scheduled) OBVIOUS
<1>1. /\ pump = "counted" /\ pump' = "idle" /\ sent' = sent + 1
      /\ scheduled' = Append(scheduled, p)
      /\ UNCHANGED <<size, ended, mark, queue, exc, drained, taken, told>>
  BY DEF PutSchedules, loopSide
<1>2. sent + 1 \in 0 .. MaxMessages /\ sent \in Nat /\ Through \in Int
  BY <1>1, Numbers DEF DataInv, StreamInv, SizeInv
<1>3. p \in Callbacks BY <1>2 DEF Callbacks
<1>4. /\ scheduled' \in Seq(Callbacks) /\ n \in Nat /\ Len(scheduled') = n + 1
      /\ \A i \in 1 .. n : scheduled'[i] = scheduled[i]
      /\ scheduled'[n + 1] = p
  BY <1>1, <1>3, AppendedProperties DEF DataInv, DataTypeOK
<1>5. DataTypeOK' BY <1>1, <1>2, <1>4 DEF DataInv, DataTypeOK
<1>6. QueueInv' /\ Through' = Through BY <1>1 DEF DataInv, StreamInv, QueueInv, EndIsAt, Through
<1>7. \A i \in 1 .. n : IsPut(i)' <=> IsPut(i) BY <1>4 DEF IsPut
<1>8. IsPut(n + 1)' /\ scheduled'[n + 1].item = sent + 1
  <2>1. p.item = sent + 1 /\ sent + 1 # 0 BY <1>2
  <2>. QED BY <1>4, <2>1 DEF IsPut, CLOSED
<1>9. ScheduleInv'
  <2>. USE DEF DataInv, StreamInv, ScheduleInv
  <2>1. Through' <= sent' BY <1>1, <1>2, <1>6
  <2>2. ASSUME NEW i \in 1 .. n + 1, IsPut(i)'
        PROVE  scheduled'[i].item \in Through' + 1 .. sent'
    <3>1. CASE i \in 1 .. n
      <4>1. scheduled[i].item \in Through + 1 .. sent BY <1>7, <2>2, <3>1
      <4>. QED BY <1>1, <1>2, <1>4, <1>6, <3>1, <4>1
    <3>2. CASE i = n + 1 BY <1>1, <1>2, <1>6, <1>8, <3>2
    <3>. QED BY <1>4, <3>1, <3>2
  <2>3. ASSUME NEW i \in 1 .. n + 1, NEW j \in 1 .. n + 1, i < j, IsPut(i)', IsPut(j)'
        PROVE  scheduled'[i].item < scheduled'[j].item
    <3>1. i \in 1 .. n BY <1>4, <2>3
    <3>2. CASE j \in 1 .. n BY <1>4, <1>7, <2>3, <3>1, <3>2
    <3>3. CASE j = n + 1
      <4>1. scheduled[i].item \in Through + 1 .. sent BY <1>7, <2>3, <3>1
      <4>. QED BY <1>2, <1>4, <1>8, <3>1, <3>3, <4>1
    <3>. QED BY <1>4, <3>2, <3>3
  <2>4. ASSUME NEW m \in Through' + 1 .. sent'
        PROVE  \E i \in 1 .. n + 1 : scheduled'[i].item = m
    <3>1. CASE m = sent + 1 BY <1>4, <1>8, <3>1
    <3>2. CASE m \in Through + 1 .. sent
      <4>1. PICK i \in 1 .. n : scheduled[i].item = m BY <3>2
      <4>. QED BY <1>4, <4>1
    <3>. QED BY <1>1, <1>2, <1>6, <3>1, <3>2
  <2>. QED BY <1>4, <2>1, <2>2, <2>3, <2>4
<1>10. EndInv'
  <2>. USE DEF DataInv, StreamInv, EndInv
  <2>1. mark' <= sent' BY <1>1, <1>2, Numbers
  <2>2. exc' = None /\ ended' # None => \E i \in 1 .. Len(scheduled') : ~IsPut(i)'
    BY <1>1, <1>4, <1>7
  <2>3. ASSUME NEW i \in 1 .. n + 1, ~IsPut(i)'
        PROVE  /\ ended' # None /\ scheduled'[i].exc # None
               /\ exc' = None /\ (\A j \in 1 .. i - 1 : IsPut(j)') => FirstClose(i)'
    <3>0. i # n + 1 BY <1>8, <2>3
    <3>1. i \in 1 .. n /\ ~IsPut(i) /\ scheduled'[i] = scheduled[i]
      BY <1>4, <1>7, <2>3, <3>0
    <3>2. \A j \in 1 .. i - 1 : j \in 1 .. n /\ (IsPut(j)' => IsPut(j)) BY <1>4, <1>7, <3>1
    <3>3. ASSUME FirstClose(i) PROVE FirstClose(i)'
      <4>1. ASSUME NEW j \in i + 1 .. n + 1, IsPut(j)' PROVE scheduled'[j].item > mark
        <5>1. CASE j = n + 1 BY <1>2, <1>8, <5>1, Numbers
        <5>2. CASE j # n + 1
          <6>1. j \in i + 1 .. n /\ j \in 1 .. n BY <1>4, <3>1, <4>1, <5>2
          <6>. QED BY <1>4, <1>7, <3>3, <4>1, <6>1 DEF FirstClose
        <5>. QED BY <5>1, <5>2
      <4>. QED BY <1>1, <1>4, <3>1, <3>3, <4>1 DEF FirstClose
    <3>. QED BY <1>1, <3>1, <3>2, <3>3
  <2>. QED BY <1>1, <1>4, <2>1, <2>2, <2>3
<1>11. SizeInv' BY <1>1, <1>2, Numbers DEF DataInv, DataTypeOK, StreamInv, SizeInv
<1>12. BoundInv' BY <1>1 DEF DataInv, BoundInv
<1>. QED BY <1>5, <1>6, <1>9, <1>10, <1>11, <1>12 DEF DataInv, StreamInv

LEMMA ScheduledClose ==
    ASSUME DataInv, NEW reason \in Reasons, Close(reason),
           pump' = pump \/ (pump = "refused" /\ pump' = "idle")
    PROVE  DataInv'
<1>. DEFINE p == [item |-> CLOSED, exc |-> reason]
<1>. PICK n : n = Len(scheduled) OBVIOUS
<1>1. /\ scheduled' = Append(scheduled, p)
      /\ ended' = IF ended = None THEN reason ELSE ended
      /\ mark' = IF ended = None THEN sent ELSE mark
      /\ UNCHANGED <<size, sent, queue, exc, drained, taken, told>>
  BY DEF Close, loopSide
<1>2. p \in Callbacks /\ p.item = CLOSED /\ p.exc = reason /\ reason # None
  BY ConstantsAre DEF Callbacks, CLOSED
<1>3. /\ scheduled' \in Seq(Callbacks) /\ n \in Nat /\ Len(scheduled') = n + 1
      /\ \A i \in 1 .. n : scheduled'[i] = scheduled[i]
      /\ scheduled'[n + 1] = p
  BY <1>1, <1>2, AppendedProperties DEF DataInv, DataTypeOK
<1>4. mark' \in 0 .. MaxMessages /\ mark' <= sent' /\ ended' \in Reasons
  BY <1>1, Numbers DEF DataInv, DataTypeOK, StreamInv, EndInv
<1>5. DataTypeOK' BY <1>1, <1>3, <1>4 DEF DataInv, DataTypeOK
<1>6. Through' = Through BY <1>1 DEF Through
<1>7. QueueInv'
  <2>1. exc # None => mark' = mark
    BY <1>1 DEF DataInv, DataTypeOK, StreamInv, EndInv
  <2>. QED BY <1>1, <2>1 DEF DataInv, StreamInv, QueueInv, EndIsAt
<1>8. (\A i \in 1 .. n : IsPut(i)' <=> IsPut(i)) /\ ~IsPut(n + 1)'
  BY <1>2, <1>3 DEF IsPut
<1>9. ScheduleInv'
  <2>. USE DEF DataInv, StreamInv, ScheduleInv
  <2>1. \A i \in 1 .. n + 1 : IsPut(i)' => i \in 1 .. n /\ IsPut(i) /\ scheduled'[i] = scheduled[i]
    <3>1. \A i \in 1 .. n + 1 : i # n + 1 => i \in 1 .. n BY <1>3
    <3>. QED BY <1>3, <1>8, <3>1
  <2>2. \A m \in Through + 1 .. sent : \E i \in 1 .. n + 1 : scheduled'[i].item = m
    <3>1. \A i \in 1 .. n : i \in 1 .. n + 1 BY <1>3
    <3>. QED BY <1>3, <3>1
  <2>3. \A i \in 1 .. n + 1 : IsPut(i)' => scheduled'[i].item \in Through + 1 .. sent
    BY <2>1
  <2>4. \A i, j \in 1 .. n + 1 :
            i < j /\ IsPut(i)' /\ IsPut(j)' => scheduled'[i].item < scheduled'[j].item
    BY <2>1
  <2>. QED BY <1>1, <1>3, <1>6, <2>2, <2>3, <2>4
<1>10. EndInv'
  <2>. USE DEF DataInv, StreamInv, EndInv
  <2>1. exc # None => exc = ended' /\ mark' = mark BY <1>1 DEF DataTypeOK
  <2>2. n + 1 \in 1 .. n + 1 BY <1>3
  <2>3. ASSUME NEW i \in 1 .. n + 1, ~IsPut(i)'
        PROVE  /\ ended' # None /\ scheduled'[i].exc # None
               /\ exc' = None /\ (\A j \in 1 .. i - 1 : IsPut(j)') => FirstClose(i)'
    <3>1. CASE i = n + 1
      <4>1. exc = None /\ (\A j \in 1 .. n : IsPut(j)) => ended = None BY <1>3
      <4>2. exc = None /\ (\A j \in 1 .. i - 1 : IsPut(j)') => ended = None
        <5>1. i - 1 = n BY <1>3, <3>1
        <5>. QED BY <1>8, <4>1, <5>1
      <4>3. ended = None => FirstClose(i)'
        <5>1. \A j : j \notin i + 1 .. n + 1 BY <1>3, <3>1
        <5>. QED BY <1>1, <1>2, <1>3, <3>1, <5>1 DEF FirstClose
      <4>4. scheduled'[i].exc # None BY <1>2, <1>3, <3>1
      <4>5. ended' # None BY <1>4, ConstantsAre
      <4>. QED BY <1>1, <4>2, <4>3, <4>4, <4>5
    <3>2. CASE i # n + 1
      <4>1. i \in 1 .. n BY <1>3, <3>2
      <4>2. scheduled'[i] = scheduled[i] /\ ~IsPut(i) BY <1>3, <1>8, <2>3, <4>1
      <4>3. ended # None /\ scheduled[i].exc # None BY <4>1, <4>2
      <4>4. ended' = ended /\ mark' = mark BY <1>1, <4>3
      <4>5. \A j \in 1 .. i - 1 : j \in 1 .. n BY <1>3, <4>1
      <4>6. ASSUME FirstClose(i) PROVE FirstClose(i)'
        <5>1. \A j \in i + 1 .. n + 1 : j # n + 1 => j \in i + 1 .. n /\ j \in 1 .. n
          BY <1>3, <4>1
        <5>. QED BY <1>3, <1>8, <4>2, <4>4, <4>6, <5>1 DEF FirstClose
      <4>7. exc' = None /\ (\A j \in 1 .. i - 1 : IsPut(j)') => FirstClose(i)
        BY <1>1, <1>8, <4>1, <4>2, <4>5
      <4>. QED BY <4>2, <4>3, <4>4, <4>6, <4>7
    <3>. QED BY <3>1, <3>2
  <2>4. exc' = None /\ ended' # None => \E i \in 1 .. Len(scheduled') : ~IsPut(i)'
    BY <1>3, <1>8, <2>2
  <2>. QED BY <1>1, <1>3, <1>4, <2>1, <2>3, <2>4
<1>11. SizeInv' BY <1>1 DEF DataInv, StreamInv, SizeInv
<1>12. BoundInv' BY <1>1 DEF DataInv, BoundInv
<1>. QED BY <1>5, <1>7, <1>9, <1>10, <1>11, <1>12 DEF DataInv, StreamInv

(* Nothing but the size and the place of the pump. *)
LEMMA CountsKeep ==
    ASSUME DataInv, PutCounts \/ PutRefused
    PROVE  DataInv'
<1>1. /\ UNCHANGED <<scheduled, sent, ended, mark, queue, exc, drained, taken, told>>
      /\ pump = "idle" /\ sent < MaxMessages
  BY DEF PutCounts, PutRefused, loopSide
<1>2. \/ pump' = "refused" /\ size' = size
      \/ pump' = "counted" /\ size' = size + 1 /\ ~AtBound
  BY DEF PutCounts, PutRefused
<1>3. size' \in Int /\ SizeInv'
  BY <1>1, <1>2, Numbers DEF DataInv, DataTypeOK, StreamInv, SizeInv
<1>4. BoundInv' BY <1>2, ConstantsAre DEF AtBound, DataInv, DataTypeOK, BoundInv
<1>5. DataTypeOK' BY <1>1, <1>2, <1>3 DEF DataInv, DataTypeOK
<1>6. QueueInv' /\ ScheduleInv' /\ EndInv'
  BY <1>1 DEF DataInv, StreamInv, QueueInv, EndIsAt, ScheduleInv, EndInv, Through, IsPut, FirstClose
<1>. QED BY <1>3, <1>4, <1>5, <1>6 DEF DataInv, StreamInv

-----------------------------------------------------------------------------
(* Steps of the loop *)

LEMMA HeadOfSchedule ==
    ASSUME DataTypeOK, scheduled # <<>>, NEW n \in Nat, n = Len(scheduled)
    PROVE  /\ Head(scheduled) = scheduled[1] /\ 1 \in 1 .. n /\ n - 1 \in Nat
           /\ Rest(scheduled) \in Seq(Callbacks) /\ Len(Rest(scheduled)) = n - 1
           /\ \A i \in 1 .. n - 1 : Rest(scheduled)[i] = scheduled[i + 1] /\ i + 1 \in 1 .. n
BY RestProperties DEF DataTypeOK

LEMMA LoopPuts ==
    ASSUME DataInv, scheduled # <<>>, scheduled' = Rest(scheduled), RunsPut(Head(scheduled).item),
           UNCHANGED <<pumpSide, drained, taken, told>>
    PROVE  DataInv'
<1>. DEFINE m == scheduled[1].item
<1>. PICK n \in Nat : n = Len(scheduled) BY Numbers DEF DataInv
<1>. PICK q \in Nat : q = Len(queue) BY Numbers DEF DataInv
<1>1. /\ m # CLOSED /\ queue' = Append(queue, m)
      /\ 1 \in 1 .. n /\ n - 1 \in Nat
      /\ scheduled' \in Seq(Callbacks) /\ Len(scheduled') = n - 1
      /\ \A i \in 1 .. n - 1 : scheduled'[i] = scheduled[i + 1] /\ i + 1 \in 1 .. n
      /\ UNCHANGED <<size, pump, sent, ended, mark, exc, drained, taken, told>>
  BY HeadOfSchedule DEF RunsPut, pumpSide, DataInv
<1>2. /\ m \in 0 .. MaxMessages /\ sent \in Nat /\ taken \in Nat /\ mark \in Nat
      /\ Through \in Int /\ Through = taken + q - (IF exc = None THEN 0 ELSE 1)
  BY <1>1, Numbers DEF DataInv, Through
<1>3. /\ queue' \in Seq(0 .. MaxMessages) /\ Len(queue') = q + 1
      /\ \A i \in 1 .. q : queue'[i] = queue[i]
      /\ queue'[q + 1] = m
  BY <1>1, <1>2, AppendedProperties DEF DataInv, DataTypeOK
<1>4. m = Through + 1
  <2>. USE DEF DataInv, StreamInv, ScheduleInv
  <2>1. m \in Through + 1 .. sent BY <1>1 DEF IsPut
  <2>2. Through + 1 \in Through + 1 .. sent BY <1>2, <2>1
  <2>3. PICK i \in 1 .. n : scheduled[i].item = Through + 1 BY <2>2
  <2>4. CASE i = 1 BY <2>3, <2>4
  <2>5. CASE i # 1
    <3>1. 1 < i BY <2>5
    <3>2. CASE IsPut(i)
      <4>1. m < Through + 1 BY <1>1, <2>3, <3>1, <3>2 DEF IsPut
      <4>. QED BY <1>2, <2>1, <4>1
    <3>3. CASE ~IsPut(i)
      <4>1. Through + 1 = 0 BY <2>3, <3>3 DEF IsPut, CLOSED
      <4>2. taken <= Through BY StreamBounds
      <4>. QED BY <1>2, <4>1, <4>2
    <3>. QED BY <3>2, <3>3
  <2>. QED BY <2>4, <2>5
<1>5. Through' = Through + 1 BY <1>1, <1>2, <1>3 DEF Through
<1>6. DataTypeOK' BY <1>1, <1>3 DEF DataInv, DataTypeOK
<1>7. QueueInv'
  <2>1. PICK k \in 1 .. q + 1 : /\ EndIsAt(k)
                                /\ k = q + 1 <=> exc = None
                                /\ exc # None /\ ~drained => taken + k - 1 >= mark
    BY DEF DataInv, StreamInv, QueueInv
  <2>2. CASE exc = None
    <3>1. \A i \in 1 .. q + 1 : queue'[i] = taken + i
      <4>1. \A i \in 1 .. q : queue'[i] = taken + i BY <1>3, <2>1, <2>2 DEF EndIsAt
      <4>2. queue'[q + 1] = taken + (q + 1) BY <1>2, <1>3, <1>4, <2>2
      <4>. QED BY <4>1, <4>2
    <3>2. \A i \in 1 .. q + 1 : i < q + 2 OBVIOUS
    <3>3. EndIsAt(q + 2)' BY <1>1, <1>3, <3>1, <3>2 DEF EndIsAt
    <3>4. q + 2 \in 1 .. Len(queue') + 1 /\ q + 2 = Len(queue') + 1 BY <1>3
    <3>. QED BY <1>1, <2>2, <3>3, <3>4 DEF QueueInv
  <2>3. CASE exc # None
    <3>1. k \in 1 .. q BY <2>1, <2>3
    <3>2. m = taken + (q + 1) - 1 BY <1>2, <1>4, <2>3
    <3>3. ASSUME NEW i \in 1 .. q + 1
          PROVE  queue'[i] = IF i < k THEN taken + i ELSE IF i = k THEN CLOSED ELSE taken + i - 1
      <4>1. CASE i = q + 1 BY <1>3, <3>1, <3>2, <4>1
      <4>2. CASE i \in 1 .. q BY <1>3, <2>1, <4>2 DEF EndIsAt
      <4>. QED BY <4>1, <4>2
    <3>4. EndIsAt(k)' BY <1>1, <1>3, <3>3 DEF EndIsAt
    <3>5. k \in 1 .. Len(queue') + 1 /\ k # Len(queue') + 1 BY <1>3, <3>1
    <3>. QED BY <1>1, <2>1, <2>3, <3>4, <3>5 DEF QueueInv
  <2>. QED BY <2>2, <2>3
<1>8. \A i \in 1 .. n - 1 : IsPut(i)' <=> IsPut(i + 1) BY <1>1 DEF IsPut
<1>9. IsPut(1) BY <1>1 DEF IsPut
<1>10. ScheduleInv'
  <2>. USE DEF DataInv, StreamInv, ScheduleInv
  <2>1. Through + 1 <= sent BY <1>1, <1>2, <1>4, <1>9
  <2>2. ASSUME NEW i \in 1 .. n - 1, IsPut(i)'
        PROVE  scheduled'[i].item \in Through + 2 .. sent
    <3>1. i + 1 \in 1 .. n /\ 1 < i + 1 /\ IsPut(i + 1) /\ scheduled'[i] = scheduled[i + 1]
      BY <1>1, <1>8, <2>2
    <3>2. scheduled[i + 1].item \in Through + 1 .. sent BY <3>1
    <3>3. m < scheduled[i + 1].item BY <1>1, <1>9, <3>1
    <3>4. PICK x \in Through + 1 .. sent : x = scheduled'[i].item BY <3>1, <3>2
    <3>5. Through + 1 < x BY <1>4, <3>1, <3>3, <3>4
    <3>. HIDE DEF DataInv, StreamInv, ScheduleInv
    <3>6. x \in Through + 2 .. sent BY <1>2, <3>4, <3>5
    <3>. QED BY <3>4, <3>6
  <2>3. ASSUME NEW i \in 1 .. n - 1, NEW j \in 1 .. n - 1, i < j, IsPut(i)', IsPut(j)'
        PROVE  scheduled'[i].item < scheduled'[j].item
    <3>1. i + 1 < j + 1 /\ IsPut(i + 1) /\ IsPut(j + 1) BY <1>8, <2>3
    <3>. QED BY <1>1, <2>3, <3>1
  <2>4. ASSUME NEW x \in Through + 2 .. sent
        PROVE  \E i \in 1 .. n - 1 : scheduled'[i].item = x
    <3>1. x \in Through + 1 .. sent /\ x # m BY <1>2, <1>4
    <3>2. PICK i \in 1 .. n : scheduled[i].item = x BY <3>1
    <3>3. i # 1 BY <3>1, <3>2
    <3>4. i - 1 \in 1 .. n - 1 /\ (i - 1) + 1 = i BY <3>3
    <3>. QED BY <1>1, <3>2, <3>4
  <2>5. (Through + 1) + 1 = Through + 2 BY <1>2
  <2>. QED BY <1>1, <1>5, <2>1, <2>2, <2>3, <2>4, <2>5
<1>11. EndInv'
  <2>. USE DEF DataInv, StreamInv, EndInv
  <2>1. exc = None /\ ended # None => \E i \in 1 .. n - 1 : ~IsPut(i)'
    <3>1. SUFFICES ASSUME exc = None, ended # None PROVE \E i \in 1 .. n - 1 : ~IsPut(i)' OBVIOUS
    <3>2. PICK i \in 1 .. n : ~IsPut(i) BY <3>1
    <3>3. i - 1 \in 1 .. n - 1 /\ (i - 1) + 1 = i BY <1>9, <3>2
    <3>. QED BY <1>8, <3>2, <3>3
  <2>2. ASSUME NEW i \in 1 .. n - 1, ~IsPut(i)'
        PROVE  /\ ended' # None /\ scheduled'[i].exc # None
               /\ exc' = None /\ (\A j \in 1 .. i - 1 : IsPut(j)') => FirstClose(i)'
    <3>1. i + 1 \in 1 .. n /\ ~IsPut(i + 1) /\ scheduled'[i] = scheduled[i + 1]
      BY <1>1, <1>8, <2>2
    <3>2. ASSUME \A j \in 1 .. i - 1 : IsPut(j)' PROVE \A j \in 1 .. (i + 1) - 1 : IsPut(j)
      <4>1. ASSUME NEW j \in 1 .. (i + 1) - 1, j # 1 PROVE IsPut(j)
        <5>1. j - 1 \in 1 .. i - 1 /\ j - 1 \in 1 .. n - 1 /\ (j - 1) + 1 = j BY <4>1
        <5>. QED BY <1>8, <3>2, <5>1
      <4>. QED BY <1>9, <4>1
    <3>3. ASSUME FirstClose(i + 1) PROVE FirstClose(i)'
      <4>1. ASSUME NEW j \in i + 1 .. n - 1, IsPut(j)' PROVE scheduled'[j].item > mark
        <5>1. j \in 1 .. n - 1 /\ j + 1 \in (i + 1) + 1 .. n BY <4>1
        <5>. QED BY <1>1, <1>8, <3>3, <4>1, <5>1 DEF FirstClose
      <4>. QED BY <1>1, <3>1, <3>3, <4>1 DEF FirstClose
    <3>. QED BY <1>1, <3>1, <3>2, <3>3
  <2>. QED BY <1>1, <2>1, <2>2
<1>12. SizeInv' /\ BoundInv' BY <1>1 DEF DataInv, StreamInv, SizeInv, BoundInv
<1>. QED BY <1>6, <1>7, <1>10, <1>11, <1>12 DEF DataInv, StreamInv

LEMMA LoopCloses ==
    ASSUME DataInv, scheduled # <<>>, scheduled' = Rest(scheduled), RunsClose(Head(scheduled)),
           UNCHANGED <<pumpSide, drained, taken, told>>
    PROVE  DataInv'
<1>. PICK n \in Nat : n = Len(scheduled) BY Numbers DEF DataInv
<1>. PICK q \in Nat : q = Len(queue) BY Numbers DEF DataInv
<1>1. /\ ~IsPut(1) /\ 1 \in 1 .. n /\ n - 1 \in Nat
      /\ scheduled' \in Seq(Callbacks) /\ Len(scheduled') = n - 1
      /\ \A i \in 1 .. n - 1 : scheduled'[i] = scheduled[i + 1] /\ i + 1 \in 1 .. n
      /\ UNCHANGED <<size, pump, sent, ended, mark, drained, taken, told>>
  BY HeadOfSchedule DEF RunsClose, pumpSide, DataInv, IsPut
<1>2. /\ sent \in Nat /\ taken \in Nat /\ mark \in Nat /\ MaxMessages \in Nat
      /\ Through \in Int /\ Through = taken + q - (IF exc = None THEN 0 ELSE 1)
  BY Numbers DEF DataInv, Through
<1>3. \A i \in 1 .. n - 1 : IsPut(i)' <=> IsPut(i + 1) BY <1>1 DEF IsPut
<1>4. /\ ended # None /\ scheduled[1].exc # None
      /\ exc = None => FirstClose(1)
  <2>1. \A j : j \notin 1 .. 1 - 1 OBVIOUS
  <2>. QED BY <1>1, <2>1 DEF DataInv, StreamInv, EndInv
<1>5. /\ exc' = ended /\ exc' # None /\ exc' \in Reasons
      /\ IF exc = None THEN queue' = Append(queue, CLOSED) ELSE queue' = queue
  <2>1. CASE exc = None
    <3>1. exc' = scheduled[1].exc /\ queue' = Append(queue, CLOSED)
      BY <2>1, HeadOfSchedule DEF RunsClose, DataInv
    <3>. QED BY <1>4, <2>1, <3>1 DEF FirstClose, DataInv, DataTypeOK
  <2>2. CASE exc # None
    BY <2>2 DEF RunsClose, DataInv, DataTypeOK, StreamInv, EndInv
  <2>. QED BY <2>1, <2>2
<1>6. CLOSED \in 0 .. MaxMessages BY <1>2 DEF CLOSED
<1>7. exc = None =>
          /\ queue' \in Seq(0 .. MaxMessages) /\ Len(queue') = q + 1
          /\ \A i \in 1 .. q : queue'[i] = queue[i]
          /\ queue'[q + 1] = CLOSED
  <2>1. queue \in Seq(0 .. MaxMessages) BY DEF DataInv, DataTypeOK
  <2>2. /\ Append(queue, CLOSED) \in Seq(0 .. MaxMessages)
        /\ Len(Append(queue, CLOSED)) = q + 1
        /\ \A i \in 1 .. q : Append(queue, CLOSED)[i] = queue[i]
        /\ Append(queue, CLOSED)[q + 1] = CLOSED
    BY <1>6, <2>1, AppendedProperties
  <2>3. exc = None => queue' = Append(queue, CLOSED) BY <1>5
  <2>. QED BY <2>2, <2>3
<1>8. DataTypeOK' BY <1>1, <1>5, <1>7 DEF DataInv, DataTypeOK
<1>9. Through' = Through
  <2>1. CASE exc = None
    <3>1. Through' = taken + (q + 1) - 1 BY <1>1, <1>5, <1>7, <2>1 DEF Through
    <3>. QED BY <1>2, <2>1, <3>1
  <2>2. CASE exc # None BY <1>1, <1>5, <2>2 DEF Through
  <2>. QED BY <2>1, <2>2
(* What is left in the schedule is younger than the close. *)
<1>10. exc = None => Through >= mark
  <2>. SUFFICES ASSUME exc = None, Through < mark PROVE FALSE BY <1>2
  <2>. USE DEF DataInv, StreamInv, ScheduleInv
  <2>1. mark <= sent BY DEF EndInv
  <2>2. Through + 1 \in Through + 1 .. sent BY <1>2, <2>1
  <2>3. PICK i \in 1 .. n : scheduled[i].item = Through + 1 BY <2>2
  <2>4. IsPut(i)
    <3>1. taken <= Through BY StreamBounds
    <3>. QED BY <1>2, <2>3, <3>1 DEF IsPut, CLOSED
  <2>5. i \in 1 + 1 .. n BY <1>1, <2>4
  <2>6. scheduled[i].item > mark BY <1>4, <2>4, <2>5 DEF FirstClose
  <2>. QED BY <1>2, <2>3, <2>6
<1>11. QueueInv'
  <2>1. CASE exc = None
    <3>1. PICK k \in 1 .. q + 1 : EndIsAt(k) /\ k = q + 1
      BY <2>1 DEF DataInv, StreamInv, QueueInv
    <3>2. \A i \in 1 .. q : i < q + 1 /\ queue'[i] = taken + i
      BY <1>7, <2>1, <3>1 DEF EndIsAt
    <3>3. EndIsAt(k)'
      <4>1. ASSUME NEW i \in 1 .. q + 1
            PROVE  queue'[i] = IF i < k THEN taken + i
                               ELSE IF i = k THEN CLOSED ELSE taken + i - 1
        <5>1. CASE i = q + 1 BY <1>7, <2>1, <3>1, <5>1
        <5>2. CASE i \in 1 .. q BY <3>1, <3>2, <5>2
        <5>. QED BY <5>1, <5>2
      <4>. QED BY <1>1, <1>7, <2>1, <4>1 DEF EndIsAt
    <3>4. k \in 1 .. Len(queue') + 1 /\ k # Len(queue') + 1 BY <1>7, <2>1, <3>1
    <3>5. taken + k - 1 >= mark BY <1>2, <1>10, <2>1, <3>1
    <3>. QED BY <1>1, <1>5, <3>3, <3>4, <3>5 DEF QueueInv
  <2>2. CASE exc # None
    BY <1>1, <1>5, <2>2 DEF DataInv, StreamInv, QueueInv, EndIsAt
  <2>. QED BY <2>1, <2>2
<1>12. ScheduleInv'
  <2>. USE DEF DataInv, StreamInv, ScheduleInv
  <2>1. ASSUME NEW i \in 1 .. n - 1, IsPut(i)'
        PROVE  scheduled'[i].item \in Through + 1 .. sent
    BY <1>1, <1>3, <2>1
  <2>2. ASSUME NEW i \in 1 .. n - 1, NEW j \in 1 .. n - 1, i < j, IsPut(i)', IsPut(j)'
        PROVE  scheduled'[i].item < scheduled'[j].item
    <3>1. i + 1 < j + 1 /\ IsPut(i + 1) /\ IsPut(j + 1) BY <1>3, <2>2
    <3>. QED BY <1>1, <2>2, <3>1
  <2>3. ASSUME NEW x \in Through + 1 .. sent
        PROVE  \E i \in 1 .. n - 1 : scheduled'[i].item = x
    <3>1. PICK i \in 1 .. n : scheduled[i].item = x OBVIOUS
    <3>2. i # 1
      <4>1. taken <= Through BY StreamBounds
      <4>2. x # CLOSED BY <1>2, <4>1 DEF CLOSED
      <4>. QED BY <1>1, <3>1, <4>2 DEF IsPut
    <3>3. i - 1 \in 1 .. n - 1 /\ (i - 1) + 1 = i BY <3>2
    <3>. QED BY <1>1, <3>1, <3>3
  <2>. QED BY <1>1, <1>9, <2>1, <2>2, <2>3
<1>13. EndInv'
  <2>. USE DEF DataInv, StreamInv, EndInv
  <2>1. ASSUME NEW i \in 1 .. n - 1, ~IsPut(i)'
        PROVE  ended' # None /\ scheduled'[i].exc # None
    BY <1>1, <1>3, <2>1
  <2>. QED BY <1>1, <1>5, <2>1
<1>14. SizeInv' /\ BoundInv' BY <1>1 DEF DataInv, StreamInv, SizeInv, BoundInv
<1>. QED BY <1>8, <1>11, <1>12, <1>13, <1>14 DEF DataInv, StreamInv

-----------------------------------------------------------------------------
(* Steps of the tasks *)

LEMMA HeadOfQueue ==
    ASSUME DataTypeOK, queue # <<>>, NEW q \in Nat, q = Len(queue)
    PROVE  /\ Head(queue) = queue[1] /\ 1 \in 1 .. q /\ q - 1 \in Nat
           /\ Rest(queue) \in Seq(0 .. MaxMessages) /\ Len(Rest(queue)) = q - 1
           /\ \A i \in 1 .. q - 1 : Rest(queue)[i] = queue[i + 1] /\ i + 1 \in 1 .. q
BY RestProperties DEF DataTypeOK

(* The end is raised with the reason of the first close only, and after    *)
(* the messages put before it.                                             *)
LEMMA ToldTruly ==
    ASSUME DataInv, drained \/ (queue # <<>> /\ Head(queue) = CLOSED)
    PROVE  exc \in Reasons /\ exc = ended /\ ended # None /\ taken >= mark
<1>. PICK q \in Nat : q = Len(queue) BY Numbers DEF DataInv
<1>1. CASE drained BY <1>1 DEF DataInv, DataTypeOK, StreamInv, EndInv
<1>2. CASE ~drained /\ queue # <<>> /\ Head(queue) = CLOSED
  <2>1. queue[1] = CLOSED /\ 1 \in 1 .. q BY <1>2, HeadOfQueue DEF DataInv
  <2>2. PICK k \in 1 .. q + 1 : /\ EndIsAt(k)
                                /\ k = q + 1 <=> exc = None
                                /\ exc # None /\ ~drained => taken + k - 1 >= mark
    BY DEF DataInv, StreamInv, QueueInv
  <2>3. k = 1
    <3>1. taken \in Nat BY Numbers DEF DataInv
    <3>2. 1 < k => queue[1] = taken + 1 BY <2>1, <2>2 DEF EndIsAt
    <3>. QED BY <2>1, <3>1, <3>2 DEF CLOSED
  <2>4. exc # None BY <2>1, <2>2, <2>3
  <2>5. taken >= mark BY <1>2, <2>2, <2>3, <2>4, Numbers DEF DataInv
  <2>. QED BY <2>4, <2>5 DEF DataInv, DataTypeOK, StreamInv, EndInv
<1>. QED BY <1>1, <1>2

LEMMA TakesNext ==
    ASSUME DataInv, NEW t \in Tasks, TakesItem(t),
           UNCHANGED <<pump, scheduled, exc, sent, ended, mark>>
    PROVE  DataInv' /\ taken' = taken + 1 /\ taken < sent
<1>. PICK q \in Nat : q = Len(queue) BY Numbers DEF DataInv
<1>1. /\ queue[1] # CLOSED /\ taken' = queue[1] /\ size' = size - 1
      /\ 1 \in 1 .. q /\ queue' \in Seq(0 .. MaxMessages) /\ Len(queue') = q - 1
      /\ \A i \in 1 .. q - 1 : queue'[i] = queue[i + 1] /\ i + 1 \in 1 .. q
      /\ UNCHANGED <<drained, told>>
  BY HeadOfQueue DEF TakesItem, DataInv
<1>2. /\ taken \in Nat /\ sent \in Nat /\ mark \in Nat
      /\ Through \in Int /\ Through = taken + q - (IF exc = None THEN 0 ELSE 1)
  BY Numbers DEF DataInv, Through
<1>3. PICK k \in 1 .. q + 1 : /\ EndIsAt(k)
                              /\ k = q + 1 <=> exc = None
                              /\ exc # None /\ ~drained => taken + k - 1 >= mark
  BY DEF DataInv, StreamInv, QueueInv
<1>4. k # 1 BY <1>1, <1>3 DEF EndIsAt
<1>5. taken' = taken + 1 BY <1>1, <1>3, <1>4 DEF EndIsAt
<1>6. taken + 1 <= Through
  <2>1. exc = None => Through = taken + q BY <1>2
  <2>2. exc # None => Through = taken + q - 1 /\ k \in 1 .. q BY <1>2, <1>3
  <2>. QED BY <1>1, <1>2, <1>4, <2>1, <2>2
<1>7. taken < sent BY <1>2, <1>6, StreamBounds DEF DataInv, StreamInv
<1>8. Through' = Through BY <1>1, <1>2, <1>5 DEF Through
<1>9. DataTypeOK'
  <2>1. taken' \in 0 .. MaxMessages BY <1>1, Numbers DEF DataInv
  <2>2. size' \in Int BY <1>1 DEF DataInv, DataTypeOK
  <2>. QED BY <1>1, <2>1, <2>2 DEF DataInv, DataTypeOK
<1>10. QueueInv'
  <2>1. k - 1 \in 1 .. q BY <1>4
  <2>2. ASSUME NEW i \in 1 .. q - 1
        PROVE  queue'[i] = IF i < k - 1 THEN taken' + i
                           ELSE IF i = k - 1 THEN CLOSED ELSE taken' + i - 1
    <3>1. queue'[i] = queue[i + 1] /\ i + 1 \in 1 .. q BY <1>1
    <3>2. queue[i + 1] = IF i + 1 < k THEN taken + (i + 1)
                         ELSE IF i + 1 = k THEN CLOSED ELSE taken + (i + 1) - 1
      BY <1>3, <3>1 DEF EndIsAt
    <3>. QED BY <1>2, <1>5, <3>1, <3>2
  <2>. DEFINE j == k - 1
  <2>3. \A i \in 1 .. Len(queue') : queue'[i] = IF i < j THEN taken' + i
            ELSE IF i = j THEN CLOSED ELSE taken' + i - 1
    BY <1>1, <2>2
  <2>4. /\ j \in 1 .. Len(queue') + 1
        /\ j = Len(queue') + 1 <=> exc' = None
        /\ exc' # None /\ ~drained' => taken' + j - 1 >= mark'
    BY <1>1, <1>2, <1>3, <1>5, <2>1
  <2>. HIDE DEF j
  <2>. QED BY <2>3, <2>4 DEF QueueInv, EndIsAt
<1>11. ScheduleInv' BY <1>8 DEF DataInv, StreamInv, ScheduleInv, IsPut
<1>12. EndInv'
  <2>1. drained' => exc' # None /\ taken' >= mark'
    BY <1>1, <1>2, <1>5 DEF DataInv, StreamInv, EndInv
  <2>. QED BY <1>1, <2>1 DEF DataInv, StreamInv, EndInv, IsPut, FirstClose
<1>13. SizeInv' BY <1>1, <1>2, <1>5 DEF DataInv, DataTypeOK, StreamInv, SizeInv
<1>14. BoundInv'
  BY <1>1, ConstantsAre DEF DataInv, DataTypeOK, BoundInv
<1>. QED BY <1>5, <1>7, <1>9, <1>10, <1>11, <1>12, <1>13, <1>14 DEF DataInv, StreamInv

LEMMA EndGoesRound ==
    ASSUME DataInv, NEW t \in Tasks, TakesClosed(t),
           UNCHANGED <<pump, scheduled, exc, sent, ended, mark>>
    PROVE  DataInv' /\ told' = told \cup {ended} /\ ended # None /\ taken >= mark
<1>. PICK q \in Nat : q = Len(queue) BY Numbers DEF DataInv
<1>1. /\ queue[1] = CLOSED /\ drained' = TRUE /\ told' = told \cup {exc}
      /\ queue' = Append(Rest(queue), CLOSED)
      /\ 1 \in 1 .. q /\ q - 1 \in Nat
      /\ Rest(queue) \in Seq(0 .. MaxMessages) /\ Len(Rest(queue)) = q - 1
      /\ \A i \in 1 .. q - 1 : Rest(queue)[i] = queue[i + 1] /\ i + 1 \in 1 .. q
      /\ UNCHANGED <<size, taken>>
  BY HeadOfQueue DEF TakesClosed, DataInv
<1>2. exc \in Reasons /\ exc = ended /\ ended # None /\ taken >= mark
  BY ToldTruly DEF TakesClosed
<1>3. MaxMessages \in Nat /\ taken \in Nat BY Numbers DEF DataInv
<1>4. CLOSED \in 0 .. MaxMessages BY <1>3 DEF CLOSED
<1>5. /\ queue' \in Seq(0 .. MaxMessages) /\ Len(queue') = q
      /\ \A i \in 1 .. q - 1 : queue'[i] = queue[i + 1]
      /\ queue'[q] = CLOSED
  <2>1. /\ queue' \in Seq(0 .. MaxMessages) /\ Len(queue') = (q - 1) + 1
        /\ \A i \in 1 .. q - 1 : queue'[i] = Rest(queue)[i]
        /\ queue'[(q - 1) + 1] = CLOSED
    BY <1>1, <1>4, AppendedProperties
  <2>. QED BY <1>1, <2>1
<1>6. DataTypeOK' BY <1>1, <1>2, <1>5 DEF DataInv, DataTypeOK
<1>7. Through' = Through BY <1>1, <1>5 DEF Through
<1>8. QueueInv'
  <2>1. PICK k \in 1 .. q + 1 : EndIsAt(k) /\ (k = q + 1 <=> exc = None)
    BY DEF DataInv, StreamInv, QueueInv
  <2>2. k = 1
    <3>1. 1 < k => queue[1] = taken + 1 BY <1>1, <2>1 DEF EndIsAt
    <3>. QED BY <1>1, <1>3, <2>1, <3>1 DEF CLOSED
  <2>3. ASSUME NEW i \in 1 .. q
        PROVE  queue'[i] = IF i < q THEN taken + i
                           ELSE IF i = q THEN CLOSED ELSE taken + i - 1
    <3>1. CASE i = q BY <1>5, <3>1
    <3>2. CASE i # q
      <4>1. i \in 1 .. q - 1 /\ i < q /\ i + 1 \in 1 .. q /\ ~(i + 1 < 1) /\ i + 1 # 1
        BY <3>2
      <4>2. queue[i + 1] = taken + (i + 1) - 1 BY <2>1, <2>2, <4>1 DEF EndIsAt
      <4>. QED BY <1>3, <1>5, <4>1, <4>2
    <3>. QED BY <3>1, <3>2
  <2>4. EndIsAt(q)' BY <1>1, <1>5, <2>3 DEF EndIsAt
  <2>5. q \in 1 .. Len(queue') + 1 /\ q # Len(queue') + 1 /\ exc' # None
    BY <1>1, <1>2, <1>5, ConstantsAre
  <2>. QED BY <1>1, <2>4, <2>5 DEF QueueInv
<1>9. ScheduleInv' BY <1>7 DEF DataInv, StreamInv, ScheduleInv, IsPut
<1>10. EndInv' BY <1>1, <1>2 DEF DataInv, StreamInv, EndInv, IsPut, FirstClose
<1>11. SizeInv' /\ BoundInv' BY <1>1 DEF DataInv, StreamInv, SizeInv, BoundInv
<1>. QED BY <1>1, <1>2, <1>6, <1>8, <1>9, <1>10, <1>11 DEF DataInv, StreamInv

(* What no reader sees. *)
LEMMA OthersUntouched ==
    ASSUME DataInv, UNCHANGED <<size, pump, scheduled, queue, exc, drained, sent, taken, ended,
                                mark, told>>
    PROVE  DataInv'
BY DEF DataInv, DataTypeOK, BoundInv, StreamInv, QueueInv, EndIsAt, ScheduleInv, EndInv, SizeInv,
       Through, IsPut, FirstClose

(* A reader who comes after the end is told the reason again. *)
LEMMA RaisesAgain ==
    ASSUME DataInv, drained, NEW t \in Tasks, Raises(t),
           UNCHANGED <<pump, scheduled, exc, sent, ended, mark>>
    PROVE  DataInv' /\ told' = told \cup {ended} /\ ended # None /\ taken >= mark
<1>1. exc \in Reasons /\ exc = ended /\ ended # None /\ taken >= mark BY ToldTruly
<1>2. told' = told \cup {exc} /\ UNCHANGED <<size, queue, drained, taken>> BY DEF Raises
<1>3. DataTypeOK' BY <1>1, <1>2 DEF DataInv, DataTypeOK
<1>4. StreamInv' /\ BoundInv'
  BY <1>2 DEF DataInv, BoundInv, StreamInv, QueueInv, EndIsAt, ScheduleInv, EndInv, SizeInv,
     Through, IsPut, FirstClose
<1>. QED BY <1>1, <1>2, <1>3, <1>4 DEF DataInv

(* What a call of get() does to the stream, from its start or from a wait. *)
LEMMA GetsKeep ==
    ASSUME DataInv, NEW t \in Tasks, Gets(t) \/ (drained /\ Raises(t)),
           UNCHANGED <<pump, scheduled, exc, sent, ended, mark>>
    PROVE  /\ DataInv'
           /\ \/ taken' = taken + 1 /\ taken < sent /\ UNCHANGED told
              \/ told' = told \cup {ended} /\ ended # None /\ taken >= mark /\ UNCHANGED taken
              \/ UNCHANGED <<taken, told>>
<1>1. CASE Waits(t)
  <2>1. UNCHANGED <<size, queue, drained, taken, told>> BY <1>1 DEF Waits
  <2>. QED BY <2>1, OthersUntouched
<1>2. CASE TakesItem(t) BY <1>2, TakesNext DEF TakesItem
<1>3. CASE TakesClosed(t) BY <1>3, EndGoesRound DEF TakesClosed
<1>4. CASE drained /\ Raises(t) BY <1>4, RaisesAgain DEF Raises
<1>. QED BY <1>1, <1>2, <1>3, <1>4 DEF Gets

LEMMA TaskKeeps ==
    ASSUME DataInv, NEW t \in Tasks, Enter(t) \/ Resume(t)
    PROVE  /\ DataInv' /\ UNCHANGED <<sent, ended, mark>>
           /\ \/ taken' = taken + 1 /\ taken < sent /\ UNCHANGED told
              \/ told' = told \cup {ended} /\ ended # None /\ taken >= mark /\ UNCHANGED taken
              \/ UNCHANGED <<taken, told>>
<1>1. UNCHANGED <<pump, scheduled, exc, sent, ended, mark>> BY DEF Enter, Resume
<1>2. Gets(t) \/ (drained /\ Raises(t)) BY DEF Enter, Resume
<1>. QED BY <1>1, <1>2, GetsKeep

LEMMA LoopKeeps ==
    ASSUME DataInv, LoopRuns
    PROVE  DataInv' /\ UNCHANGED <<sent, ended, mark, taken, told>>
BY LoopPuts, LoopCloses DEF LoopRuns, pumpSide

LEMMA DataInit == Init => DataInv
<1>. SUFFICES ASSUME Init PROVE DataInv OBVIOUS
<1>1. /\ queue = <<>> /\ scheduled = <<>> /\ exc = None /\ ended = None /\ told = {}
      /\ size = 0 /\ sent = 0 /\ taken = 0 /\ mark = 0 /\ pump = "idle" /\ drained = FALSE
  BY DEF Init
<1>2. Len(queue) = 0 /\ Len(scheduled) = 0 BY <1>1, EmptySeq
<1>3. MaxMessages \in Nat /\ (MaxQueue # None => MaxQueue \in Nat) BY ConstantsAre
<1>4. DataTypeOK
  <2>1. <<>> \in Seq(Callbacks) /\ <<>> \in Seq(0 .. MaxMessages) BY EmptySeq
  <2>2. scheduled \in Seq(Callbacks) /\ queue \in Seq(0 .. MaxMessages) BY <1>1, <2>1
  <2>3. /\ size \in Int /\ sent \in 0 .. MaxMessages
        /\ taken \in 0 .. MaxMessages /\ mark \in 0 .. MaxMessages
    <3>1. size = 0 /\ sent = 0 /\ taken = 0 /\ mark = 0 BY <1>1
    <3>. QED BY <1>3, <3>1
  <2>4. pump \in {"idle", "counted", "refused"} /\ drained \in BOOLEAN BY <1>1, Zenon
  <2>5. exc \in Reasons \cup {None} /\ ended \in Reasons \cup {None} /\ told \subseteq Reasons
    BY <1>1
  <2>. QED BY <2>2, <2>3, <2>4, <2>5 DEF DataTypeOK
<1>5. QueueInv
  <2>1. EndIsAt(1) /\ 1 \in 1 .. Len(queue) + 1 /\ 1 = Len(queue) + 1 BY <1>2 DEF EndIsAt
  <2>. QED BY <1>1, <2>1 DEF QueueInv
<1>6. ScheduleInv BY <1>1, <1>2 DEF ScheduleInv, Through
<1>7. EndInv BY <1>1, <1>2 DEF EndInv
<1>8. SizeInv /\ BoundInv BY <1>1, <1>3 DEF SizeInv, BoundInv
<1>. QED BY <1>4, <1>5, <1>6, <1>7, <1>8 DEF DataInv, StreamInv

(* The pipe the readers see, step by step. *)
LEMMA DataStep ==
    ASSUME DataInv, [Next]_vars
    PROVE  DataInv' /\ [ThePipe!Next]_(ThePipe!vars)
<1>. USE DEF ThePipe!vars, ThePipe!Next
<1>1. CASE UNCHANGED vars BY <1>1, OthersUntouched DEF vars
<1>2. CASE PutCounts \/ PutRefused
  <2>1. UNCHANGED <<sent, taken, ended, mark, told>>
    BY <1>2 DEF PutCounts, PutRefused, loopSide
  <2>. QED BY <1>2, <2>1, CountsKeep
<1>3. CASE PutSchedules
  <2>1. DataInv' BY <1>3, ScheduledPut
  <2>2. MaxQueue = None \/ sent - taken < MaxQueue
    <3>1. size = sent - taken + 1 BY <1>3 DEF PutSchedules, DataInv, StreamInv, SizeInv
    <3>2. sent \in Nat /\ taken \in Nat BY Numbers DEF DataInv
    <3>. QED BY <3>1, <3>2, ConstantsAre DEF DataInv, BoundInv
  <2>3. ThePipe!Send BY <1>3, <2>2 DEF PutSchedules, loopSide, ThePipe!Send
  <2>. QED BY <2>1, <2>3
<1>4. ASSUME NEW reason \in Reasons, Close(reason),
             pump' = pump \/ (pump = "refused" /\ pump' = "idle")
      PROVE  DataInv' /\ (ThePipe!End(reason) \/ UNCHANGED <<sent, taken, ended, mark, told>>)
  <2>1. DataInv' BY <1>4, ScheduledClose
  <2>. QED BY <1>4, <2>1 DEF Close, loopSide, ThePipe!End
<1>5. CASE Overflow \/ CloseAtAnyTime
  <2>1. PICK reason \in Reasons :
            Close(reason) /\ (pump' = pump \/ (pump = "refused" /\ pump' = "idle"))
    BY <1>5 DEF Overflow, CloseAtAnyTime, Reasons
  <2>. QED BY <1>4, <2>1
<1>6. CASE LoopRuns BY <1>6, LoopKeeps
<1>7. ASSUME NEW t \in Tasks, Enter(t) \/ Resume(t)
      PROVE  DataInv' /\ [ThePipe!Next]_(ThePipe!vars)
  <2>1. DataInv' /\ UNCHANGED <<sent, ended, mark>> BY <1>7, TaskKeeps
  <2>2. \/ taken' = taken + 1 /\ taken < sent /\ UNCHANGED told
        \/ told' = told \cup {ended} /\ ended # None /\ taken >= mark /\ UNCHANGED taken
        \/ UNCHANGED <<taken, told>>
    BY <1>7, TaskKeeps
  <2>. QED BY <2>1, <2>2 DEF ThePipe!Deliver, ThePipe!Tell
<1>8. ASSUME NEW t \in Tasks, Cancel(t) PROVE DataInv' /\ [ThePipe!Next]_(ThePipe!vars)
  <2>1. UNCHANGED <<size, pump, scheduled, queue, exc, drained, sent, taken, ended, mark, told>>
    BY <1>8 DEF Cancel, pumpSide
  <2>. QED BY <2>1, OthersUntouched
<1>. QED BY <1>1, <1>2, <1>3, <1>5, <1>6, <1>7, <1>8 DEF Next

-----------------------------------------------------------------------------
(* The theorems *)

LEMMA InvInit == Init => DataInv /\ LineOK
<1>. SUFFICES ASSUME Init PROVE LineOK BY DataInit
<1>1. <<>> \in Seq(Tasks) BY EmptySeq
<1>. QED BY <1>1 DEF Init, LineOK, TaskPcs

LEMMA InvStep == DataInv /\ LineOK /\ [Next]_vars => (DataInv /\ LineOK)'
BY DataStep, LineStep

LEMMA InvIsInvariant == Spec => [](DataInv /\ LineOK)
BY InvInit, InvStep, PTL DEF Spec

LEMMA InvImpliesType == DataInv /\ LineOK => TypeOK
<1>. SUFFICES ASSUME DataInv, LineOK PROVE TypeOK OBVIOUS
<1>1. MaxMessages \in Nat /\ sent \in 0 .. MaxMessages /\ taken \in Nat /\ taken <= sent
  BY Numbers, StreamBounds DEF DataInv, DataTypeOK, StreamInv
<1>2. size \in 0 .. MaxMessages
  BY <1>1 DEF DataInv, StreamInv, SizeInv
<1>3. size \in 0 .. IF MaxQueue = None THEN MaxMessages ELSE MaxQueue
  BY <1>2, ConstantsAre DEF DataInv, BoundInv
<1>. QED BY <1>3 DEF TypeOK, DataInv, DataTypeOK, LineOK, TaskPcs

(* A mailbox of an asyncio connection keeps its type: among others _size   *)
(* is never negative and never above max_queue, although the pump's thread *)
(* adds to it and the loop takes from it (_AsyncMailbox, asyncio.py).      *)
THEOREM AsyncMailboxTypeCorrect == Spec => []TypeOK
BY InvIsInvariant, InvImpliesType, PTL

LEMMA ItemsCount ==
    ASSUME DataInv
    PROVE  Cardinality(Items) = Through - taken
<1>. PICK q \in Nat : q = Len(queue) BY Numbers DEF DataInv
<1>1. taken \in Nat BY Numbers DEF DataInv
<1>2. PICK k \in 1 .. q + 1 : EndIsAt(k) /\ (k = q + 1 <=> exc = None)
  BY DEF DataInv, StreamInv, QueueInv
<1>3. \A i \in 1 .. q : queue[i] = CLOSED <=> i = k
  BY <1>1, <1>2 DEF EndIsAt, CLOSED
<1>4. Items = (1 .. q) \ {k} BY <1>3 DEF Items
<1>5. IsFiniteSet(1 .. q) /\ Cardinality(1 .. q) = q
  <2>1. IsFiniteSet(1 .. q) /\ Cardinality(1 .. q) = IF 1 > q THEN 0 ELSE q - 1 + 1
    <3>1. 1 \in Int /\ q \in Int OBVIOUS
    <3>. QED BY <3>1, FS_Interval
  <2>. QED BY <2>1
<1>6. Cardinality(Items) = IF k \in 1 .. q THEN q - 1 ELSE q
  BY <1>4, <1>5, FS_RemoveElement
<1>7. Through = taken + q - (IF exc = None THEN 0 ELSE 1) BY DEF Through
<1>8. CASE exc = None
  <2>1. k \notin 1 .. q BY <1>2, <1>8
  <2>. QED BY <1>1, <1>6, <1>7, <1>8, <2>1
<1>9. CASE exc # None
  <2>1. k \in 1 .. q BY <1>2, <1>9
  <2>. QED BY <1>1, <1>6, <1>7, <1>9, <2>1
<1>. QED BY <1>8, <1>9

LEMMA PutsCount ==
    ASSUME DataInv
    PROVE  Cardinality(Puts) = sent - Through
<1>. DEFINE M == Through + 1 .. sent
            f == [i \in Puts |-> scheduled[i].item]
<1>. PICK n \in Nat : n = Len(scheduled) BY Numbers DEF DataInv
<1>1. Through \in Int /\ sent \in Nat /\ Through <= sent
  BY Numbers DEF DataInv, StreamInv, ScheduleInv
<1>2. \A i : i \in Puts <=> i \in 1 .. n /\ IsPut(i) BY DEF Puts, IsPut
<1>3. f \in [Puts -> M] BY <1>2 DEF DataInv, StreamInv, ScheduleInv
<1>4. ASSUME NEW i \in Puts, NEW j \in Puts, f[i] = f[j] PROVE i = j
  <2>1. scheduled[i].item \in Int /\ scheduled[i].item = scheduled[j].item
    BY <1>2, <1>4, Numbers DEF DataInv
  <2>2. ~(i < j) /\ ~(j < i) BY <1>2, <2>1 DEF DataInv, StreamInv, ScheduleInv
  <2>. QED BY <1>2, <2>2
<1>5. ASSUME NEW m \in M PROVE \E i \in Puts : f[i] = m
  <2>1. PICK i \in 1 .. n : scheduled[i].item = m BY DEF DataInv, StreamInv, ScheduleInv
  <2>2. m # CLOSED
    <3>1. taken <= Through /\ taken \in Nat BY StreamBounds, Numbers DEF DataInv, StreamInv
    <3>. QED BY <1>1, <3>1 DEF CLOSED
  <2>3. i \in Puts BY <1>2, <2>1, <2>2 DEF IsPut
  <2>. QED BY <2>1, <2>3
<1>6. f \in Bijection(Puts, M)
  <2>1. \A i, j \in Puts : f[i] = f[j] => i = j BY <1>4
  <2>2. \A m \in M : \E i \in Puts : f[i] = m BY <1>5
  <2>. HIDE DEF f, M
  <2>. QED BY <1>3, <2>1, <2>2, Fun_IsBij
<1>7. ExistsBijection(M, Puts)
  <2>1. ExistsBijection(Puts, M) BY <1>6, Fun_ExistsBij
  <2>. QED BY <2>1, Fun_ExistsBijSymmetric
<1>8. IsFiniteSet(M) /\ Cardinality(M) = sent - Through
  <2>1. Through + 1 \in Int /\ sent \in Int BY <1>1
  <2>2. IsFiniteSet(M)
        /\ Cardinality(M) = IF Through + 1 > sent THEN 0 ELSE sent - (Through + 1) + 1
    BY <2>1, FS_Interval
  <2>. QED BY <1>1, <2>2
<1>. QED BY <1>7, <1>8, FS_Bijection

(* _size counts the messages between put() and a reader, whatever puts,    *)
(* gets, cancellations and closes are interleaved: get() never gives back  *)
(* a place for the end it took, put() never keeps one (_AsyncMailbox.put   *)
(* and get, asyncio.py).                                                   *)
THEOREM SizeCountsBacklog == Spec => []SizeIsBacklog
<1>1. ASSUME DataInv PROVE SizeIsBacklog
  <2>1. sent \in Nat /\ taken \in Nat /\ Through \in Int BY <1>1, Numbers DEF DataInv
  <2>. QED BY <1>1, <2>1, ItemsCount, PutsCount DEF SizeIsBacklog, DataInv, StreamInv, SizeInv
<1>. QED BY <1>1, InvIsInvariant, PTL

(* The mailbox of an asyncio connection implements the same pipe as the    *)
(* threaded one: callbacks and the end passed from getter to getter keep   *)
(* the order of the calls of put() and close(), and a get() cancelled at   *)
(* any await loses no message.                                             *)
THEOREM AsyncMailboxImplementsPipe == Spec => ImplementsPipe
<1>1. Init => ThePipe!Init BY DEF Init, ThePipe!Init
<1>2. DataInv /\ [Next]_vars => [ThePipe!Next]_(ThePipe!vars) BY DataStep
<1>. QED BY <1>1, <1>2, InvIsInvariant, PTL DEF Spec, ImplementsPipe, ThePipe!Spec
=============================================================================
