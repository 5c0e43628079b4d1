------------------------- MODULE HikeChannelProofs -------------------------
(***************************************************************************)
(* Proofs about HikeChannel for every set of threads, payloads, programs   *)
(* and every requested capacity.                                           *)
(***************************************************************************)
EXTENDS HikeChannel, Sequences, TLAPS

\* The ring has at least one slot, whatever capacity was asked for.
LEMMA RealCapPositive == RealCap \in Nat /\ RealCap > 0
  BY CapAssumption DEF RealCap

\* Advancing an index modulo the capacity is wrapping its successor.
LEMMA NextSlotWraps ==
  ASSUME NEW i \in Slots
  PROVE  NextSlot(i) = Wrap(i + 1) /\ NextSlot(i) \in Slots
<1> DEFINE n == RealCap
<1>1. n \in Nat /\ n > 0 /\ i \in 0 .. n - 1
  BY RealCapPositive DEF Slots
<1>2. CASE i + 1 = n
  <2>1. (i + 1) % n = 0
    BY <1>1, <1>2
  <2> QED BY <1>1, <1>2, <2>1 DEF NextSlot, Wrap, Slots
<1>3. CASE i + 1 < n
  <2>1. (i + 1) % n = i + 1
    BY <1>1, <1>3
  <2> QED BY <1>1, <1>3, <2>1 DEF NextSlot, Wrap, Slots
<1> QED BY <1>1, <1>2, <1>3

-----------------------------------------------------------------------------
(* The inductive invariant                                                 *)

IInv == TypeOK /\ ChannelInv

\* While a thread is inside, no other thread is.
LEMMA Alone ==
  ASSUME MutualExclusion, NEW t \in Threads, pc[t] \in Critical
  PROVE  \A u \in Threads : u # t => pc[u] \notin Critical
  BY DEF MutualExclusion, Inside

LEMMA InitIInv == Init => IInv
<1> SUFFICES ASSUME Init PROVE IInv
  OBVIOUS
<1> USE RealCapPositive DEF Init
<1>1. TypeOK
  BY DEF TypeOK, Slots, Ops, Places
<1>2. Inside = {}
  BY DEF Inside, Critical
<1>3. Placed /\ Loaded
  BY DEF Placed, Loaded, Waits
<1>4. Ring /\ Carried
  BY DEF Ring, Carried, Uncounted, At, Wrap
<1> QED BY <1>1, <1>2, <1>3, <1>4 DEF IInv, ChannelInv, MutualExclusion, LockWord

\* A step that leaves the ring and every operation between its two stores alone.
LEMMA QuietRing ==
  ASSUME TypeOK, Ring, Carried, UNCHANGED <<cnt, head, tail, buf>>,
         \A u \in Threads, o \in {"send", "recv"} :
           /\ At(u, o, "count")' <=> At(u, o, "count")
           /\ At(u, o, "count") => val'[u] = val[u]
  PROVE  (Ring /\ Carried)'
<1>1. Uncounted' = Uncounted /\ Oldest' = Oldest
  BY DEF Uncounted, Oldest
<1> QED BY <1>1 DEF Ring, Carried

LEMMA CallIInv ==
  ASSUME IInv, NEW t \in Threads, CallSend(t) \/ CallRecv(t) \/ CallClose(t)
  PROVE  IInv'
<1> USE DEF IInv, ChannelInv, CallSend, CallRecv, CallClose, Call, Goto, chan
<1>1. TypeOK'
  BY ZeroAssumption DEF TypeOK, Ops, Places
<1>2. Inside' = Inside
  BY DEF TypeOK, Inside, Critical
<1>3. (MutualExclusion /\ LockWord)'
  BY <1>2 DEF MutualExclusion, LockWord
<1>4. Placed'
  BY DEF TypeOK, Placed, Waits
<1>5. Loaded'
  BY DEF TypeOK, Loaded
<1>6. (Ring /\ Carried)'
  BY QuietRing DEF TypeOK, At
<1> QED BY <1>1, <1>3, <1>4, <1>5, <1>6

LEMMA AcquireIInv ==
  ASSUME IInv, NEW t \in Threads, Acquire(t)
  PROVE  IInv'
<1> USE DEF IInv, ChannelInv, Acquire, Goto, chan
<1>1. TypeOK'
  BY DEF TypeOK, Places, Critical
<1>2. Inside = {} /\ Inside' = {t}
  BY DEF TypeOK, LockWord, Inside, Critical
<1>3. (MutualExclusion /\ LockWord)'
  BY <1>2 DEF MutualExclusion, LockWord
<1>4. Placed'
  BY DEF TypeOK, Placed, Waits
<1>5. Loaded'
  BY DEF TypeOK, Loaded
<1>6. (Ring /\ Carried)'
  BY QuietRing DEF TypeOK, At
<1> QED BY <1>1, <1>3, <1>4, <1>5, <1>6

LEMMA UnlockIInv ==
  ASSUME IInv, NEW t \in Threads, UnlockReturn(t) \/ UnlockPark(t)
  PROVE  IInv'
<1> USE DEF IInv, ChannelInv, UnlockReturn, UnlockPark, Goto, chan
<1>1. TypeOK'
  BY RealCapPositive DEF TypeOK, Places, Waits, Ops
<1>2. Inside' = {}
  <2>1. pc[t] \in Critical
    BY DEF Critical
  <2> QED BY <2>1, Alone DEF TypeOK, Inside, Critical, Waits
<1>3. (MutualExclusion /\ LockWord)'
  BY <1>2 DEF MutualExclusion, LockWord
<1>4. Placed'
  BY DEF TypeOK, Placed, Waits
<1>5. Loaded'
  BY DEF TypeOK, Loaded
<1>6. (Ring /\ Carried)'
  BY QuietRing DEF TypeOK, At
<1> QED BY <1>1, <1>3, <1>4, <1>5, <1>6

LEMMA EventIInv ==
  ASSUME IInv, NEW t \in Threads, TestEvent(t) \/ Timeout(t) \/ SpuriousWakeup(t)
  PROVE  IInv'
<1> USE DEF IInv, ChannelInv, TestEvent, Timeout, SpuriousWakeup, Goto, chan
<1>1. TypeOK'
  BY DEF TypeOK, Places, Waits
<1>2. Inside' = Inside
  BY DEF TypeOK, Inside, Critical
<1>3. (MutualExclusion /\ LockWord)'
  BY <1>2 DEF MutualExclusion, LockWord
<1>4. Placed'
  BY DEF TypeOK, Placed, Waits
<1>5. Loaded'
  BY DEF TypeOK, Loaded
<1>6. (Ring /\ Carried)'
  BY QuietRing DEF TypeOK, At
<1> QED BY <1>1, <1>3, <1>4, <1>5, <1>6

LEMMA CheckIInv ==
  ASSUME IInv, NEW t \in Threads, SendCheck(t) \/ RecvCheck(t) \/ CloseSet(t)
  PROVE  IInv'
<1> USE DEF IInv, ChannelInv, SendCheck, RecvCheck, CloseSet, SendOutcome, RecvOutcome,
            HasRoom, HasData, Goto, chan, At
<1>1. TypeOK'
  BY DEF TypeOK, Places, Critical
<1>2. Inside' = Inside
  BY DEF TypeOK, Inside, Critical
<1>3. (MutualExclusion /\ LockWord)'
  BY <1>2 DEF MutualExclusion, LockWord
<1>4. Placed'
  BY DEF TypeOK, Placed, Waits
<1>5. Loaded'
  <2>1. pc[t] \in Critical
    BY DEF Critical
  <2> QED BY <2>1, Alone DEF TypeOK, Loaded, Critical
<1>6. (Ring /\ Carried)'
  BY QuietRing DEF TypeOK, At
<1> QED BY <1>1, <1>3, <1>4, <1>5, <1>6

LEMMA SignalIInv ==
  ASSUME IInv, NEW t \in Threads,
         \/ SendSignal(t) \/ RecvSignal(t)
         \/ CloseSignalRecv(t) \/ CloseSignalSend(t)
  PROVE  IInv'
<1> USE DEF IInv, ChannelInv, chan
<1>1. PICK e \in {"recv", "send"}, next \in {"signal", "unlock"} :
        /\ pc[t] \in {"signal", "signalBoth"}
        /\ next = "signal" => op[t] = "close"
        /\ SignalEvent(t, e, next)
        /\ UNCHANGED <<lock, chan, op, reg, val>>
  BY DEF SendSignal, RecvSignal, CloseSignalRecv, CloseSignalSend, At
<1>2. /\ ev' = [ev EXCEPT ![e] = 1]
      /\ pc' \in [Threads -> Places]
      /\ pc'[t] = next
      /\ \A u \in Threads \ {t} : pc'[u] # pc[u] => pc[u] = "asleep" /\ pc'[u] = "woken"
  BY <1>1 DEF SignalEvent, Goto, Sleepers, TypeOK, Places, Critical, Waits
<1>3. TypeOK'
  BY <1>1, <1>2 DEF TypeOK
<1>4. Inside' = Inside
  BY <1>1, <1>2 DEF TypeOK, Inside, Critical
<1>5. (MutualExclusion /\ LockWord)'
  BY <1>1, <1>4 DEF MutualExclusion, LockWord
<1>6. Placed'
  BY <1>1, <1>2 DEF TypeOK, Placed, Waits
<1>7. Loaded'
  BY <1>1, <1>2 DEF TypeOK, Loaded
<1>8. (Ring /\ Carried)'
  BY <1>1, <1>2, QuietRing DEF TypeOK, At
<1> QED BY <1>3, <1>5, <1>6, <1>7, <1>8

\* The first store of an operation: what it owes the count begins.
LEMMA CopyIInv ==
  ASSUME IInv, NEW t \in Threads, SendCopy(t) \/ RecvCopy(t)
  PROVE  IInv'
<1> USE DEF IInv, ChannelInv
<1> USE RealCapPositive
<1>1. pc[t] = "copy" /\ \A u \in Threads : u # t => pc[u] \notin Critical
  BY Alone DEF SendCopy, RecvCopy, At, Critical
<1>2. pc' = [pc EXCEPT ![t] = "count"] /\ UNCHANGED <<lock, closed, cnt, ev, op, reg>>
  BY DEF SendCopy, RecvCopy, Goto
<1>3. NextSlot(head) = Wrap(head + 1) /\ NextSlot(tail) = Wrap(tail + 1)
      /\ NextSlot(head) \in Slots /\ NextSlot(tail) \in Slots
  BY NextSlotWraps DEF TypeOK
<1>4. TypeOK'
  BY <1>2, <1>3 DEF TypeOK, Places, Critical, SendCopy, RecvCopy
<1>5. Inside' = Inside
  BY <1>1, <1>2 DEF TypeOK, Inside, Critical
<1>6. (MutualExclusion /\ LockWord)'
  BY <1>2, <1>5 DEF MutualExclusion, LockWord
<1>7. Placed'
  BY <1>1, <1>2 DEF TypeOK, Placed, Waits
<1>8. Loaded'
  BY <1>1, <1>2 DEF TypeOK, Loaded
<1>9. Ring'
  <2>1. Uncounted = 0
    BY <1>1 DEF Uncounted, At, Critical
  <2>2. CASE SendCopy(t)
    <3>1. Uncounted' = 1
      BY <1>2, <2>2 DEF SendCopy, Uncounted, At, TypeOK
    <3>2. cnt < RealCap /\ head' = head /\ tail' = Wrap(tail + 1)
      BY <1>1, <1>3, <2>2 DEF SendCopy, Loaded, At
    <3> QED BY <1>2, <2>1, <3>1, <3>2 DEF Ring, Wrap, TypeOK, Slots
  <2>3. CASE RecvCopy(t)
    <3>1. Uncounted' = -1
      BY <1>1, <1>2, <2>3 DEF RecvCopy, Uncounted, At, TypeOK, Critical
    <3>2. cnt > 0 /\ tail' = tail /\ head' = Wrap(head + 1)
      BY <1>1, <1>3, <2>3 DEF RecvCopy, Loaded, At
    <3> QED BY <1>2, <2>1, <3>1, <3>2 DEF Ring, Wrap, TypeOK, Slots
  <2> QED BY <2>2, <2>3
<1>10. Carried'
  <2>1. \A u \in Threads : u # t => pc'[u] # "count"
    BY <1>1, <1>2 DEF TypeOK, Critical
  <2>2. CASE SendCopy(t)
    <3>1. tail = Wrap(head + cnt)
      <4>1. Uncounted = 0
        BY <1>1 DEF Uncounted, At, Critical
      <4> QED BY <4>1 DEF Ring, TypeOK, Slots
    <3> QED BY <1>2, <2>1, <2>2, <3>1 DEF SendCopy, Carried, At, TypeOK
  <2>3. CASE RecvCopy(t)
    <3>1. Oldest' = Wrap(head' + RealCap - 1)
      BY <1>2, <2>3 DEF RecvCopy, Oldest, At, TypeOK
    <3>2. Oldest' = head
      BY <1>3, <2>3, <3>1 DEF RecvCopy, TypeOK, Slots, Wrap
    <3> QED BY <1>2, <2>1, <2>3, <3>2 DEF RecvCopy, Carried, At, TypeOK
  <2> QED BY <2>2, <2>3
<1> QED BY <1>4, <1>6, <1>7, <1>8, <1>9, <1>10

\* The second store: what was owed is counted.
LEMMA CountIInv ==
  ASSUME IInv, NEW t \in Threads, SendCount(t) \/ RecvCount(t)
  PROVE  IInv'
<1> USE DEF IInv, ChannelInv
<1> USE RealCapPositive
<1>1. pc[t] = "count" /\ \A u \in Threads : u # t => pc[u] \notin Critical
  BY Alone DEF SendCount, RecvCount, At, Critical
<1>2. pc' = [pc EXCEPT ![t] = "signal"]
      /\ UNCHANGED <<lock, closed, head, tail, buf, ev, op, reg, val>>
  BY DEF SendCount, RecvCount, Goto
<1>3. /\ SendCount(t) => cnt < RealCap /\ cnt' = cnt + 1
      /\ RecvCount(t) => cnt > 0 /\ cnt' = cnt - 1
  BY <1>1 DEF SendCount, RecvCount, Loaded, At
<1>4. TypeOK'
  BY <1>2, <1>3 DEF TypeOK, Places, Critical
<1>5. Inside' = Inside
  BY <1>1, <1>2 DEF TypeOK, Inside, Critical
<1>6. (MutualExclusion /\ LockWord)'
  BY <1>2, <1>5 DEF MutualExclusion, LockWord
<1>7. Placed'
  BY <1>1, <1>2 DEF TypeOK, Placed, Waits
<1>8. Loaded'
  BY <1>1, <1>2 DEF TypeOK, Loaded, Critical
<1>9. Ring'
  <2>1. Uncounted' = 0
    BY <1>1, <1>2 DEF Uncounted, At, Critical, TypeOK
  <2>2. cnt' = cnt + Uncounted
    BY <1>1, <1>3 DEF Uncounted, At, Critical, TypeOK, SendCount, RecvCount
  <2>3. Uncounted \in {-1, 0, 1}
    BY DEF Uncounted
  <2> QED BY <1>2, <2>1, <2>2, <2>3 DEF Ring, TypeOK, Slots
<1>10. Carried'
  BY <1>1, <1>2 DEF TypeOK, Carried, At, Critical
<1> QED BY <1>4, <1>6, <1>7, <1>8, <1>9, <1>10

LEMMA NextIInv == IInv /\ [Next]_vars => IInv'
<1> SUFFICES ASSUME IInv, [Next]_vars PROVE IInv'
  OBVIOUS
<1>1. CASE UNCHANGED vars
  BY <1>1 DEF IInv, TypeOK, ChannelInv, MutualExclusion, LockWord, Placed, Loaded, Ring, Carried, Oldest,
              Uncounted, Inside, At, vars
<1>2. ASSUME NEW t \in Threads, Step(t)
      PROVE  IInv'
  BY <1>2, CallIInv, AcquireIInv, UnlockIInv, EventIInv, CheckIInv, CopyIInv, CountIInv,
     SignalIInv DEF Step, Continue
<1> QED BY <1>1, <1>2 DEF Next

\* Head and tail stay inside the buffer and the count within the capacity,
\* whatever the interleaving (the arithmetic of __hike_chan_send and _recv).
THEOREM ChannelTypes == Spec => []TypeOK
<1>1. IInv => TypeOK
  BY DEF IInv
<1> QED BY <1>1, InitIInv, NextIInv, PTL DEF Spec

\* In every reachable state one thread at most is inside the lock and the ring
\* is consistent at every step inside it (__hike_chan_send/_recv).
THEOREM ChannelSafe == Spec => []ChannelInv
<1>1. IInv => ChannelInv
  BY DEF IInv
<1> QED BY <1>1, InitIInv, NextIInv, PTL DEF Spec

-----------------------------------------------------------------------------
(* The refinement of FifoChannel                                           *)

AbsCall == [t \in Threads |-> CallOf(t)]

\* A step changes the abstract calls only where it changes what CallOf reads.
LEMMA SameCall ==
  ASSUME NEW u \in Threads, op'[u] = op[u], val'[u] = val[u],
         \/ pc'[u] = pc[u]
         \/ ~Decided(u) /\ ~Decided(u)'
  PROVE  CallOf(u)' = CallOf(u)
<1>1. CASE pc'[u] = pc[u]
  BY <1>1 DEF CallOf, Decided
<1>2. CASE ~Decided(u) /\ ~Decided(u)'
  BY <1>2 DEF CallOf, Decided
<1> QED BY <1>1, <1>2

LEMMA OneCall ==
  ASSUME NEW t \in Threads, NEW c, CallOf(t)' = c,
         \A u \in Threads \ {t} : CallOf(u)' = CallOf(u)
  PROVE  AbsCall' = [AbsCall EXCEPT ![t] = c]
  BY DEF AbsCall

LEMMA NoCall ==
  ASSUME \A u \in Threads : CallOf(u)' = CallOf(u)
  PROVE  AbsCall' = AbsCall
  BY DEF AbsCall

\* The queue is the same while the ring is and no receiver is between its stores.
LEMMA SameContents ==
  ASSUME UNCHANGED <<cnt, head, buf>>,
         \A u \in Threads : At(u, "recv", "count")' <=> At(u, "recv", "count")
  PROVE  Contents' = Contents
<1>1. Oldest' = Oldest
  BY DEF Oldest
<1> QED BY <1>1 DEF Contents

LEMMA InitRefines == Init => Fifo!AbsInit
<1> SUFFICES ASSUME Init PROVE Fifo!AbsInit
  OBVIOUS
<1>1. Contents = << >>
  BY DEF Init, Contents
<1>2. closed # 1
  BY DEF Init
<1>3. \A t \in Threads : CallOf(t) = [kind |-> "none", val |-> Zero]
  BY DEF Init, CallOf, Progress
<1> QED BY <1>1, <1>2, <1>3 DEF Fifo!AbsInit, Fifo!Idle, Fifo!Call

LEMMA CallRefines ==
  ASSUME IInv, NEW t \in Threads, CallSend(t) \/ CallRecv(t) \/ CallClose(t)
  PROVE  Fifo!Invoke(t)
<1> USE DEF IInv, ChannelInv, CallSend, CallRecv, CallClose, Call, Goto, chan
<1>1. Contents' = Contents
  BY SameContents DEF At, TypeOK
<1>2. \A u \in Threads \ {t} : CallOf(u)' = CallOf(u)
  BY SameCall DEF TypeOK
<1>3. CallOf(t) = [kind |-> "none", val |-> Zero]
  BY DEF Placed, CallOf, Progress
<1>4. \/ \E v \in Values : CallOf(t)' = [kind |-> "send", val |-> v]
      \/ CallOf(t)' = [kind |-> "recv", val |-> Zero]
      \/ CallOf(t)' = [kind |-> "close", val |-> Zero]
  <2>1. pc'[t] = "lock"
    BY DEF TypeOK
  <2>2. CASE CallSend(t)
    BY <2>1, <2>2 DEF CallOf, Progress, Decided, TypeOK
  <2>3. CASE CallRecv(t)
    BY <2>1, <2>3 DEF CallOf, Progress, Decided, TypeOK
  <2>4. CASE CallClose(t)
    BY <2>1, <2>4 DEF CallOf, Progress, Decided, TypeOK
  <2> QED BY <2>2, <2>3, <2>4
<1> QED BY <1>1, <1>2, <1>3, <1>4, OneCall
        DEF Fifo!Invoke, Fifo!Becomes, Fifo!Call, Fifo!Idle, AbsCall

\* The steps that only move threads between places of one phase.
LEMMA MoveRefines ==
  ASSUME IInv, NEW t \in Threads,
         \/ Acquire(t) \/ UnlockPark(t)
         \/ TestEvent(t) \/ Timeout(t) \/ SpuriousWakeup(t)
         \/ SendSignal(t) \/ RecvSignal(t) \/ CloseSignalRecv(t) \/ CloseSignalSend(t)
  PROVE  UNCHANGED Fifo!absVars
<1> USE DEF IInv, ChannelInv, chan
<1>1. UNCHANGED <<chan, op, val>>
  BY DEF Acquire, UnlockPark, TestEvent, Timeout, SpuriousWakeup, SendSignal, RecvSignal,
         CloseSignalRecv, CloseSignalSend
<1>2. \A u \in Threads :
        /\ Decided(u)' <=> Decided(u)
        /\ pc'[u] = "quit" <=> pc[u] = "quit"
        /\ pc'[u] = "count" <=> pc[u] = "count"
  BY DEF TypeOK, Decided, Acquire, UnlockPark, TestEvent, Timeout, SpuriousWakeup, SendSignal,
         RecvSignal, CloseSignalRecv, CloseSignalSend, SignalEvent, Sleepers, Goto, At
<1>3. Contents' = Contents
  BY <1>1, <1>2, SameContents DEF At
<1>4. \A u \in Threads : CallOf(u)' = CallOf(u)
  BY <1>1, <1>2 DEF CallOf
<1> QED BY <1>1, <1>3, <1>4, NoCall DEF Fifo!absVars, AbsCall

LEMMA ReturnRefines ==
  ASSUME IInv, NEW t \in Threads, UnlockReturn(t)
  PROVE  Fifo!Return(t)
<1> USE DEF IInv, ChannelInv, UnlockReturn, Goto, chan
<1>1. Contents' = Contents
  BY SameContents DEF At, TypeOK
<1>2. \A u \in Threads \ {t} : CallOf(u)' = CallOf(u)
  BY SameCall DEF TypeOK
<1>3. CallOf(t).kind \in {"sent", "dropped", "got", "done"}
  BY DEF CallOf, Progress, Decided, Placed, TypeOK, Ops
<1>4. CallOf(t)' = [kind |-> "none", val |-> Zero]
  BY DEF CallOf, Progress, TypeOK
<1> QED BY <1>1, <1>2, <1>3, <1>4, OneCall
        DEF Fifo!Return, Fifo!Becomes, Fifo!Call, Fifo!Idle, AbsCall

LEMMA SendCheckRefines ==
  ASSUME IInv, NEW t \in Threads, SendCheck(t)
  PROVE  Fifo!Drop(t) \/ UNCHANGED Fifo!absVars
<1> USE DEF IInv, ChannelInv, SendCheck, SendOutcome, At, Goto, chan
<1>1. Contents' = Contents
  BY SameContents DEF TypeOK
<1>2. \A u \in Threads \ {t} : CallOf(u)' = CallOf(u)
  BY SameCall DEF TypeOK
<1>3. CallOf(t) = [kind |-> "send", val |-> val[t]]
  BY DEF CallOf, Progress, Decided
<1>4. CASE closed = 1
  <2>1. CallOf(t)' = [kind |-> "dropped", val |-> Zero]
    BY <1>4 DEF CallOf, Progress, TypeOK
  <2> QED BY <1>1, <1>2, <1>3, <1>4, <2>1, OneCall
          DEF Fifo!Drop, Fifo!Becomes, Fifo!Call, AbsCall
<1>5. CASE closed # 1
  <2>1. CallOf(t)' = CallOf(t)
    BY <1>3, <1>5 DEF CallOf, Progress, Decided, TypeOK
  <2> QED BY <1>1, <1>2, <2>1, NoCall DEF Fifo!absVars, AbsCall
<1> QED BY <1>4, <1>5

LEMMA RecvCheckRefines ==
  ASSUME IInv, NEW t \in Threads, RecvCheck(t)
  PROVE  Fifo!TakeZero(t) \/ UNCHANGED Fifo!absVars
<1> USE DEF IInv, ChannelInv, RecvCheck, RecvOutcome, HasData, At, Goto, chan
<1>1. Contents' = Contents
  BY SameContents DEF TypeOK
<1>2. \A u \in Threads \ {t} : CallOf(u)' = CallOf(u)
  BY SameCall DEF TypeOK
<1>3. CallOf(t) = [kind |-> "recv", val |-> Zero]
  BY DEF CallOf, Progress, Decided
<1>4. CASE RecvOutcome = "quit"
  <2>1. CallOf(t)' = [kind |-> "got", val |-> Zero]
    BY <1>4 DEF CallOf, Progress, Decided, TypeOK
  <2>2. Contents = << >> /\ closed = 1
    BY <1>4 DEF Contents, TypeOK
  <2> QED BY <1>1, <1>2, <1>3, <2>1, <2>2, OneCall
          DEF Fifo!TakeZero, Fifo!Becomes, Fifo!Call, AbsCall
<1>5. CASE RecvOutcome # "quit"
  <2>1. CallOf(t)' = CallOf(t)
    BY <1>3, <1>5 DEF CallOf, Progress, Decided, TypeOK
  <2> QED BY <1>1, <1>2, <2>1, NoCall DEF Fifo!absVars, AbsCall
<1> QED BY <1>4, <1>5

LEMMA CloseRefines ==
  ASSUME IInv, NEW t \in Threads, CloseSet(t)
  PROVE  Fifo!Shut(t)
<1> USE DEF IInv, ChannelInv, CloseSet, At, Goto, chan
<1>1. Contents' = Contents
  BY SameContents DEF TypeOK
<1>2. \A u \in Threads \ {t} : CallOf(u)' = CallOf(u)
  BY SameCall DEF TypeOK
<1>3. CallOf(t) = [kind |-> "close", val |-> Zero]
  BY DEF CallOf, Progress, Decided
<1>4. CallOf(t)' = [kind |-> "done", val |-> Zero]
  BY DEF CallOf, Progress, Decided, TypeOK
<1> QED BY <1>1, <1>2, <1>3, <1>4, OneCall DEF Fifo!Shut, Fifo!Becomes, Fifo!Call, AbsCall

\* Neither first store shows: a sender writes a slot that holds no queued
\* value, a receiver's head moves while the count still includes its value.
LEMMA CopyRefines ==
  ASSUME IInv, NEW t \in Threads, SendCopy(t) \/ RecvCopy(t)
  PROVE  UNCHANGED Fifo!absVars
<1> USE DEF IInv, ChannelInv
<1> USE RealCapPositive
<1>1. pc[t] = "copy" /\ \A u \in Threads : u # t => pc[u] \notin Critical
  BY Alone DEF SendCopy, RecvCopy, At, Critical
<1>2. pc' = [pc EXCEPT ![t] = "count"] /\ UNCHANGED <<closed, cnt, op>>
  BY DEF SendCopy, RecvCopy, Goto
<1>3. Oldest = head /\ Uncounted = 0
  BY <1>1 DEF Oldest, Uncounted, At, Critical
<1>4. \A u \in Threads : CallOf(u)' = CallOf(u)
  <2>1. \A u \in Threads \ {t} : val'[u] = val[u] /\ pc'[u] = pc[u]
    BY <1>2 DEF SendCopy, RecvCopy, TypeOK
  <2>2. CallOf(t)' = CallOf(t)
    BY <1>1, <1>2 DEF SendCopy, RecvCopy, At, CallOf, Progress, Decided, TypeOK
  <2> QED BY <1>2, <2>1, <2>2, SameCall
<1>5. Contents' = Contents
  <2>1. CASE SendCopy(t)
    <3>1. Oldest' = head
      BY <1>1, <1>2, <1>3, <2>1 DEF SendCopy, Oldest, At, TypeOK, Critical
    <3>2. \A i \in 1 .. cnt : Wrap(head + i - 1) \in Slots /\ Wrap(head + i - 1) # tail
      BY <1>1, <1>3, <2>1 DEF SendCopy, At, Ring, Loaded, Wrap, TypeOK, Slots
    <3>3. \A i \in 1 .. cnt : buf'[Wrap(head + i - 1)] = buf[Wrap(head + i - 1)]
      BY <2>1, <3>2 DEF SendCopy, TypeOK
    <3> QED BY <1>2, <1>3, <3>1, <3>3 DEF Contents
  <2>2. CASE RecvCopy(t)
    <3>1. Oldest' = Wrap(head' + RealCap - 1)
      BY <1>2, <2>2 DEF RecvCopy, Oldest, At, TypeOK
    <3>2. head' = Wrap(head + 1)
      BY <2>2, NextSlotWraps DEF RecvCopy, TypeOK
    <3>3. Oldest' = head
      BY <3>1, <3>2 DEF Wrap, TypeOK, Slots
    <3> QED BY <1>2, <1>3, <2>2, <3>3 DEF RecvCopy, Contents
  <2> QED BY <2>1, <2>2
<1> QED BY <1>2, <1>4, <1>5, NoCall DEF Fifo!absVars, AbsCall

LEMMA SendCountRefines ==
  ASSUME IInv, IInv', NEW t \in Threads, SendCount(t)
  PROVE  Fifo!Accept(t)
<1> USE DEF IInv, ChannelInv
<1> USE RealCapPositive
<1>1. pc[t] = "count" /\ \A u \in Threads : u # t => pc[u] \notin Critical
  BY Alone DEF SendCount, At, Critical
<1>2. Oldest = head /\ Oldest' = head
  BY <1>1 DEF SendCount, Goto, Oldest, At, Critical, TypeOK
<1>3. cnt < RealCap /\ cnt' = cnt + 1 /\ buf[Wrap(head + cnt)] = val[t]
  BY DEF SendCount, At, Loaded, Carried
<1>4. Contents' = Append(Contents, val[t])
  <2>1. Contents' = [i \in 1 .. cnt + 1 |-> buf[Wrap(head + i - 1)]]
    BY <1>2, <1>3 DEF SendCount, Contents
  <2>2. Contents = [i \in 1 .. cnt |-> buf[Wrap(head + i - 1)]]
    BY <1>2 DEF Contents
  <2>3. cnt \in Nat /\ head \in Nat
    BY DEF TypeOK, Slots
  <2> QED BY <1>3, <2>1, <2>2, <2>3
<1>5. Len(Contents) = cnt
  BY DEF Contents, TypeOK
<1>6. \A u \in Threads \ {t} : CallOf(u)' = CallOf(u)
  BY SameCall DEF SendCount, Goto, TypeOK
<1>7. CallOf(t) = [kind |-> "send", val |-> val[t]]
  BY DEF SendCount, At, CallOf, Progress, Decided
<1>8. CallOf(t)' = [kind |-> "sent", val |-> Zero]
  BY DEF SendCount, At, Goto, CallOf, Progress, Decided, TypeOK
<1>9. closed # 1
  BY <1>1 DEF SendCount, At, Loaded
<1> QED BY <1>3, <1>4, <1>5, <1>6, <1>7, <1>8, <1>9, OneCall
        DEF SendCount, Fifo!Accept, Fifo!Becomes, Fifo!Call, AbsCall

LEMMA RecvCountRefines ==
  ASSUME IInv, IInv', NEW t \in Threads, RecvCount(t)
  PROVE  Fifo!Take(t)
<1> USE DEF IInv, ChannelInv
<1> USE RealCapPositive
<1>1. pc[t] = "count" /\ \A u \in Threads : u # t => pc[u] \notin Critical
  BY Alone DEF RecvCount, At, Critical
<1>2. Oldest = Wrap(head + RealCap - 1) /\ Oldest' = head
  BY <1>1 DEF RecvCount, Goto, Oldest, At, Critical, TypeOK
<1>3. cnt > 0 /\ cnt' = cnt - 1 /\ buf[Oldest] = val[t]
  BY DEF RecvCount, At, Loaded, Carried
<1>4. Contents # << >> /\ Head(Contents) = val[t] /\ Contents' = Tail(Contents)
  <2>1. Contents' = [i \in 1 .. cnt - 1 |-> buf[Wrap(head + i - 1)]]
    BY <1>2, <1>3 DEF RecvCount, Contents
  <2>2. \A i \in 1 .. cnt - 1 : Wrap(Oldest + (i + 1) - 1) = Wrap(head + i - 1)
    BY <1>2, <1>3 DEF TypeOK, Slots, Wrap
  <2>3. cnt \in Nat /\ Wrap(Oldest + 1 - 1) = Oldest
    BY <1>2 DEF TypeOK, Slots, Wrap
  <2>4. Len(Contents) = cnt /\ Contents[1] = val[t]
    BY <1>3, <2>3 DEF Contents
  <2> QED BY <1>3, <2>1, <2>2, <2>3, <2>4 DEF Contents
<1>5. \A u \in Threads \ {t} : CallOf(u)' = CallOf(u)
  BY SameCall DEF RecvCount, Goto, TypeOK
<1>6. CallOf(t) = [kind |-> "recv", val |-> Zero]
  BY DEF RecvCount, At, CallOf, Progress, Decided
<1>7. CallOf(t)' = [kind |-> "got", val |-> val[t]]
  BY DEF RecvCount, At, Goto, CallOf, Progress, Decided, TypeOK
<1> QED BY <1>4, <1>5, <1>6, <1>7, OneCall
        DEF RecvCount, Fifo!Take, Fifo!Becomes, Fifo!Call, AbsCall

LEMMA StepRefines == IInv /\ IInv' /\ [Next]_vars => [Fifo!AbsNext]_(Fifo!absVars)
<1> SUFFICES ASSUME IInv, IInv', [Next]_vars PROVE [Fifo!AbsNext]_(Fifo!absVars)
  OBVIOUS
<1>1. CASE UNCHANGED vars
  <2>1. Contents' = Contents
    BY <1>1, SameContents DEF vars, At
  <2>2. \A u \in Threads : CallOf(u)' = CallOf(u)
    BY <1>1, SameCall DEF vars
  <2> QED BY <1>1, <2>1, <2>2, NoCall DEF vars, Fifo!absVars, AbsCall
<1>2. ASSUME NEW t \in Threads, Step(t)
      PROVE  [Fifo!AbsNext]_(Fifo!absVars)
  <2>1. \/ Fifo!Invoke(t) \/ Fifo!Accept(t) \/ Fifo!Drop(t) \/ Fifo!Take(t)
        \/ Fifo!TakeZero(t) \/ Fifo!Shut(t) \/ Fifo!Return(t)
        \/ UNCHANGED Fifo!absVars
    BY <1>2, CallRefines, MoveRefines, ReturnRefines, SendCheckRefines, RecvCheckRefines,
       CloseRefines, CopyRefines, SendCountRefines, RecvCountRefines DEF Step, Continue
  <2> QED BY <2>1 DEF Fifo!AbsNext
<1> QED BY <1>1, <1>2 DEF Next

\* The channel of the runtime implements the linearizable bounded queue, for
\* every number of threads, every payload set and every requested capacity.
THEOREM ChannelLinearizable == Spec => Linearizable
<1>1. Spec => []IInv
  BY InitIInv, NextIInv, PTL DEF Spec
<1> QED BY <1>1, InitRefines, StepRefines, PTL DEF Spec, Linearizable, Fifo!AbsSpec
=============================================================================
