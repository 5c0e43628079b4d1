------------------------ MODULE HikeEventLoopProofs ------------------------
(***************************************************************************)
(* Proofs about HikeEventLoop for every set of workers, every capacity of  *)
(* the queue and every number of calls and of runs.                        *)
(***************************************************************************)
EXTENDS HikeEventLoop, TLAPS

USE MainAssumption, BoundsAssumption DEF Threads, Calls, NoCall

-----------------------------------------------------------------------------
(* The inductive invariant                                                 *)

\* What is known of a call from its number and its reply.
Known ==
  \A c \in Calls :
    /\ state[c] = None <=> c > made
    /\ c <= made => caller[c] \in Threads /\ kind[c] \in Kinds
    /\ resCh[c] # "empty" => state[c] = "done"

\* A thread is in one call at a time, and a call that is neither waiting in
\* the queue nor over is in the hands of its caller or of Run, never of both.
Held ==
  /\ \A c \in Calls :
       /\ state[c] = "made" =>
            cur[caller[c]] = c /\ pc[caller[c]] \in {"test", "send"}
       /\ state[c] = "running" =>
            c = current \/ (cur[caller[c]] = c /\ pc[caller[c]] = "evaluate")
  /\ \A t \in Threads :
       /\ pc[t] \in {"test", "send"} => state[cur[t]] = "made" /\ caller[cur[t]] = t
       /\ pc[t] = "evaluate" =>
            state[cur[t]] = "running" /\ caller[cur[t]] = t /\ cur[t] # current
       /\ pc[t] \in {"test", "evaluate"} => kind[cur[t]] = "invoke"
  /\ current # NoCall => state[current] = "running"

Waiting ==
  /\ \A c \in Calls : state[c] = "queued" <=> \E i \in 1 .. Len(queue) : queue[i] = c
  /\ \A i, j \in 1 .. Len(queue) : queue[i] = queue[j] => i = j

\* What the caller of a waiting closure has called before is over, being
\* evaluated by Run, or waits further ahead.
InOrder ==
  \A j \in 1 .. Len(queue) : \A c \in Calls :
    c < queue[j] /\ caller[c] = caller[queue[j]] =>
      state[c] = "done" \/ c = current \/ \E i \in 1 .. j - 1 : queue[i] = c

\* StopDrains from the moment Run takes up the stop.
Drained ==
  \A s \in Calls : kind[s] = "stop" /\ state[s] \in {"running", "done"} =>
    \A c \in Calls : c < s /\ caller[c] = caller[s] => state[c] = "done"

IInv == TypeOK /\ Known /\ Held /\ Waiting /\ InOrder /\ Drained

-----------------------------------------------------------------------------
(* The queue                                                               *)

LEMMA AppendToQueue ==
  ASSUME NEW q \in Seq(Calls), NEW c \in Calls
  PROVE  /\ Append(q, c) \in Seq(Calls)
         /\ Len(q) \in Nat /\ Len(Append(q, c)) = Len(q) + 1
         /\ \A i \in 1 .. Len(q) : Append(q, c)[i] = q[i]
         /\ Append(q, c)[Len(q) + 1] = c
  OBVIOUS

LEMMA TakeFromQueue ==
  ASSUME NEW q \in Seq(Calls), q # << >>
  PROVE  /\ Tail(q) \in Seq(Calls) /\ Head(q) \in Calls /\ Head(q) = q[1]
         /\ Len(q) \in Nat \ {0} /\ Len(Tail(q)) = Len(q) - 1
         /\ \A i \in 1 .. Len(q) - 1 : Tail(q)[i] = q[i + 1]
  OBVIOUS

LEMMA QueueElements ==
  ASSUME TypeOK
  PROVE  Len(queue) \in Nat /\ \A i \in 1 .. Len(queue) : queue[i] \in Calls
  BY DEF TypeOK

LEMMA InitIInv == Init => IInv
<1> SUFFICES ASSUME Init PROVE IInv
  OBVIOUS
<1> USE DEF Init, None
<1>1. Capacity \in Nat
  BY DEF Capacity
<1>2. queue \in Seq(Calls) /\ Len(queue) = 0
  OBVIOUS
<1>3. TypeOK
  BY <1>1, <1>2 DEF TypeOK
<1>4. Known /\ Held /\ Waiting /\ InOrder /\ Drained
  BY <1>2 DEF Known, Held, Waiting, InOrder, Drained
<1> QED BY <1>3, <1>4 DEF IInv

-----------------------------------------------------------------------------
(* One lemma per kind of step                                              *)

LEMMA CallIInv ==
  ASSUME IInv, NEW t \in Threads, Post(t) \/ Stop(t) \/ InvokeCh(t)
  PROVE  IInv'
<1>1. PICK k \in Kinds, place \in {"send", "test"} :
        MakeCall(t, k, place) /\ (place = "test" => k = "invoke")
  BY DEF Post, Stop, InvokeCh, Kinds
<1>2. UNCHANGED <<queue, running, loop, current, runs, resCh>>
  BY DEF Post, Stop, InvokeCh
<1> DEFINE n == made + 1
<1>3. /\ n \in Calls /\ made' = n /\ pc[t] = "user"
      /\ kind' = [kind EXCEPT ![n] = k]
      /\ caller' = [caller EXCEPT ![n] = t]
      /\ state' = [state EXCEPT ![n] = "made"]
      /\ cur' = [cur EXCEPT ![t] = n]
      /\ pc' = [pc EXCEPT ![t] = place]
  BY <1>1 DEF MakeCall, InUserCode, Becomes, Goto, IInv, TypeOK
<1>4. state[n] = None /\ \A c \in Calls \ {n} : c > n <=> c > made
  BY <1>3 DEF IInv, TypeOK, Known
<1> HIDE DEF n
<1>5. TypeOK'
  BY <1>2, <1>3 DEF IInv, TypeOK, n
<1>6. Known'
  <2> SUFFICES ASSUME NEW c \in Calls
               PROVE  /\ state'[c] = None <=> c > made'
                      /\ c <= made' => caller'[c] \in Threads /\ kind'[c] \in Kinds
                      /\ resCh'[c] # "empty" => state'[c] = "done"
    BY DEF Known
  <2>1. CASE c = n
    BY <1>1, <1>2, <1>3, <1>4, <2>1 DEF IInv, TypeOK, Known, None
  <2>2. CASE c # n
    <3>1. c <= made' <=> c <= made
      BY <1>3, <1>4, <2>2 DEF IInv, TypeOK, n
    <3>2. c > made' <=> c > made
      BY <1>3, <1>4, <2>2 DEF IInv, TypeOK, n
    <3> QED BY <1>2, <1>3, <2>2, <3>1, <3>2 DEF IInv, TypeOK, Known
  <2> QED BY <2>1, <2>2
<1>7. Held'
  <2>1. ASSUME NEW c \in Calls
        PROVE  /\ state'[c] = "made" =>
                    cur'[caller'[c]] = c /\ pc'[caller'[c]] \in {"test", "send"}
               /\ state'[c] = "running" =>
                    c = current \/ (cur'[caller'[c]] = c /\ pc'[caller'[c]] = "evaluate")
    <3>1. CASE c = n
      BY <1>3, <3>1 DEF IInv, TypeOK
    <3>2. CASE c # n
      <4>1. state'[c] = state[c] /\ caller'[c] = caller[c]
        BY <1>3, <3>2 DEF IInv, TypeOK
      <4>2. state[c] \in {"made", "running"} => caller[c] \in Threads
        BY DEF IInv, TypeOK, Known, None
      <4>3. caller[c] = t => state[c] \notin {"made", "running"} \/ c = current
        BY <1>3 DEF IInv, Held
      <4> QED BY <1>3, <4>1, <4>2, <4>3 DEF IInv, TypeOK, Held
    <3> QED BY <3>1, <3>2
  <2>2. current # n
    BY <1>3, <1>4 DEF IInv, Held, None
  <2>3. ASSUME NEW u \in Threads
        PROVE  /\ pc'[u] \in {"test", "send"} => state'[cur'[u]] = "made" /\ caller'[cur'[u]] = u
               /\ pc'[u] = "evaluate" =>
                    state'[cur'[u]] = "running" /\ caller'[cur'[u]] = u /\ cur'[u] # current
               /\ pc'[u] \in {"test", "evaluate"} => kind'[cur'[u]] = "invoke"
    <3>1. CASE u = t
      BY <1>1, <1>3, <3>1 DEF IInv, TypeOK
    <3>2. CASE u # t
      <4>1. pc'[u] = pc[u] /\ cur'[u] = cur[u]
        BY <1>3, <3>2 DEF IInv, TypeOK
      <4>2. pc[u] \in {"test", "send", "evaluate"} => cur[u] \in Calls \ {n}
        BY <1>4 DEF IInv, TypeOK, Held, None
      <4> QED BY <1>3, <4>1, <4>2 DEF IInv, TypeOK, Held
    <3> QED BY <3>1, <3>2
  <2>4. current # NoCall => state'[current] = "running"
    BY <1>3, <2>2 DEF IInv, TypeOK, Held
  <2> QED BY <1>2, <2>1, <2>3, <2>4 DEF Held
<1>8. \A i \in 1 .. Len(queue) : queue[i] \in Calls /\ queue[i] # n /\ queue[i] < n
  <2> SUFFICES ASSUME NEW i \in 1 .. Len(queue)
               PROVE  queue[i] \in Calls /\ queue[i] # n /\ queue[i] < n
    OBVIOUS
  <2>1. queue[i] \in Calls
    BY QueueElements DEF IInv
  <2>2. state[queue[i]] = "queued"
    BY <2>1 DEF IInv, Waiting
  <2>3. ~(queue[i] > made) /\ made \in Nat
    BY <2>1, <2>2 DEF IInv, TypeOK, Known, None
  <2> QED BY <2>1, <2>3 DEF n
<1>9. Waiting'
  <2>1. \A c \in Calls : state'[c] = "queued" <=> state[c] = "queued"
    BY <1>3, <1>4 DEF IInv, TypeOK, None
  <2> QED BY <1>2, <2>1 DEF IInv, Waiting
<1>10. InOrder'
  <2>1. \A j \in 1 .. Len(queue) : \A c \in Calls : c < queue[j] =>
          c # n /\ caller'[c] = caller[c] /\ caller'[queue[j]] = caller[queue[j]]
                /\ state'[c] = state[c]
    BY <1>3, <1>8 DEF IInv, TypeOK
  <2> QED BY <1>2, <2>1 DEF IInv, InOrder
<1>11. Drained'
  <2>1. \A s \in Calls : state'[s] \in {"running", "done"} =>
          /\ s # n /\ s < n /\ state'[s] = state[s] /\ kind'[s] = kind[s] /\ caller'[s] = caller[s]
          /\ \A c \in Calls : c < s =>
               c # n /\ caller'[c] = caller[c] /\ state'[c] = state[c]
    BY <1>3, <1>4 DEF IInv, TypeOK, Known, None, n
  <2> QED BY <2>1 DEF IInv, Drained
<1> QED BY <1>5, <1>6, <1>7, <1>9, <1>10, <1>11 DEF IInv

\* The steps that touch neither the queue nor the state of a closure.
LEMMA PassiveIInv ==
  ASSUME IInv,
         \/ \E t \in Threads : Reply(t) \/ \E c \in Calls : Await(t, c)
         \/ StartRun \/ LoopTest
  PROVE  IInv'
<1> USE DEF Reply, Await, StartRun, LoopTest, InUserCode, Goto, Return, callVars
<1>1. UNCHANGED <<queue, current, made, kind, caller, state>>
  OBVIOUS
<1>2. TypeOK'
  <2>1. ASSUME NEW t \in Threads, Reply(t) PROVE TypeOK'
    <3>1. /\ pc' = [pc EXCEPT ![t] = "user"] /\ cur' = [cur EXCEPT ![t] = NoCall]
          /\ resCh' = [resCh EXCEPT ![cur[t]] = "taken"]
          /\ UNCHANGED <<running, loop, runs>>
      BY <2>1
    <3> HIDE DEF Reply
    <3> QED BY <1>1, <3>1 DEF IInv, TypeOK
  <2>2. ASSUME NEW t \in Threads, NEW c \in Calls, Await(t, c) PROVE TypeOK'
    <3>1. c # NoCall /\ pc' = [pc EXCEPT ![t] = "await"] /\ cur' = [cur EXCEPT ![t] = c]
      BY <2>2
    <3>2. UNCHANGED <<running, loop, runs, resCh>>
      BY <2>2
    <3> HIDE DEF Await
    <3> QED BY <1>1, <3>1, <3>2 DEF IInv, TypeOK
  <2>3. CASE StartRun
    BY <1>1, <2>3 DEF IInv, TypeOK
  <2>4. CASE LoopTest
    BY <1>1, <2>4 DEF IInv, TypeOK
  <2> QED BY <2>1, <2>2, <2>3, <2>4
<1>3. Known'
  <2>1. \A c \in Calls : resCh'[c] # "empty" => resCh[c] # "empty"
    BY DEF IInv, TypeOK
  <2> QED BY <1>1, <2>1 DEF IInv, Known
<1>4. Held'
  <2>1. \A t \in Threads : \/ pc'[t] = pc[t] /\ cur'[t] = cur[t]
                           \/ pc[t] \in {"user", "await"} /\ pc'[t] \in {"user", "await"}
    BY DEF IInv, TypeOK
  <2>2. \A c \in Calls : state[c] \in {"made", "running"} => caller[c] \in Threads
    BY DEF IInv, TypeOK, Known, None
  <2> QED BY <1>1, <2>1, <2>2 DEF IInv, Held
<1>5. Waiting' /\ InOrder' /\ Drained'
  BY <1>1 DEF IInv, Waiting, InOrder, Drained
<1> QED BY <1>2, <1>3, <1>4, <1>5 DEF IInv

\* The call of thread t moves on without the queue.
LEMMA TestRunningIInv ==
  ASSUME IInv, NEW t \in Threads, TestRunning(t)
  PROVE  IInv'
<1> DEFINE n == cur[t]
<1>1. /\ n \in Calls /\ state[n] = "made" /\ caller[n] = t /\ kind[n] = "invoke"
      /\ pc[t] = "test" /\ n # current
      /\ UNCHANGED <<queue, running, loop, current, runs, cur, made, kind, caller, resCh>>
  BY DEF TestRunning, callVars, IInv, TypeOK, Held
<1>2. \/ pc' = [pc EXCEPT ![t] = "evaluate"] /\ state' = [state EXCEPT ![n] = "running"]
      \/ pc' = [pc EXCEPT ![t] = "send"] /\ state' = state
  BY DEF TestRunning, Goto, Becomes
<1> HIDE DEF n
<1>3. \A c \in Calls \ {n} : state'[c] = state[c]
  BY <1>2 DEF IInv, TypeOK
<1>4. state'[n] \in {"made", "running"}
  BY <1>1, <1>2 DEF IInv, TypeOK
<1>5. TypeOK'
  <2>1. /\ pc' \in [Threads -> {"user", "test", "send", "evaluate", "await"}]
        /\ state' \in [Calls -> {None, "made", "queued", "running", "done"}]
    BY <1>2 DEF IInv, TypeOK
  <2>2. \A u \in Threads : pc'[u] = "user" <=> pc[u] = "user"
    BY <1>1, <1>2 DEF IInv, TypeOK
  <2>3. Capacity' = Capacity
    BY DEF Capacity
  <2> QED BY <1>1, <2>1, <2>2, <2>3 DEF IInv, TypeOK
<1>6. Known'
  BY <1>1, <1>3, <1>4 DEF IInv, Known, None
<1>7. Held'
  <2>1. \A c \in Calls : state[c] \in {"made", "running"} => caller[c] \in Threads
    BY DEF IInv, TypeOK, Known, None
  <2>2. \A c \in Calls \ {n} : caller[c] = t => state[c] # "made" /\ (state[c] = "running" => c = current)
    BY <1>1 DEF IInv, Held, n
  <2>3. \A u \in Threads \ {t} : pc[u] \in {"test", "send", "evaluate"} => cur[u] \in Calls \ {n}
    BY <1>1 DEF IInv, TypeOK, Held
  <2>4. current # NoCall => current \in Calls \ {n}
    BY <1>1 DEF IInv, TypeOK
  <2>5. CASE pc' = [pc EXCEPT ![t] = "evaluate"] /\ state' = [state EXCEPT ![n] = "running"]
    BY <1>1, <2>1, <2>2, <2>3, <2>4, <2>5 DEF IInv, TypeOK, Held, n
  <2>6. CASE pc' = [pc EXCEPT ![t] = "send"] /\ state' = state
    BY <1>1, <2>6 DEF IInv, TypeOK, Held
  <2> QED BY <1>2, <2>5, <2>6
<1>8. Waiting'
  BY <1>1, <1>3, <1>4 DEF IInv, Waiting
<1>9. InOrder'
  <2>1. \A c \in Calls : state[c] = "done" => state'[c] = "done"
    BY <1>1, <1>3
  <2>2. \A j \in 1 .. Len(queue) : queue[j] \in Calls
    BY QueueElements DEF IInv
  <2> QED BY <1>1, <2>1, <2>2 DEF IInv, InOrder
<1>10. Drained'
  BY <1>1, <1>3, <1>4 DEF IInv, Drained
<1> QED BY <1>5, <1>6, <1>7, <1>8, <1>9, <1>10 DEF IInv

\* The thread's call returns.
LEMMA ReturnHeld ==
  ASSUME IInv, NEW t \in Threads, NEW s \in {"queued", "done"},
         pc[t] \in {"send", "evaluate"},
         pc' = [pc EXCEPT ![t] = "user"], cur' = [cur EXCEPT ![t] = NoCall],
         state' = [state EXCEPT ![cur[t]] = s], UNCHANGED <<current, made, kind, caller>>
  PROVE  Held'
<1> DEFINE n == cur[t]
<1>1. /\ n \in Calls /\ state[n] \in {"made", "running"} /\ caller[n] = t /\ n # current
  BY DEF IInv, TypeOK, Held
<1> HIDE DEF n
<1>2. state'[n] = s /\ \A c \in Calls \ {n} : state'[c] = state[c]
  BY <1>1 DEF IInv, TypeOK, n
<1>3. ASSUME NEW c \in Calls
      PROVE  /\ state'[c] = "made" =>
                  cur'[caller[c]] = c /\ pc'[caller[c]] \in {"test", "send"}
             /\ state'[c] = "running" =>
                  c = current \/ (cur'[caller[c]] = c /\ pc'[caller[c]] = "evaluate")
  <2>1. CASE c = n
    BY <1>2, <2>1
  <2>2. CASE c # n
    <3>1. state'[c] = state[c]
      BY <1>2, <2>2
    <3>2. state[c] \in {"made", "running"} => caller[c] \in Threads
      BY DEF IInv, TypeOK, Known, None
    <3>3. caller[c] = t => state[c] # "made" /\ (state[c] = "running" => c = current)
      BY <2>2 DEF IInv, Held, n
    <3> QED BY <3>1, <3>2, <3>3 DEF IInv, TypeOK, Held
  <2> QED BY <2>1, <2>2
<1>4. ASSUME NEW u \in Threads
      PROVE  /\ pc'[u] \in {"test", "send"} => state'[cur'[u]] = "made" /\ caller[cur'[u]] = u
             /\ pc'[u] = "evaluate" =>
                  state'[cur'[u]] = "running" /\ caller[cur'[u]] = u /\ cur'[u] # current
             /\ pc'[u] \in {"test", "evaluate"} => kind[cur'[u]] = "invoke"
  <2>1. CASE u = t
    BY <2>1 DEF IInv, TypeOK
  <2>2. CASE u # t
    <3>1. pc'[u] = pc[u] /\ cur'[u] = cur[u]
      BY <2>2 DEF IInv, TypeOK
    <3>2. pc[u] \in {"test", "send", "evaluate"} => cur[u] \in Calls \ {n}
      BY <1>1, <2>2 DEF IInv, TypeOK, Held
    <3> QED BY <1>2, <3>1, <3>2 DEF IInv, Held
  <2> QED BY <2>1, <2>2
<1>5. current # NoCall => state'[current] = "running"
  BY <1>1, <1>2 DEF IInv, TypeOK, Held
<1> QED BY <1>3, <1>4, <1>5 DEF Held

LEMMA EvaluateSelfIInv ==
  ASSUME IInv, NEW t \in Threads, EvaluateSelf(t)
  PROVE  IInv'
<1> DEFINE n == cur[t]
<1>1. /\ n \in Calls /\ state[n] = "running" /\ caller[n] = t /\ kind[n] = "invoke"
      /\ pc[t] = "evaluate" /\ n # current
      /\ UNCHANGED <<queue, running, loop, current, runs, made, kind, caller>>
  BY DEF EvaluateSelf, callVars, IInv, TypeOK, Held
<1>2. /\ pc' = [pc EXCEPT ![t] = "user"]
      /\ cur' = [cur EXCEPT ![t] = NoCall]
      /\ state' = [state EXCEPT ![n] = "done"]
      /\ resCh' = [resCh EXCEPT ![n] = "value"]
  BY DEF EvaluateSelf, Return, Goto, Becomes
<1> HIDE DEF n
<1>3. state'[n] = "done" /\ \A c \in Calls \ {n} : state'[c] = state[c] /\ resCh'[c] = resCh[c]
  BY <1>1, <1>2 DEF IInv, TypeOK
<1>4. TypeOK'
  BY <1>1, <1>2 DEF IInv, TypeOK
<1>5. Known'
  BY <1>1, <1>3 DEF IInv, Known, None
<1>6. Held'
  BY <1>1, <1>2, ReturnHeld DEF n
<1>7. Waiting'
  BY <1>1, <1>3, SMTT(40) DEF IInv, Waiting
<1>8. InOrder'
  <2>1. \A j \in 1 .. Len(queue) : queue[j] \in Calls
    BY QueueElements DEF IInv
  <2> QED BY <1>1, <1>3, <2>1 DEF IInv, InOrder
<1>9. Drained'
  BY <1>1, <1>3 DEF IInv, Drained
<1> QED BY <1>4, <1>5, <1>6, <1>7, <1>8, <1>9 DEF IInv

LEMMA SendIInv ==
  ASSUME IInv, NEW t \in Threads, Send(t)
  PROVE  IInv'
<1> DEFINE n == cur[t]
           l == Len(queue)
<1>1. /\ n \in Calls /\ state[n] = "made" /\ caller[n] = t /\ pc[t] = "send" /\ n # current
      /\ l < Capacity
      /\ UNCHANGED <<running, loop, current, runs, made, kind, caller, resCh>>
  BY DEF Send, callVars, IInv, TypeOK, Held
<1>2. /\ pc' = [pc EXCEPT ![t] = "user"]
      /\ cur' = [cur EXCEPT ![t] = NoCall]
      /\ state' = [state EXCEPT ![n] = "queued"]
  BY DEF Send, Return, Goto, Becomes
<1>3. /\ queue' \in Seq(Calls) /\ l \in Nat /\ Len(queue') = l + 1
      /\ \A i \in 1 .. l : queue'[i] = queue[i]
      /\ queue'[l + 1] = n
  BY <1>1, AppendToQueue DEF Send, IInv, TypeOK
<1>4. \A i \in 1 .. l : queue[i] \in Calls /\ queue[i] # n
  BY <1>1, QueueElements DEF IInv, Waiting
<1> HIDE DEF n, l
<1>5. state'[n] = "queued" /\ \A c \in Calls \ {n} : state'[c] = state[c]
  BY <1>1, <1>2 DEF IInv, TypeOK
<1>6. TypeOK'
  <2>1. Capacity \in Int /\ Capacity' = Capacity
    BY DEF Capacity
  <2> QED BY <1>1, <1>2, <1>3, <2>1 DEF IInv, TypeOK
<1>7. Known'
  BY <1>1, <1>5 DEF IInv, Known, None
<1>8. \A c \in Calls \ {n} : caller[c] = t => state[c] # "made" /\ (state[c] = "running" => c = current)
  BY <1>1 DEF IInv, Held, n
<1>9. Held'
  BY <1>1, <1>2, ReturnHeld DEF n
<1>10. Waiting'
  <2>1. ASSUME NEW c \in Calls
        PROVE  state'[c] = "queued" <=> \E i \in 1 .. l + 1 : queue'[i] = c
    <3>1. CASE c = n
      BY <1>3, <1>5, <3>1
    <3>2. CASE c # n
      <4>1. state[c] = "queued" <=> \E i \in 1 .. l : queue[i] = c
        BY DEF IInv, Waiting, l
      <4>2. (\E i \in 1 .. l + 1 : queue'[i] = c) <=> \E i \in 1 .. l : queue[i] = c
        BY <1>3, <3>2
      <4> QED BY <1>5, <3>2, <4>1, <4>2
    <3> QED BY <3>1, <3>2
  <2>2. ASSUME NEW i \in 1 .. l + 1, NEW j \in 1 .. l + 1, queue'[i] = queue'[j]
        PROVE  i = j
    <3>1. \A x \in 1 .. l + 1 : x = l + 1 \/ x \in 1 .. l
      BY <1>3
    <3> QED BY <1>3, <1>4, <2>2, <3>1, SMTT(40) DEF IInv, Waiting, l
  <2> QED BY <1>3, <2>1, <2>2 DEF Waiting
<1>11. InOrder'
  <2> SUFFICES ASSUME NEW j \in 1 .. l + 1, NEW c \in Calls,
                      c < queue'[j], caller[c] = caller[queue'[j]]
               PROVE  state'[c] = "done" \/ c = current \/ \E i \in 1 .. j - 1 : queue'[i] = c
    BY <1>1, <1>3 DEF InOrder
  <2>1. CASE j = l + 1
    <3>1. c # n /\ caller[c] = t /\ c < n
      BY <1>1, <1>3, <2>1
    <3>2. c <= made
      <4>1. made \in Nat /\ n <= made
        BY <1>1 DEF IInv, TypeOK, Known, None
      <4> QED BY <1>1, <3>1, <4>1
    <3>3. state[c] \in {"queued", "running", "done"} /\ (state[c] = "running" => c = current)
      BY <1>8, <3>1, <3>2 DEF IInv, TypeOK, Known
    <3>4. CASE state[c] = "queued"
      <4>1. PICK i \in 1 .. l : queue[i] = c
        BY <3>4 DEF IInv, Waiting, l
      <4> QED BY <1>3, <2>1, <4>1
    <3> QED BY <1>5, <3>1, <3>3, <3>4
  <2>2. CASE j # l + 1
    <3>1. j \in 1 .. l /\ queue'[j] = queue[j] /\ \A i \in 1 .. j - 1 : i \in 1 .. l
      BY <1>3, <2>2
    <3>2. state[c] = "done" \/ c = current \/ \E i \in 1 .. j - 1 : queue[i] = c
      BY <3>1 DEF IInv, InOrder, l
    <3> QED BY <1>1, <1>3, <1>5, <3>1, <3>2
  <2> QED BY <2>1, <2>2
<1>12. Drained'
  BY <1>1, <1>5 DEF IInv, Drained
<1> QED BY <1>6, <1>7, <1>9, <1>10, <1>11, <1>12 DEF IInv

\* Run takes up the closure at the head of the queue.
LEMMA ReceiveIInv ==
  ASSUME IInv, Receive
  PROVE  IInv'
<1> DEFINE n == Head(queue)
           l == Len(queue)
<1>1. /\ n \in Calls /\ n = queue[1] /\ l \in Nat \ {0}
      /\ queue' \in Seq(Calls) /\ Len(queue') = l - 1
      /\ \A i \in 1 .. l - 1 : queue'[i] = queue[i + 1]
  BY TakeFromQueue DEF Receive, IInv, TypeOK
<1>2. /\ current = NoCall /\ loop = "receive" /\ loop' = "evaluate"
      /\ current' = n /\ state' = [state EXCEPT ![n] = "running"]
      /\ UNCHANGED <<running, runs, pc, cur, made, kind, caller, resCh>>
  BY DEF Receive, Becomes, callVars, IInv, TypeOK
<1>3. state[n] = "queued" /\ \A i \in 2 .. l : queue[i] # n
  BY <1>1 DEF IInv, Waiting
<1> HIDE DEF n, l
<1>4. state'[n] = "running" /\ \A c \in Calls \ {n} : state'[c] = state[c]
  BY <1>1, <1>2 DEF IInv, TypeOK
<1>5. TypeOK'
  <2>1. Capacity \in Int /\ Capacity' = Capacity
    BY DEF Capacity
  <2> QED BY <1>1, <1>2, <2>1 DEF IInv, TypeOK, l
<1>6. Known'
  BY <1>2, <1>3, <1>4 DEF IInv, Known, None
<1>7. Held'
  <2>1. \A u \in Threads : pc[u] \in {"test", "send", "evaluate"} => cur[u] \in Calls \ {n}
    BY <1>3 DEF IInv, TypeOK, Held
  <2> QED BY <1>1, <1>2, <1>4, <2>1 DEF IInv, Held
<1>8. Waiting'
  <2>1. ASSUME NEW c \in Calls
        PROVE  state'[c] = "queued" <=> \E i \in 1 .. l - 1 : queue'[i] = c
    <3>1. CASE c = n
      <4>1. \A i \in 1 .. l - 1 : i + 1 \in 2 .. l
        BY <1>1
      <4> QED BY <1>1, <1>3, <1>4, <3>1, <4>1
    <3>2. CASE c # n
      <4>1. state[c] = "queued" <=> \E i \in 1 .. l : queue[i] = c
        BY DEF IInv, Waiting, l
      <4>2. ASSUME NEW i \in 1 .. l, queue[i] = c PROVE \E k \in 1 .. l - 1 : queue'[k] = c
        <5>1. i - 1 \in 1 .. l - 1 /\ (i - 1) + 1 = i
          BY <1>1, <3>2, <4>2
        <5> QED BY <1>1, <4>2, <5>1
      <4>3. ASSUME NEW k \in 1 .. l - 1, queue'[k] = c PROVE \E i \in 1 .. l : queue[i] = c
        <5>1. k + 1 \in 1 .. l
          BY <1>1
        <5> QED BY <1>1, <4>3, <5>1
      <4> QED BY <1>4, <3>2, <4>1, <4>2, <4>3
    <3> QED BY <3>1, <3>2
  <2>2. ASSUME NEW i \in 1 .. l - 1, NEW j \in 1 .. l - 1, queue'[i] = queue'[j]
        PROVE  i = j
    <3>1. i + 1 \in 1 .. l /\ j + 1 \in 1 .. l /\ queue[i + 1] = queue[j + 1]
      BY <1>1, <2>2
    <3>2. i + 1 = j + 1
      BY <3>1 DEF IInv, Waiting, l
    <3> QED BY <3>2
  <2> QED BY <1>1, <2>1, <2>2 DEF Waiting
<1>9. InOrder'
  <2> SUFFICES ASSUME NEW j \in 1 .. l - 1, NEW c \in Calls,
                      c < queue'[j], caller[c] = caller[queue'[j]]
               PROVE  state'[c] = "done" \/ c = n \/ \E i \in 1 .. j - 1 : queue'[i] = c
    BY <1>1, <1>2 DEF InOrder
  <2>1. j + 1 \in 1 .. l /\ queue'[j] = queue[j + 1]
    BY <1>1
  <2>2. state[c] = "done" \/ \E i \in 1 .. j : queue[i] = c
    BY <1>2, <2>1 DEF IInv, InOrder, l
  <2>3. CASE state[c] = "done"
    BY <1>4, <2>3
  <2>4. ASSUME NEW i \in 1 .. j, queue[i] = c, c # n
        PROVE  \E k \in 1 .. j - 1 : queue'[k] = c
    <3>1. i - 1 \in 1 .. j - 1 /\ i - 1 \in 1 .. l - 1 /\ (i - 1) + 1 = i
      BY <1>1, <2>4
    <3> QED BY <1>1, <2>4, <3>1
  <2> QED BY <2>2, <2>3, <2>4
<1>10. Drained'
  <2>1. \A c \in Calls : c < n /\ caller[c] = caller[n] => state[c] = "done"
    <3>1. 1 \in 1 .. l /\ \A c \in Calls : ~ \E i \in 1 .. 1 - 1 : queue[i] = c
      BY <1>1
    <3> QED BY <1>1, <1>2, <3>1 DEF IInv, InOrder, l
  <2> QED BY <1>2, <1>3, <1>4, <2>1 DEF IInv, Drained
<1> QED BY <1>5, <1>6, <1>7, <1>8, <1>9, <1>10 DEF IInv

LEMMA EvaluatedIInv ==
  ASSUME IInv, Evaluated
  PROVE  IInv'
<1> DEFINE n == current
<1>1. /\ n \in Calls /\ state[n] = "running" /\ loop = "evaluate" /\ loop' = "test"
      /\ current' = NoCall /\ state' = [state EXCEPT ![n] = "done"]
      /\ UNCHANGED <<queue, runs, pc, cur, made, kind, caller>>
  BY DEF Evaluated, Becomes, callVars, IInv, TypeOK, Held
<1>2. running' \in {0, 1} /\ (resCh' = resCh \/ resCh' = [resCh EXCEPT ![n] = "value"])
  BY DEF Evaluated, IInv, TypeOK
<1>3. state'[n] = "done" /\ \A c \in Calls \ {n} : state'[c] = state[c] /\ resCh'[c] = resCh[c]
  BY <1>1, <1>2 DEF IInv, TypeOK
<1>4. TypeOK'
  <2>1. /\ state' \in [Calls -> {None, "made", "queued", "running", "done"}]
        /\ resCh' \in [Calls -> {"empty", "value", "taken"}]
    BY <1>1, <1>2 DEF IInv, TypeOK
  <2>2. Capacity' = Capacity
    BY DEF Capacity
  <2> QED BY <1>1, <1>2, <2>1, <2>2 DEF IInv, TypeOK
<1>5. Known'
  BY <1>1, <1>3 DEF IInv, Known, None
<1>6. Held'
  <2>1. \A u \in Threads : pc[u] \in {"test", "send", "evaluate"} => cur[u] \in Calls \ {n}
    BY <1>1 DEF IInv, TypeOK, Held
  <2> QED BY <1>1, <1>3, <2>1 DEF IInv, Held
<1>7. Waiting'
  BY <1>1, <1>3 DEF IInv, Waiting
<1>8. InOrder'
  <2>1. \A j \in 1 .. Len(queue) : queue[j] \in Calls
    BY QueueElements DEF IInv
  <2> QED BY <1>1, <1>3, <2>1 DEF IInv, InOrder
<1>9. Drained'
  BY <1>1, <1>3 DEF IInv, Drained
<1> QED BY <1>4, <1>5, <1>6, <1>7, <1>8, <1>9 DEF IInv

LEMMA NextIInv == IInv /\ [Next]_vars => IInv'
<1> SUFFICES ASSUME IInv, [Next]_vars PROVE IInv'
  OBVIOUS
<1>1. CASE UNCHANGED vars
  <2>1. Capacity' = Capacity
    BY DEF Capacity
  <2> QED BY <1>1, <2>1 DEF vars, IInv, TypeOK, Known, Held, Waiting, InOrder, Drained
<1>2. ASSUME NEW t \in Threads, Post(t) \/ Stop(t) \/ InvokeCh(t) PROVE IInv'
  BY <1>2, CallIInv
<1>3. ASSUME NEW t \in Threads, Advance(t) PROVE IInv'
  BY <1>3, TestRunningIInv, EvaluateSelfIInv, SendIInv, PassiveIInv DEF Advance
<1>4. ASSUME NEW t \in Threads, NEW c \in Calls, Await(t, c) PROVE IInv'
  BY <1>4, PassiveIInv
<1>5. CASE StartRun \/ MainStep
  BY <1>5, PassiveIInv, ReceiveIInv, EvaluatedIInv DEF MainStep
<1> QED BY <1>1, <1>2, <1>3, <1>4, <1>5 DEF Next

-----------------------------------------------------------------------------
(* What the invariant says                                                 *)

LEMMA IInvEvaluatedOnce == IInv => EvaluatedOnce
<1> SUFFICES ASSUME IInv PROVE EvaluatedOnce
  OBVIOUS
<1>1. DOMAIN queue = 1 .. Len(queue) /\ \A i \in 1 .. Len(queue) : queue[i] \in Calls
  BY QueueElements DEF IInv, TypeOK
<1>2. \A i \in 1 .. Len(queue) : state[queue[i]] = "queued" /\ resCh[queue[i]] = "empty"
  BY <1>1 DEF IInv, Known, Waiting
<1>3. loop = "evaluate" => resCh[current] = "empty"
  BY DEF IInv, TypeOK, Known, Held
<1> QED BY <1>1, <1>2, <1>3 DEF EvaluatedOnce, IInv, Waiting

\* The queue never holds more than its capacity, Run has a closure in hand just
\* while it evaluates, a thread just while it calls (eventloop.hike).
THEOREM LoopTypes == Spec => []TypeOK
<1>1. IInv => TypeOK
  BY DEF IInv
<1> QED BY <1>1, InitIInv, NextIInv, PTL DEF Spec

\* A closure is evaluated once, by Run or by its caller, and a reply channel
\* of capacity one has room for its reply (InvokeCh of eventloop.hike).
THEOREM LoopEvaluatesOnce == Spec => []EvaluatedOnce
<1>1. IInv => EvaluatedOnce
  BY IInvEvaluatedOnce
<1> QED BY <1>1, InitIInv, NextIInv, PTL DEF Spec

\* When the closure of Stop has been evaluated, so has everything the thread
\* that called Stop had called before (Stop posts behind the other closures).
THEOREM LoopDrains == Spec => []StopDrains
<1>1. IInv => StopDrains
  BY DEF IInv, TypeOK, Drained, StopDrains
<1> QED BY <1>1, InitIInv, NextIInv, PTL DEF Spec
=============================================================================
