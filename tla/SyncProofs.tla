----------------------------- MODULE SyncProofs -----------------------------
(***************************************************************************)
(* Proofs about the synchronisation server, for any number of threads,      *)
(* mutexes, condition variables and barriers: the type invariant, mutual    *)
(* exclusion (LockersOwn) and ResumesAreTimely.  The invariant behind them  *)
(* says of every thread where its current call can take it (CallShape),     *)
(* that a waiting or resumed thread cannot leave its call                   *)
(* (ResumesAreTimely), and that a locked mutex is owned, awaited or lent to *)
(* a condition variable (ClaimsKept).                                       *)
(***************************************************************************)
EXTENDS SyncServer, SequenceTheorems, TLAPS

(* The steps of each call, and what t remembers during it.                  *)
CallShape ==
    \A t \in Threads :
      /\ pc[t] = "app" => mux[t] = NoThread
      /\ pc[t] \in {"unlock", "lock"} => mux[t] \in Mutexes
      /\ pc[t] \in StallSteps =>
           \/ back[t] = "app" /\ mux[t] = NoThread
           \/ back[t] = "lock" /\ mux[t] \in Mutexes
      /\ pc[t] \in ResumeSteps => back[t] \in {"release", "wakeAll"}
      /\ (pc[t] = "wakeAll" \/ (pc[t] \in ResumeSteps /\ back[t] = "wakeAll")) =>
           obj[t] \in Conds \cup Barriers /\ mux[t] = NoThread

ClaimsKept ==
    \A t \in Threads : \A m \in claims[t] :
      owner[m] = t \/ mux[t] = m \/ InQueue(t, m)

IInv == TypeOK /\ CallShape /\ ResumesAreTimely /\ ClaimsKept

-----------------------------------------------------------------------------
(* What Append and Tail do to the places of a queue.                        *)
LEMMA AppendPlaces ==
    ASSUME NEW S, NEW q \in Seq(S), NEW x \in S
    PROVE  /\ Append(q, x) \in Seq(S)
           /\ Len(Append(q, x)) = Len(q) + 1
           /\ \A i \in 1..Len(q) : Append(q, x)[i] = q[i]
           /\ Append(q, x)[Len(q) + 1] = x
  OBVIOUS

LEMMA TailPlaces ==
    ASSUME NEW S, NEW q \in Seq(S), q # <<>>
    PROVE  /\ Tail(q) \in Seq(S)
           /\ Len(q) \in Nat \ {0}
           /\ Len(Tail(q)) = Len(q) - 1
           /\ \A i \in 1..Len(Tail(q)) : Tail(q)[i] = q[i + 1]
           /\ Head(q) \in S
           /\ Head(q) = q[1]
  OBVIOUS

(* Two places that hold the same thread are the same place.                 *)
LEMMA OnePlace ==
    ASSUME QueuedOnce, NEW o \in Objects, NEW p \in Objects, NEW i \in 1..Len(queue[o]),
           NEW j \in 1..Len(queue[p]), queue[o][i] = queue[p][j]
    PROVE  o = p /\ i = j
  BY Zenon DEF QueuedOnce

(* Enqueue adds t to one queue, and keeps everybody queued once.            *)
LEMMA EnqueueEffect ==
    ASSUME TypeOK, QueuedOnce, NEW t \in Threads, NEW o \in Objects,
           Enqueue(o, t), ~Waiting(t)
    PROVE  /\ queue' \in [Objects -> Seq(Threads)]
           /\ QueuedOnce'
           /\ \A u \in Threads, p \in Objects :
                InQueue(u, p)' <=> InQueue(u, p) \/ (u = t /\ p = o)
  <1> DEFINE q == queue[o]
  <1>1. q \in Seq(Threads) /\ Len(q) \in Nat
    BY DEF TypeOK
  <1>2. /\ Append(q, t) \in Seq(Threads)
        /\ Len(Append(q, t)) = Len(q) + 1
        /\ \A i \in 1..Len(q) : Append(q, t)[i] = q[i]
        /\ Append(q, t)[Len(q) + 1] = t
    BY <1>1, AppendPlaces
  <1>3. /\ queue'[o] = Append(q, t)
        /\ \A p \in Objects \ {o} : queue'[p] = queue[p]
        /\ queue' \in [Objects -> Seq(Threads)]
    BY <1>2 DEF Enqueue, TypeOK
  <1>4. \A p \in Objects : \A i \in 1..Len(queue[p]) : queue[p][i] # t
    BY DEF Waiting, InQueue
  <1>5. \A p \in Objects : \A i \in 1..Len(queue'[p]) :
           \/ i \in 1..Len(queue[p]) /\ queue'[p][i] = queue[p][i]
           \/ p = o /\ i = Len(q) + 1 /\ queue'[p][i] = t
    BY <1>1, <1>2, <1>3
  <1>6. QueuedOnce'
    <2> SUFFICES ASSUME NEW p \in Objects, NEW r \in Objects,
                        NEW i \in 1..Len(queue'[p]), NEW j \in 1..Len(queue'[r]),
                        queue'[p][i] = queue'[r][j]
                 PROVE  p = r /\ i = j
      BY DEF QueuedOnce
    <2>1. CASE /\ i \in 1..Len(queue[p]) /\ queue'[p][i] = queue[p][i]
               /\ j \in 1..Len(queue[r]) /\ queue'[r][j] = queue[r][j]
      <3>1. queue[p][i] = queue[r][j]
        BY <2>1, Zenon
      <3> QED
        BY <2>1, <3>1, OnePlace
    <2>2. CASE queue'[p][i] = t
      <3>1. p = o /\ i = Len(q) + 1
        BY <1>4, <1>5, <2>2, Zenon
      <3>2. r = o /\ j = Len(q) + 1
        BY <1>4, <1>5, <2>2, Zenon
      <3> QED
        BY <3>1, <3>2
    <2> QED
      BY <1>5, <2>1, <2>2
  <1>7. \A p \in Objects : \A i \in 1..Len(queue[p]) :
           i \in 1..Len(queue'[p]) /\ queue'[p][i] = queue[p][i]
    BY <1>1, <1>2, <1>3
  <1>8. Len(q) + 1 \in 1..Len(queue'[o]) /\ queue'[o][Len(q) + 1] = t
    BY <1>1, <1>2, <1>3
  <1>9. \A u \in Threads, p \in Objects :
           InQueue(u, p)' <=> InQueue(u, p) \/ (u = t /\ p = o)
    <2> SUFFICES ASSUME NEW u \in Threads, NEW p \in Objects
                 PROVE  InQueue(u, p)' <=> InQueue(u, p) \/ (u = t /\ p = o)
      OBVIOUS
    <2>1. ASSUME InQueue(u, p)' PROVE InQueue(u, p) \/ (u = t /\ p = o)
      <3>1. PICK i \in 1..Len(queue'[p]) : queue'[p][i] = u
        BY <2>1 DEF InQueue
      <3> QED
        BY <1>5, <3>1 DEF InQueue
    <2>2. ASSUME InQueue(u, p) PROVE InQueue(u, p)'
      BY <1>7, <2>2 DEF InQueue
    <2>3. InQueue(t, o)'
      BY <1>8 DEF InQueue
    <2> QED
      BY <2>1, <2>2, <2>3
  <1> QED
    BY <1>3, <1>6, <1>9

(* Taking the head off a queue leaves the others in theirs, once.           *)
LEMMA DequeueEffect ==
    ASSUME TypeOK, QueuedOnce, NEW o \in Objects, queue[o] # <<>>,
           queue' = [queue EXCEPT ![o] = Tail(@)]
    PROVE  /\ queue' \in [Objects -> Seq(Threads)]
           /\ QueuedOnce'
           /\ Head(queue[o]) \in Threads
           /\ InQueue(Head(queue[o]), o)
           /\ \A u \in Threads, p \in Objects :
                InQueue(u, p)' <=> InQueue(u, p) /\ u # Head(queue[o])
  <1> DEFINE q == queue[o]
  <1>1. q \in Seq(Threads)
    BY DEF TypeOK
  <1>2. /\ Tail(q) \in Seq(Threads)
        /\ Len(q) \in Nat \ {0}
        /\ Len(Tail(q)) = Len(q) - 1
        /\ \A i \in 1..Len(Tail(q)) : Tail(q)[i] = q[i + 1]
        /\ Head(q) \in Threads
        /\ Head(q) = q[1]
    BY <1>1, TailPlaces
  <1>3. /\ queue'[o] = Tail(q)
        /\ \A p \in Objects \ {o} : queue'[p] = queue[p]
        /\ queue' \in [Objects -> Seq(Threads)]
    BY <1>2 DEF TypeOK
  <1>4. \A p \in Objects : \A i \in 1..Len(queue'[p]) :
           \/ p # o /\ i \in 1..Len(queue[p]) /\ queue'[p][i] = queue[p][i]
           \/ p = o /\ i + 1 \in 1..Len(queue[p]) /\ queue'[p][i] = queue[p][i + 1]
    BY <1>2, <1>3
  <1>5. QueuedOnce'
    <2> SUFFICES ASSUME NEW p \in Objects, NEW r \in Objects,
                        NEW i \in 1..Len(queue'[p]), NEW j \in 1..Len(queue'[r]),
                        queue'[p][i] = queue'[r][j]
                 PROVE  p = r /\ i = j
      BY DEF QueuedOnce
    <2> QED
      BY <1>4 DEF QueuedOnce
  <1>6. 1 \in 1..Len(q) /\ InQueue(Head(q), o)
    BY <1>2 DEF InQueue
  <1>7. \A p \in Objects : \A i \in 1..Len(queue[p]) :
           \/ p # o /\ i \in 1..Len(queue'[p]) /\ queue'[p][i] = queue[p][i]
           \/ p = o /\ i = 1
           \/ p = o /\ i - 1 \in 1..Len(queue'[p]) /\ queue'[p][i - 1] = queue[p][i]
    BY <1>2, <1>3
  <1>8. \A p \in Objects : \A i \in 1..Len(queue[p]) :
           queue[p][i] = Head(q) <=> p = o /\ i = 1
    BY <1>2, <1>6 DEF QueuedOnce
  <1>9. ASSUME NEW u \in Threads, NEW p \in Objects
        PROVE  InQueue(u, p)' <=> InQueue(u, p) /\ u # Head(q)
    <2>1. ASSUME InQueue(u, p)' PROVE InQueue(u, p) /\ u # Head(q)
      <3>1. PICK i \in 1..Len(queue'[p]) : queue'[p][i] = u
        BY <2>1 DEF InQueue
      <3>2. i \in Nat \ {0}
        OBVIOUS
      <3> QED
        BY <1>4, <1>8, <3>1, <3>2 DEF InQueue
    <2>2. ASSUME InQueue(u, p), u # Head(q) PROVE InQueue(u, p)'
      <3>1. PICK i \in 1..Len(queue[p]) : queue[p][i] = u
        BY <2>2 DEF InQueue
      <3>2. ~(p = o /\ i = 1)
        BY <1>8, <2>2, <3>1
      <3> QED
        BY <1>7, <3>1, <3>2, Zenon DEF InQueue
    <2> QED
      BY <2>1, <2>2
  <1> QED
    BY <1>2, <1>3, <1>5, <1>6, <1>9

(* A thread is in one queue only.                                           *)
LEMMA OneQueue ==
    ASSUME QueuedOnce, NEW u, NEW o \in Objects, NEW p \in Objects, InQueue(u, o), InQueue(u, p)
    PROVE  o = p
  <1>1. PICK i \in 1..Len(queue[o]) : queue[o][i] = u
    BY DEF InQueue
  <1>2. PICK j \in 1..Len(queue[p]) : queue[p][j] = u
    BY DEF InQueue
  <1> QED
    BY <1>1, <1>2, Zenon DEF QueuedOnce

(* Queues that stay as they are.                                            *)
LEMMA QueuesUnchanged ==
    ASSUME UNCHANGED queue
    PROVE  /\ QueuedOnce' <=> QueuedOnce
           /\ \A u \in Threads, p \in Objects : InQueue(u, p)' <=> InQueue(u, p)
  BY DEF QueuedOnce, InQueue

-----------------------------------------------------------------------------
LEMMA InitInvariant == Init => IInv
  <1> SUFFICES ASSUME Init PROVE IInv
    OBVIOUS
  <1>1. TypeOK
    BY DEF Init, ThreadsInit, TypeOK, ThreadsTypeOK, StallSteps, ResumeSteps, SyncSteps
  <1>2. CallShape
    BY Zenon DEF Init, ThreadsInit, CallShape, StallSteps, ResumeSteps
  <1>3. ResumesAreTimely
    <2>1. \A o \in Objects : Len(queue[o]) = 0
      BY DEF Init
    <2>2. QueuedOnce /\ \A t \in Threads : ~Waiting(t)
      BY <2>1 DEF QueuedOnce, Waiting, InQueue
    <2> QED
      BY <2>2 DEF ResumesAreTimely, Resuming, ResumeSteps, Init, ThreadsInit
  <1>4. ClaimsKept
    BY DEF Init, ClaimsKept
  <1> QED
    BY <1>1, <1>2, <1>3, <1>4 DEF IInv

(* The steps of the thread manager leave the server alone; what matters is  *)
(* that a thread leaves stallThread only when nobody is about to resume it. *)
LEMMA ThreadStepInvariant ==
    ASSUME IInv, NEW t \in Threads, ThreadStep(t), UNCHANGED syncVars
    PROVE  IInv'
  <1> USE ThreadsAssumption, SyncAssumption
  <1>1. /\ QueuedOnce' <=> QueuedOnce
        /\ \A u \in Threads, p \in Objects : InQueue(u, p)' <=> InQueue(u, p)
    BY QueuesUnchanged, Zenon DEF syncVars
  <1>2. \A u \in Threads : Waiting(u)' <=> Waiting(u)
    BY <1>1, Zenon DEF Waiting
  <1>3. CASE stallThread_async(t)
    <2>1. TypeOK'
      BY <1>3 DEF IInv, TypeOK, ThreadsTypeOK, CallShape, stallThread_async, Goto, syncVars,
           StallSteps, ResumeSteps, SyncSteps
    <2>2. CallShape'
      BY <1>3 DEF IInv, TypeOK, ThreadsTypeOK, CallShape, stallThread_async, Goto, syncVars,
           StallSteps, ResumeSteps
    <2>3. ResumesAreTimely'
      BY <1>1, <1>2, <1>3 DEF IInv, TypeOK, ThreadsTypeOK, CallShape, ResumesAreTimely,
           Away, Parked, Resuming, stallThread_async, Goto, syncVars, StallSteps, ResumeSteps
    <2>4. ClaimsKept'
      BY <1>1, <1>3 DEF IInv, TypeOK, ClaimsKept, syncVars, Objects
    <2> QED
      BY <2>1, <2>2, <2>3, <2>4 DEF IInv
  <1>4. CASE checkStatus(t)
    <2>1. CASE status[t] = "RUNNING"
      <3>1. /\ UNCHANGED <<status, futx, woken, whom, syncVars>>
            /\ pc' = [pc EXCEPT ![t] = back[t]]
            /\ back' = [back EXCEPT ![t] = "app"]
        BY <1>4, <2>1 DEF checkStatus, Leave, Goto, BackTo
      <3>2. TypeOK'
        BY <3>1, Zenon DEF IInv, TypeOK, ThreadsTypeOK, syncVars, StallSteps, SyncSteps
      <3>3. CallShape'
        BY <1>4, <3>1 DEF IInv, TypeOK, ThreadsTypeOK, CallShape, checkStatus, syncVars,
             StallSteps, ResumeSteps
      <3>4. ResumesAreTimely'
        BY <1>1, <1>2, <1>4, <2>1, <3>1 DEF IInv, TypeOK, ThreadsTypeOK, CallShape,
             ResumesAreTimely, Away, Parked, Resuming, checkStatus, syncVars, StallSteps,
             ResumeSteps
      <3> QED
        BY <1>1, <3>1, <3>2, <3>3, <3>4 DEF IInv, TypeOK, ClaimsKept, syncVars, Objects
    <2>2. CASE status[t] # "RUNNING"
      <3>1. /\ UNCHANGED <<status, futx, woken, back, whom, syncVars>>
            /\ pc' = [pc EXCEPT ![t] = "wait"]
        BY <1>4, <2>2 DEF checkStatus, Goto
      <3>2. TypeOK'
        BY <3>1, Zenon DEF IInv, TypeOK, ThreadsTypeOK, syncVars, StallSteps, SyncSteps
      <3>3. CallShape'
        BY <1>4, <3>1 DEF IInv, TypeOK, ThreadsTypeOK, CallShape, checkStatus, syncVars,
             StallSteps, ResumeSteps
      <3>4. ResumesAreTimely'
        BY <1>1, <1>2, <1>4, <2>2, <3>1 DEF IInv, TypeOK, ThreadsTypeOK, CallShape,
             ResumesAreTimely, Away, Parked, Resuming, checkStatus, syncVars, StallSteps,
             ResumeSteps
      <3> QED
        BY <1>1, <3>1, <3>2, <3>3, <3>4 DEF IInv, TypeOK, ClaimsKept, syncVars, Objects
    <2> QED
      BY <2>1, <2>2
  <1>5. CASE wait(t)
    <2>1. TypeOK'
      BY <1>5, ZenonT(40) DEF IInv, TypeOK, ThreadsTypeOK, wait, SleepOrReturn, Leave, Goto, BackTo,
           syncVars, StallSteps, ResumeSteps, SyncSteps
    <2>2. CallShape'
      BY <1>5 DEF IInv, TypeOK, ThreadsTypeOK, CallShape, wait, SleepOrReturn, Leave, Goto, BackTo,
           syncVars, StallSteps, ResumeSteps
    <2>3. ResumesAreTimely'
      <3>1. CASE status[t] = "STALLED"
        <4>1. UNCHANGED <<status, back, whom, mux>> /\ pc' = [pc EXCEPT ![t] = "asleep"]
          BY <1>5, <3>1 DEF wait, SleepOrReturn, Leave, Goto, BackTo, syncVars
        <4> QED
          BY <1>1, <1>2, <1>5, <3>1, <4>1 DEF IInv, TypeOK, ThreadsTypeOK, CallShape,
               ResumesAreTimely, Away, Parked, Resuming, wait, StallSteps, ResumeSteps
      <3>2. CASE status[t] # "STALLED"
        <4>1. UNCHANGED <<status, whom, mux>> /\ pc' = [pc EXCEPT ![t] = back[t]]
               /\ back' = [back EXCEPT ![t] = "app"]
          BY <1>5, <3>2 DEF wait, SleepOrReturn, Leave, Goto, BackTo, syncVars
        <4> QED
          BY <1>1, <1>2, <1>5, <3>2, <4>1 DEF IInv, TypeOK, ThreadsTypeOK, CallShape,
               ResumesAreTimely, Away, Parked, Resuming, wait, StallSteps, ResumeSteps
      <3> QED
        BY <3>1, <3>2
    <2>4. ClaimsKept'
      BY <1>1, <1>5 DEF IInv, TypeOK, ClaimsKept, syncVars, Objects
    <2> QED
      BY <2>1, <2>2, <2>3, <2>4 DEF IInv
  <1>6. CASE wakeUp(t)
    <2>1. TypeOK'
      <3>1. pc' \in [Threads -> StallSteps \cup ResumeSteps \cup SyncSteps]
        <4>1. pc' = [pc EXCEPT ![t] = "asleep"] \/ pc' = [pc EXCEPT ![t] = back[t]]
          BY <1>6, Zenon DEF wakeUp, SleepOrReturn, Leave, Goto
        <4> QED
          BY <4>1, ZenonT(40) DEF IInv, TypeOK, ThreadsTypeOK, StallSteps, SyncSteps
      <3>2. futx' \in [Threads -> BOOLEAN]
        BY <1>6, Zenon DEF wakeUp, SleepOrReturn, IInv, TypeOK, ThreadsTypeOK
      <3>3. back' \in [Threads -> SyncSteps \cup {"stall"}]
        <4>1. back' = back \/ back' = [back EXCEPT ![t] = "app"]
          BY <1>6, Zenon DEF wakeUp, SleepOrReturn, Leave, BackTo
        <4> QED
          BY <4>1, Zenon DEF IInv, TypeOK, ThreadsTypeOK, SyncSteps
      <3> QED
        BY <1>6, <3>1, <3>2, <3>3, Zenon DEF IInv, TypeOK, ThreadsTypeOK, wakeUp, syncVars
    <2>2. CallShape'
      BY <1>6 DEF IInv, TypeOK, ThreadsTypeOK, CallShape, wakeUp, SleepOrReturn, Leave, Goto,
           BackTo, syncVars, StallSteps, ResumeSteps
    <2>3. ResumesAreTimely'
      <3>1. CASE status[t] = "STALLED"
        <4>1. UNCHANGED <<status, back, whom, mux>> /\ pc' = [pc EXCEPT ![t] = "asleep"]
          BY <1>6, <3>1 DEF wakeUp, SleepOrReturn, Leave, Goto, BackTo, syncVars
        <4> QED
          BY <1>1, <1>2, <1>6, <3>1, <4>1 DEF IInv, TypeOK, ThreadsTypeOK, CallShape,
               ResumesAreTimely, Away, Parked, Resuming, wakeUp, StallSteps, ResumeSteps
      <3>2. CASE status[t] # "STALLED"
        <4>1. UNCHANGED <<status, whom, mux>> /\ pc' = [pc EXCEPT ![t] = back[t]]
               /\ back' = [back EXCEPT ![t] = "app"]
          BY <1>6, <3>2 DEF wakeUp, SleepOrReturn, Leave, Goto, BackTo, syncVars
        <4> QED
          BY <1>1, <1>2, <1>6, <3>2, <4>1 DEF IInv, TypeOK, ThreadsTypeOK, CallShape,
               ResumesAreTimely, Away, Parked, Resuming, wakeUp, StallSteps, ResumeSteps
      <3> QED
        BY <3>1, <3>2
    <2>4. ClaimsKept'
      BY <1>1, <1>6 DEF IInv, TypeOK, ClaimsKept, syncVars, Objects
    <2> QED
      BY <2>1, <2>2, <2>3, <2>4 DEF IInv
  <1>7. CASE signal(t)
    <2>1. TypeOK'
      BY <1>7, Zenon DEF IInv, TypeOK, ThreadsTypeOK, CallShape, signal, Goto, syncVars,
           StallSteps, ResumeSteps, SyncSteps
    <2>2. CallShape'
      BY <1>7 DEF IInv, TypeOK, ThreadsTypeOK, CallShape, signal, Goto, syncVars,
           StallSteps, ResumeSteps
    <2>3. ResumesAreTimely'
      BY <1>1, <1>2, <1>7 DEF IInv, TypeOK, ThreadsTypeOK, CallShape, ResumesAreTimely,
           Away, Parked, Resuming, signal, Goto, syncVars, StallSteps, ResumeSteps
    <2>4. ClaimsKept'
      BY <1>1, <1>7 DEF IInv, TypeOK, ClaimsKept, syncVars, Objects
    <2> QED
      BY <2>1, <2>2, <2>3, <2>4 DEF IInv
  <1>8. CASE resumeThread_async(t)
    <2>1. TypeOK'
      BY <1>8, Zenon DEF IInv, TypeOK, ThreadsTypeOK, CallShape, resumeThread_async, Leave, Goto,
           BackTo, syncVars, StallSteps, ResumeSteps, SyncSteps
    <2>2. CallShape'
      BY <1>8 DEF IInv, TypeOK, ThreadsTypeOK, CallShape, resumeThread_async, Leave, Goto, BackTo,
           syncVars, StallSteps, ResumeSteps
    <2>3. ResumesAreTimely'
      BY <1>1, <1>2, <1>8 DEF IInv, TypeOK, ThreadsTypeOK, CallShape, ResumesAreTimely,
           Away, Parked, Resuming, resumeThread_async, Leave, Goto, BackTo,
           syncVars, StallSteps, ResumeSteps
    <2>4. ClaimsKept'
      BY <1>1, <1>8 DEF IInv, TypeOK, ClaimsKept, syncVars, Objects
    <2> QED
      BY <2>1, <2>2, <2>3, <2>4 DEF IInv
  <1> QED
    BY <1>3, <1>4, <1>5, <1>6, <1>7, <1>8 DEF ThreadStep

(* A thread that is in no waiting call is neither queued nor being resumed. *)
LEMMA NotAway ==
    ASSUME IInv, NEW t \in Threads, pc[t] \in {"app", "lock", "wakeAll"}
    PROVE  ~Waiting(t) /\ \A u \in Threads : ~Resuming(u, t)
  BY DEF IInv, ResumesAreTimely, Away, Parked, CallShape, ResumeSteps

(* SimMutex::lock, called by mutexLock or at the end of SimCond::wait.      *)
LEMMA LockInvariant ==
    ASSUME IInv, NEW t \in Threads, NEW m \in Mutexes, NEW C \in SUBSET Mutexes,
           pc[t] \in {"app", "lock"}, mux[t] \in {NoThread, m},
           SimMutexLock(t, m), C \subseteq claims[t] \cup {m},
           mux' = [mux EXCEPT ![t] = NoThread], claims' = [claims EXCEPT ![t] = C]
    PROVE  IInv'
  <1> USE ThreadsAssumption, SyncAssumption
  <1>0. ~Waiting(t) /\ \A u \in Threads : ~Resuming(u, t)
    BY NotAway
  <1>1. m \in Objects
    BY DEF Objects
  <1>2. CASE owner[m] = NoThread
    <2>1. /\ owner' = [owner EXCEPT ![m] = t]
          /\ pc' = [pc EXCEPT ![t] = "app"]
          /\ UNCHANGED <<status, futx, woken, back, whom, queue, held, obj, waits>>
      BY <1>2 DEF SimMutexLock, SetOwner, Step, Goto
    <2>2. /\ QueuedOnce' <=> QueuedOnce
          /\ \A u \in Threads, p \in Objects : InQueue(u, p)' <=> InQueue(u, p)
      BY <2>1, QueuesUnchanged, Zenon
    <2>3. \A u \in Threads : Waiting(u)' <=> Waiting(u)
      BY <2>2, Zenon DEF Waiting
    <2>4. TypeOK'
      BY <2>1 DEF IInv, TypeOK, ThreadsTypeOK, SyncSteps
    <2>5. CallShape'
      BY <2>1 DEF IInv, TypeOK, ThreadsTypeOK, CallShape, StallSteps, ResumeSteps
    <2>6. ResumesAreTimely'
      BY <1>0, <2>1, <2>2, <2>3 DEF IInv, TypeOK, ThreadsTypeOK, ResumesAreTimely, Away, Parked,
           Resuming, ResumeSteps
    <2>7. ClaimsKept'
      BY <1>2, <2>1, <2>2 DEF IInv, TypeOK, ClaimsKept, Objects
    <2> QED
      BY <2>4, <2>5, <2>6, <2>7 DEF IInv
  <1>3. CASE owner[m] # NoThread
    <2>1. /\ Enqueue(m, t)
          /\ pc' = [pc EXCEPT ![t] = "stall"]
          /\ back' = [back EXCEPT ![t] = "app"]
          /\ UNCHANGED <<status, futx, woken, whom, owner, held, obj, waits>>
      BY <1>3 DEF SimMutexLock, StallThen, Goto, BackTo
    <2>2. /\ queue' \in [Objects -> Seq(Threads)]
          /\ QueuedOnce'
          /\ \A u \in Threads, p \in Objects :
               InQueue(u, p)' <=> InQueue(u, p) \/ (u = t /\ p = m)
      BY <1>0, <1>1, <2>1, EnqueueEffect, Zenon DEF IInv, ResumesAreTimely
    <2>3. \A u \in Threads : Waiting(u)' <=> Waiting(u) \/ u = t
      BY <1>1, <2>2, Zenon DEF Waiting
    <2>4. TypeOK'
      BY <2>1, <2>2 DEF IInv, TypeOK, ThreadsTypeOK, SyncSteps, StallSteps
    <2>5. CallShape'
      BY <2>1 DEF IInv, TypeOK, ThreadsTypeOK, CallShape, StallSteps, ResumeSteps
    <2>6. ResumesAreTimely'
      BY <1>0, <2>1, <2>2, <2>3 DEF IInv, TypeOK, ThreadsTypeOK, ResumesAreTimely, Away, Parked,
           Resuming, ResumeSteps
    <2>7. ClaimsKept'
      BY <2>1, <2>2 DEF IInv, TypeOK, ClaimsKept, Objects
    <2> QED
      BY <2>4, <2>5, <2>6, <2>7 DEF IInv
  <1> QED
    BY <1>2, <1>3

(* SimMutex::unlock, called by mutexUnlock or inside SimCond::wait.         *)
LEMMA UnlockInvariant ==
    ASSUME IInv, NEW t \in Threads, NEW m \in Mutexes, NEW C \in SUBSET Mutexes,
           SimMutexUnlock(t, m), UNCHANGED mux,
           C \subseteq claims[t], claims' = [claims EXCEPT ![t] = C],
           \/ pc[t] = "app" /\ m \notin C
           \/ pc[t] = "unlock" /\ mux[t] = m
    PROVE  IInv'
  <1> USE ThreadsAssumption, SyncAssumption
  <1>1. m \in Objects
    BY DEF Objects
  <1>2. CASE queue[m] = <<>>
    <2>1. /\ owner' = [owner EXCEPT ![m] = NoThread]
          /\ pc' = [pc EXCEPT ![t] = IF mux[t] = NoThread THEN "app" ELSE "stall"]
          /\ back' = [back EXCEPT ![t] = IF mux[t] = NoThread THEN @ ELSE "lock"]
          /\ UNCHANGED <<status, futx, woken, whom, queue, held, obj, waits>>
      BY <1>2 DEF SimMutexUnlock, ResumeWaiter, SetOwner, Step, StallThen, Goto, BackTo, IInv,
           TypeOK, ThreadsTypeOK
    <2>2. /\ QueuedOnce' <=> QueuedOnce
          /\ \A u \in Threads, p \in Objects : InQueue(u, p)' <=> InQueue(u, p)
      BY <2>1, QueuesUnchanged, Zenon
    <2>3. \A u \in Threads : Waiting(u)' <=> Waiting(u)
      BY <2>2, Zenon DEF Waiting
    <2>4. TypeOK'
      BY <2>1 DEF IInv, TypeOK, ThreadsTypeOK, SyncSteps, StallSteps
    <2>5. CallShape'
      BY <2>1 DEF IInv, TypeOK, ThreadsTypeOK, CallShape, StallSteps, ResumeSteps
    <2>6. ResumesAreTimely'
      BY <2>1, <2>2, <2>3 DEF IInv, TypeOK, ThreadsTypeOK, CallShape, ResumesAreTimely, Away,
           Parked, Resuming, ResumeSteps
    <2>7. ClaimsKept'
      BY <2>1, <2>2 DEF IInv, TypeOK, ClaimsKept, Objects, SimMutexUnlock
    <2> QED
      BY <2>4, <2>5, <2>6, <2>7 DEF IInv
  <1>3. CASE queue[m] # <<>>
    <2> DEFINE w == Head(queue[m])
    <2>1. /\ queue' = [queue EXCEPT ![m] = Tail(@)]
          /\ owner' = [owner EXCEPT ![m] = w]
          /\ pc' = [pc EXCEPT ![t] = "signal"]
          /\ back' = [back EXCEPT ![t] = "release"]
          /\ whom' = [whom EXCEPT ![t] = w]
          /\ obj' = [obj EXCEPT ![t] = m]
          /\ held' = [held EXCEPT ![m] = t]
          /\ UNCHANGED <<status, futx, woken, waits>>
      BY <1>3 DEF SimMutexUnlock, ResumeWaiter, ResumeThen, Hold, SetOwner, Goto, BackTo
    <2>2. /\ queue' \in [Objects -> Seq(Threads)]
          /\ QueuedOnce'
          /\ w \in Threads
          /\ InQueue(w, m)
          /\ \A u \in Threads, p \in Objects : InQueue(u, p)' <=> InQueue(u, p) /\ u # w
      BY <1>1, <1>3, <2>1, DequeueEffect, Zenon DEF IInv, ResumesAreTimely
    <2> HIDE DEF w
    <2>3. /\ \A u \in Threads : Waiting(u)' <=> Waiting(u) /\ u # w
          /\ Waiting(w)
      BY <1>1, <2>2, Zenon DEF Waiting
    <2>4. TypeOK'
      BY <1>1, <2>1, <2>2 DEF IInv, TypeOK, ThreadsTypeOK, SyncSteps, ResumeSteps
    <2>5. CallShape'
      BY <2>1 DEF IInv, TypeOK, ThreadsTypeOK, CallShape, StallSteps, ResumeSteps
    <2>6. ResumesAreTimely'
      BY <2>1, <2>2, <2>3 DEF IInv, TypeOK, ThreadsTypeOK, CallShape, ResumesAreTimely, Away,
           Parked, Resuming, ResumeSteps
    <2>7. ClaimsKept'
      <3>1. ASSUME NEW u \in Threads, NEW n \in Mutexes, InQueue(u, n), u = w
            PROVE  n = m
        BY <1>1, <2>2, <3>1, OneQueue DEF IInv, ResumesAreTimely, Objects
      <3> QED
        BY <2>1, <2>2, <3>1 DEF IInv, TypeOK, ClaimsKept, Objects, SimMutexUnlock
    <2> QED
      BY <2>4, <2>5, <2>6, <2>7 DEF IInv
  <1> QED
    BY <1>2, <1>3

(* A broadcast, or the last arrival at a barrier, takes the object's lock   *)
(* and starts the wake-up loop.                                             *)
LEMMA StartWakeAll ==
    ASSUME IInv, NEW t \in Threads, pc[t] = "app", NEW o \in Conds \cup Barriers,
           held' = [held EXCEPT ![o] = t], obj' = [obj EXCEPT ![t] = o],
           pc' = [pc EXCEPT ![t] = "wakeAll"], waits' \in [Threads -> Nat],
           UNCHANGED <<status, futx, woken, back, whom, queue, owner, mux, claims>>
    PROVE  IInv'
  <1> USE ThreadsAssumption, SyncAssumption
  <1>1. /\ QueuedOnce' <=> QueuedOnce
        /\ \A u \in Threads, p \in Objects : InQueue(u, p)' <=> InQueue(u, p)
    BY QueuesUnchanged, Zenon
  <1>2. \A u \in Threads : Waiting(u)' <=> Waiting(u)
    BY <1>1, Zenon DEF Waiting
  <1>3. TypeOK'
    BY Zenon DEF IInv, TypeOK, ThreadsTypeOK, SyncSteps, Objects
  <1>4. CallShape'
    BY DEF IInv, TypeOK, ThreadsTypeOK, CallShape, StallSteps, ResumeSteps
  <1>5. ResumesAreTimely'
    BY <1>1, <1>2 DEF IInv, TypeOK, ThreadsTypeOK, CallShape, ResumesAreTimely, Away, Parked,
         Resuming, ResumeSteps
  <1>6. ClaimsKept'
    BY <1>1 DEF IInv, TypeOK, ClaimsKept, Objects
  <1> QED
    BY <1>3, <1>4, <1>5, <1>6 DEF IInv

(* The operations that start in the application.                            *)
LEMMA ApplicationInvariant ==
    ASSUME IInv, NEW t \in Threads, Application(t)
    PROVE  IInv'
  <1> USE ThreadsAssumption, SyncAssumption
  <1>1. ASSUME NEW m \in Mutexes, mutexLock(t, m) PROVE IInv'
    <2>1. mux[t] = NoThread /\ mux' = [mux EXCEPT ![t] = NoThread]
      BY <1>1 DEF mutexLock, IInv, CallShape, TypeOK
    <2>2. claims[t] \cup {m} \in SUBSET Mutexes
      BY DEF IInv, TypeOK
    <2> QED
      BY <1>1, <2>1, <2>2, LockInvariant, Zenon DEF mutexLock
  <1>2. ASSUME NEW m \in Mutexes, mutexTrylock(t, m) PROVE IInv'
    <2>1. /\ QueuedOnce' <=> QueuedOnce
          /\ \A u \in Threads, p \in Objects : InQueue(u, p)' <=> InQueue(u, p)
      BY <1>2, QueuesUnchanged, Zenon DEF mutexTrylock
    <2>2. \A u \in Threads : Waiting(u)' <=> Waiting(u)
      BY <2>1, Zenon DEF Waiting
    <2>3. TypeOK'
      BY <1>2 DEF mutexTrylock, SetOwner, threadVars, IInv, TypeOK, ThreadsTypeOK
    <2>4. CallShape'
      BY <1>2 DEF mutexTrylock, threadVars, IInv, CallShape
    <2>5. ResumesAreTimely'
      <3>1. UNCHANGED <<pc, status, whom, mux>>
        BY <1>2, Zenon DEF mutexTrylock, threadVars
      <3>2. \A u \in Threads : Away(u)' <=> Away(u)
        BY <3>1, Zenon DEF Away, Parked
      <3>3. \A u, v \in Threads : Resuming(u, v)' <=> Resuming(u, v)
        BY <3>1, Zenon DEF Resuming
      <3> QED
        BY <2>1, <2>2, <3>2, <3>3, Zenon DEF IInv, ResumesAreTimely
    <2>6. ClaimsKept'
      <3>1. /\ owner[m] \in {NoThread, t}
            /\ owner' = [owner EXCEPT ![m] = t]
            /\ claims' = [claims EXCEPT ![t] = @ \cup {m}]
            /\ mux' = mux
        BY <1>2, Zenon DEF mutexTrylock, isLocked, SetOwner
      <3>2. SUFFICES ASSUME NEW u \in Threads, NEW n \in claims'[u]
                     PROVE  owner'[n] = u \/ mux'[u] = n \/ InQueue(u, n)'
        BY Zenon DEF ClaimsKept
      <3>3. n \in claims[u] \/ (u = t /\ n = m)
        BY <3>1, <3>2 DEF IInv, TypeOK
      <3>4. n \in Mutexes /\ n \in Objects
        BY <3>3 DEF IInv, TypeOK, Objects
      <3>5. CASE u = t /\ n = m
        BY <3>1, <3>5 DEF IInv, TypeOK
      <3>6. CASE ~(u = t /\ n = m)
        <4>1. owner[n] = u \/ mux[u] = n \/ InQueue(u, n)
          BY <3>3, <3>6, Zenon DEF IInv, ClaimsKept
        <4>2. owner[n] = u => owner'[n] = u
          BY <3>1, <3>4, <3>6 DEF IInv, TypeOK
        <4> QED
          BY <2>1, <3>1, <3>4, <4>1, <4>2, Zenon
      <3> QED
        BY <3>5, <3>6
    <2> QED
      BY <2>3, <2>4, <2>5, <2>6 DEF IInv
  <1>3. ASSUME NEW m \in Mutexes, mutexUnlock(t, m) PROVE IInv'
    <2>1. claims[t] \ {m} \in SUBSET Mutexes
      BY DEF IInv, TypeOK
    <2> QED
      BY <1>3, <2>1, UnlockInvariant, Zenon DEF mutexUnlock
  <1>4. ASSUME NEW c \in Conds, condSignal(t, c) PROVE IInv'
    <2> DEFINE w == Head(queue[c])
    <2>0. c \in Objects /\ c \notin Mutexes
      BY DEF Objects
    <2>1. /\ queue[c] # <<>>
          /\ queue' = [queue EXCEPT ![c] = Tail(@)]
          /\ pc' = [pc EXCEPT ![t] = "signal"]
          /\ back' = [back EXCEPT ![t] = "release"]
          /\ whom' = [whom EXCEPT ![t] = w]
          /\ obj' = [obj EXCEPT ![t] = c]
          /\ held' = [held EXCEPT ![c] = t]
          /\ UNCHANGED <<status, futx, woken, owner, mux, claims, waits>>
      BY <1>4 DEF condSignal, ResumeWaiter, ResumeThen, Hold, Goto, BackTo
    <2>2. /\ queue' \in [Objects -> Seq(Threads)]
          /\ QueuedOnce'
          /\ w \in Threads
          /\ InQueue(w, c)
          /\ \A u \in Threads, p \in Objects : InQueue(u, p)' <=> InQueue(u, p) /\ u # w
      BY <2>0, <2>1, DequeueEffect, Zenon DEF IInv, ResumesAreTimely
    <2> HIDE DEF w
    <2>3. /\ \A u \in Threads : Waiting(u)' <=> Waiting(u) /\ u # w
          /\ Waiting(w)
      BY <2>0, <2>2, Zenon DEF Waiting
    <2>4. TypeOK'
      BY <2>0, <2>1, <2>2 DEF IInv, TypeOK, ThreadsTypeOK, SyncSteps, ResumeSteps
    <2>5. CallShape'
      BY <2>1, SMTT(30) DEF IInv, TypeOK, ThreadsTypeOK, CallShape, StallSteps, ResumeSteps
    <2>6. ResumesAreTimely'
      BY <1>4, <2>1, <2>2, <2>3, SMTT(30) DEF condSignal, IInv, TypeOK, ThreadsTypeOK, CallShape,
           ResumesAreTimely, Away, Parked, Resuming, ResumeSteps
    <2>7. ClaimsKept'
      <3>1. \A n \in Mutexes : ~InQueue(w, n)
        BY <2>0, <2>2, OneQueue DEF IInv, ResumesAreTimely, Objects
      <3> QED
        BY <2>1, <2>2, <3>1 DEF IInv, TypeOK, ClaimsKept, Objects
    <2> QED
      BY <2>4, <2>5, <2>6, <2>7 DEF IInv
  <1>5. ASSUME NEW c \in Conds, condBroadcast(t, c) PROVE IInv'
    <2>0. c \in Objects
      BY DEF Objects
    <2>1. /\ held' = [held EXCEPT ![c] = t]
          /\ obj' = [obj EXCEPT ![t] = c]
          /\ pc' = [pc EXCEPT ![t] = "wakeAll"]
          /\ UNCHANGED <<status, futx, woken, back, whom, queue, owner, mux, claims, waits>>
      BY <1>5 DEF condBroadcast, Hold, Step, Goto
    <2>2. pc[t] = "app" /\ waits' \in [Threads -> Nat]
      BY <1>5, <2>1 DEF condBroadcast, IInv, TypeOK
    <2>3. c \in Conds \cup Barriers
      OBVIOUS
    <2> QED
      BY <2>1, <2>2, <2>3, StartWakeAll, Zenon
  <1>6. ASSUME NEW c \in Conds, NEW m \in Mutexes, condWait(t, c, m) PROVE IInv'
    <2>0. c \in Objects /\ m # NoThread
      BY DEF Objects
    <2>1. /\ Enqueue(c, t)
          /\ pc[t] = "app"
          /\ pc' = [pc EXCEPT ![t] = "unlock"]
          /\ mux' = [mux EXCEPT ![t] = m]
          /\ UNCHANGED <<status, futx, woken, back, whom, owner, held, obj, claims, waits>>
      BY <1>6 DEF condWait, SetMux, Step, Goto
    <2>2. ~Waiting(t) /\ \A u \in Threads : ~Resuming(u, t)
      BY <2>1, NotAway
    <2>3. /\ queue' \in [Objects -> Seq(Threads)]
          /\ QueuedOnce'
          /\ \A u \in Threads, p \in Objects :
               InQueue(u, p)' <=> InQueue(u, p) \/ (u = t /\ p = c)
      BY <2>0, <2>1, <2>2, EnqueueEffect, Zenon DEF IInv, ResumesAreTimely
    <2>4. \A u \in Threads : Waiting(u)' <=> Waiting(u) \/ u = t
      BY <2>0, <2>3, Zenon DEF Waiting
    <2>5. TypeOK'
      BY <2>1, <2>3 DEF IInv, TypeOK, ThreadsTypeOK, SyncSteps
    <2>6. CallShape'
      BY <2>1, SMTT(30) DEF IInv, TypeOK, ThreadsTypeOK, CallShape, StallSteps, ResumeSteps
    <2>7. ResumesAreTimely'
      BY <2>0, <2>1, <2>2, <2>3, <2>4, SMTT(30) DEF IInv, TypeOK, ThreadsTypeOK, ResumesAreTimely,
           Away, Parked, Resuming, ResumeSteps
    <2>8. ClaimsKept'
      <3> SUFFICES ASSUME NEW u \in Threads, NEW k \in claims'[u]
                   PROVE  owner'[k] = u \/ mux'[u] = k \/ InQueue(u, k)'
        BY Zenon DEF ClaimsKept
      <3>1. k \in Mutexes /\ k \in Objects
        BY <2>1 DEF IInv, TypeOK, Objects
      <3>2. owner[k] = u \/ mux[u] = k \/ InQueue(u, k)
        BY <2>1 DEF IInv, ClaimsKept
      <3>3. mux[u] = k => u # t
        BY <2>1, <3>1, SyncAssumption DEF IInv, CallShape, Objects
      <3>4. mux[u] = k => mux'[u] = k
        BY <2>1, <3>3 DEF IInv, TypeOK
      <3>5. InQueue(u, k) => InQueue(u, k)'
        BY <2>3, <3>1, Zenon
      <3> QED
        BY <2>1, <3>2, <3>4, <3>5, Zenon
    <2> QED
      BY <2>5, <2>6, <2>7, <2>8 DEF IInv
  <1>7. ASSUME NEW b \in Barriers, barrierWait(t, b) PROVE IInv'
    <2>0. b \in Objects
      BY DEF Objects
    <2>1. CASE LastArrival(b)
      <3>1. /\ held' = [held EXCEPT ![b] = t]
            /\ obj' = [obj EXCEPT ![t] = b]
            /\ pc' = [pc EXCEPT ![t] = "wakeAll"]
            /\ waits' = [waits EXCEPT ![t] = @ + 1]
            /\ UNCHANGED <<status, futx, woken, back, whom, queue, owner, mux, claims>>
        BY <1>7, <2>1 DEF barrierWait, Hold, Step, Goto
      <3>2. pc[t] = "app" /\ waits' \in [Threads -> Nat]
        BY <1>7, <3>1 DEF barrierWait, IInv, TypeOK
      <3>3. b \in Conds \cup Barriers
        OBVIOUS
      <3> QED
        BY <3>1, <3>2, <3>3, StartWakeAll, Zenon
    <2>2. CASE ~LastArrival(b)
      <3>1. /\ Enqueue(b, t)
            /\ pc[t] = "app"
            /\ pc' = [pc EXCEPT ![t] = "stall"]
            /\ back' = [back EXCEPT ![t] = "app"]
            /\ waits' = [waits EXCEPT ![t] = @ + 1]
            /\ UNCHANGED <<status, futx, woken, whom, owner, held, obj, mux, claims>>
        BY <1>7, <2>2 DEF barrierWait, StallThen, Goto, BackTo
      <3>2. ~Waiting(t) /\ \A u \in Threads : ~Resuming(u, t)
        BY <3>1, NotAway
      <3>3. /\ queue' \in [Objects -> Seq(Threads)]
            /\ QueuedOnce'
            /\ \A u \in Threads, p \in Objects :
                 InQueue(u, p)' <=> InQueue(u, p) \/ (u = t /\ p = b)
        BY <2>0, <3>1, <3>2, EnqueueEffect, Zenon DEF IInv, ResumesAreTimely
      <3>4. \A u \in Threads : Waiting(u)' <=> Waiting(u) \/ u = t
        BY <2>0, <3>3, Zenon DEF Waiting
      <3>5. TypeOK'
        BY <3>1, <3>3 DEF IInv, TypeOK, ThreadsTypeOK, SyncSteps, StallSteps
      <3>6. CallShape'
        BY <3>1, SMTT(30) DEF IInv, TypeOK, ThreadsTypeOK, CallShape, StallSteps, ResumeSteps
      <3>7. ResumesAreTimely'
        BY <3>1, <3>2, <3>3, <3>4 DEF IInv, TypeOK, ThreadsTypeOK, ResumesAreTimely, Away, Parked,
             Resuming, ResumeSteps
      <3>8. ClaimsKept'
        BY <3>1, <3>3 DEF IInv, TypeOK, ClaimsKept, Objects
      <3> QED
        BY <3>5, <3>6, <3>7, <3>8 DEF IInv
    <2> QED
      BY <2>1, <2>2
  <1> QED
    BY <1>1, <1>2, <1>3, <1>4, <1>5, <1>6, <1>7 DEF Application

(* The steps inside a call of the server.                                   *)
LEMMA ServerInvariant ==
    ASSUME IInv, NEW t \in Threads, Server(t)
    PROVE  IInv'
  <1> USE ThreadsAssumption, SyncAssumption
  <1>1. CASE ThreadStep(t) /\ UNCHANGED syncVars
    BY <1>1, ThreadStepInvariant
  <1>2. CASE condUnlock(t)
    <2>1. /\ mux[t] \in Mutexes
          /\ claims[t] \in SUBSET Mutexes
          /\ claims' = [claims EXCEPT ![t] = claims[t]]
      BY <1>2 DEF condUnlock, IInv, CallShape, TypeOK
    <2> QED
      BY <1>2, <2>1, UnlockInvariant, Zenon DEF condUnlock
  <1>3. CASE condLock(t)
    <2>1. /\ mux[t] \in Mutexes
          /\ claims[t] \in SUBSET Mutexes
          /\ claims' = [claims EXCEPT ![t] = claims[t]]
      BY <1>3 DEF condLock, IInv, CallShape, TypeOK
    <2> QED
      BY <1>3, <2>1, LockInvariant, Zenon DEF condLock, SetMux
  <1>4. CASE wakeAll(t)
    <2> DEFINE o == obj[t]
    <2>0. o \in Objects /\ o \notin Mutexes /\ o \in Conds \cup Barriers /\ mux[t] = NoThread
      <3>1. o \in Conds \cup Barriers /\ mux[t] = NoThread
        BY <1>4 DEF wakeAll, IInv, CallShape
      <3> QED
        BY <3>1 DEF Objects
    <2>1. CASE queue[o] = <<>>
      <3>1. /\ pc' = [pc EXCEPT ![t] = "release"]
            /\ UNCHANGED <<status, futx, woken, back, whom, syncVars>>
        BY <1>4, <2>1 DEF wakeAll, ResumeWaiter, Step, Goto, syncVars
      <3>2. /\ QueuedOnce' <=> QueuedOnce
            /\ \A u \in Threads, p \in Objects : InQueue(u, p)' <=> InQueue(u, p)
        BY <3>1, QueuesUnchanged, Zenon DEF syncVars
      <3>3. \A u \in Threads : Waiting(u)' <=> Waiting(u)
        BY <3>2, Zenon DEF Waiting
      <3>4. TypeOK'
        BY <3>1 DEF IInv, TypeOK, ThreadsTypeOK, SyncSteps, syncVars
      <3>5. CallShape'
        BY <3>1, SMTT(30)
           DEF IInv, TypeOK, ThreadsTypeOK, CallShape, StallSteps, ResumeSteps, syncVars
      <3>6. ResumesAreTimely'
        BY <1>4, <3>1, <3>2, <3>3 DEF wakeAll, IInv, TypeOK, ThreadsTypeOK, ResumesAreTimely, Away,
             Parked, Resuming, ResumeSteps, syncVars
      <3>7. ClaimsKept'
        BY <3>1, <3>2 DEF IInv, TypeOK, ClaimsKept, Objects, syncVars
      <3> QED
        BY <3>4, <3>5, <3>6, <3>7 DEF IInv
    <2>2. CASE queue[o] # <<>>
      <3> DEFINE w == Head(queue[o])
      <3>1. /\ queue' = [queue EXCEPT ![o] = Tail(@)]
            /\ pc' = [pc EXCEPT ![t] = "signal"]
            /\ back' = [back EXCEPT ![t] = "wakeAll"]
            /\ whom' = [whom EXCEPT ![t] = w]
            /\ UNCHANGED <<status, futx, woken, held, owner, obj, mux, claims, waits>>
        BY <1>4, <2>2 DEF wakeAll, ResumeWaiter, ResumeThen, Goto, BackTo
      <3>2. /\ queue' \in [Objects -> Seq(Threads)]
            /\ QueuedOnce'
            /\ w \in Threads
            /\ InQueue(w, o)
            /\ \A u \in Threads, p \in Objects : InQueue(u, p)' <=> InQueue(u, p) /\ u # w
        BY <2>0, <2>2, <3>1, DequeueEffect, Zenon DEF IInv, ResumesAreTimely
      <3> HIDE DEF w, o
      <3>3. /\ \A u \in Threads : Waiting(u)' <=> Waiting(u) /\ u # w
            /\ Waiting(w)
        BY <2>0, <3>2, Zenon DEF Waiting
      <3>4. TypeOK'
        BY <2>0, <3>1, <3>2, SMTT(30) DEF IInv, TypeOK, ThreadsTypeOK, SyncSteps, ResumeSteps
      <3>5. CallShape'
        BY <2>0, <3>1, SMTT(30)
           DEF o, IInv, TypeOK, ThreadsTypeOK, CallShape, StallSteps, ResumeSteps
      <3>6. ResumesAreTimely'
        BY <1>4, <3>1, <3>2, <3>3, SMTT(30) DEF wakeAll, IInv, TypeOK, ThreadsTypeOK, CallShape,
             ResumesAreTimely, Away, Parked, Resuming, ResumeSteps
      <3>7. ClaimsKept'
        <4>1. \A n \in Mutexes : ~InQueue(w, n)
          BY <2>0, <3>2, OneQueue, Zenon DEF IInv, ResumesAreTimely, Objects
        <4> QED
          BY <3>1, <3>2, <4>1, SMTT(30) DEF IInv, TypeOK, ClaimsKept, Objects
      <3> QED
        BY <3>4, <3>5, <3>6, <3>7 DEF IInv
    <2> QED
      BY <2>1, <2>2
  <1>5. CASE release(t)
    <2>1. /\ held' = [held EXCEPT ![obj[t]] = NoThread]
          /\ obj' = [obj EXCEPT ![t] = NoThread]
          /\ pc' = [pc EXCEPT ![t] = IF mux[t] = NoThread THEN "app" ELSE "stall"]
          /\ back' = [back EXCEPT ![t] = IF mux[t] = NoThread THEN @ ELSE "lock"]
          /\ UNCHANGED <<status, futx, woken, whom, queue, owner, mux, claims, waits>>
      BY <1>5 DEF release, Step, StallThen, Goto, BackTo, IInv, TypeOK, ThreadsTypeOK
    <2>2. /\ QueuedOnce' <=> QueuedOnce
          /\ \A u \in Threads, p \in Objects : InQueue(u, p)' <=> InQueue(u, p)
      BY <2>1, QueuesUnchanged, Zenon
    <2>3. \A u \in Threads : Waiting(u)' <=> Waiting(u)
      BY <2>2, Zenon DEF Waiting
    <2>4. TypeOK'
      BY <2>1, Zenon DEF IInv, TypeOK, ThreadsTypeOK, SyncSteps, StallSteps
    <2>5. CallShape'
      BY <1>5, <2>1, SMTT(30)
         DEF release, IInv, TypeOK, ThreadsTypeOK, CallShape, StallSteps, ResumeSteps
    <2>6. ResumesAreTimely'
      BY <1>5, <2>1, <2>2, <2>3 DEF release, IInv, TypeOK, ThreadsTypeOK, ResumesAreTimely, Away,
           Parked, Resuming, ResumeSteps
    <2>7. ClaimsKept'
      BY <2>1, <2>2 DEF IInv, TypeOK, ClaimsKept, Objects
    <2> QED
      BY <2>4, <2>5, <2>6, <2>7 DEF IInv
  <1> QED
    BY <1>1, <1>2, <1>3, <1>4, <1>5 DEF Server

-----------------------------------------------------------------------------
LEMMA StepInvariant == IInv /\ [Next]_vars => IInv'
  <1> SUFFICES ASSUME IInv, [Next]_vars PROVE IInv'
    OBVIOUS
  <1>1. CASE Next
    BY <1>1, ApplicationInvariant, ServerInvariant, Zenon DEF Next
  <1>2. CASE UNCHANGED vars
    <2>0. /\ QueuedOnce' <=> QueuedOnce
          /\ \A u \in Threads, p \in Objects : InQueue(u, p)' <=> InQueue(u, p)
      BY <1>2, QueuesUnchanged, Zenon DEF vars, syncVars
    <2>1. QueuedOnce' /\ \A u \in Threads : Waiting(u)' <=> Waiting(u)
      BY <2>0, Zenon DEF IInv, ResumesAreTimely, Waiting
    <2> QED
      BY <1>2, <2>1 DEF vars, syncVars, threadVars, IInv, TypeOK, ThreadsTypeOK, CallShape,
           ResumesAreTimely, ClaimsKept, Away, Parked, Resuming, InQueue
  <1> QED
    BY <1>1, <1>2

(* A thread in the application is in no queue and in no SimCond::wait, so   *)
(* the mutexes it has locked are its own.                                   *)
LEMMA InvariantImpliesLockersOwn == IInv => LockersOwn
  <1> SUFFICES ASSUME IInv, NEW t \in Threads, pc[t] = "app", NEW m \in claims[t]
               PROVE  owner[m] = t
    BY Zenon DEF LockersOwn
  <1>1. m \in Mutexes /\ m \in Objects /\ m # NoThread
    BY SyncAssumption DEF IInv, TypeOK, Objects
  <1>2. ~Waiting(t) /\ mux[t] = NoThread
    BY NotAway DEF IInv, CallShape
  <1> QED
    BY <1>1, <1>2, ZenonT(40) DEF IInv, ClaimsKept, Waiting

LEMMA Invariance == Spec => []IInv
  BY InitInvariant, StepInvariant, PTL DEF Spec

(* Every variable of the synchronisation server stays within its type.      *)
THEOREM SyncTypeCorrectness == Spec => []TypeOK
  <1>1. IInv => TypeOK
    BY DEF IInv
  <1> QED
    BY <1>1, Invariance, PTL

(* Mutual exclusion, for any number of threads and mutexes: a thread that   *)
(* has returned from SimMutex::lock, a successful trylock or SimCond::wait  *)
(* owns the mutex until it unlocks it.                                      *)
THEOREM MutualExclusion == Spec => []LockersOwn
  BY Invariance, InvariantImpliesLockersOwn, PTL

(* No thread is queued twice, resumed twice or resumed after it has left    *)
(* the call that queued it.                                                 *)
THEOREM TimelyResumes == Spec => []ResumesAreTimely
  <1>1. IInv => ResumesAreTimely
    BY DEF IInv
  <1> QED
    BY <1>1, Invariance, PTL
=============================================================================
