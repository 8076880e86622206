----------------------------- MODULE SyncServer -----------------------------
(***************************************************************************)
(* The synchronisation server: mutexes (SimMutex), condition variables      *)
(* (SimCond) and barriers (SimBarrier) of the simulated application.  Each  *)
(* object has an m_lock, which a caller holds over several steps only while *)
(* it resumes other threads, and a queue of waiting threads.                *)
(***************************************************************************)
EXTENDS Threads, Naturals, Sequences

CONSTANTS
    Mutexes, Conds, Barriers,
    BarrierCount,   \* m_count of every barrier
    MaxWaits        \* bound on the barrier waits of a thread

Objects == Mutexes \cup Conds \cup Barriers

ASSUME SyncAssumption ==
    /\ BarrierCount \in Nat
    /\ MaxWaits \in Nat
    /\ NoThread \notin Objects
    /\ Mutexes \cap (Conds \cup Barriers) = {}

VARIABLES
    held,      \* held[o]: the thread that holds m_lock of object o across steps
    queue,     \* queue[o]: m_waiting
    owner,     \* owner[m]: m_owner
    obj,       \* obj[t]: the object whose m_lock t holds across steps
    mux,       \* mux[t]: the mutex of the SimCond::wait that t is in
    claims,    \* claims[t]: the mutexes t has locked, as the application knows it
    waits      \* waits[t]: the barrier waits that t has begun

syncVars == <<held, queue, owner, obj, mux, claims, waits>>
vars == <<threadVars, syncVars>>

SyncSteps == {"app", "lock", "unlock", "release", "wakeAll"}

Init ==
    /\ ThreadsInit
    /\ held = [o \in Objects |-> NoThread]
    /\ queue = [o \in Objects |-> <<>>]
    /\ owner = [m \in Mutexes |-> NoThread]
    /\ obj = [t \in Threads |-> NoThread]
    /\ mux = [t \in Threads |-> NoThread]
    /\ claims = [t \in Threads |-> {}]
    /\ waits = [t \in Threads |-> 0]

(* Every variable stays within its type.                                    *)
TypeOK ==
    /\ ThreadsTypeOK(SyncSteps)
    /\ held \in [Objects -> Threads \cup {NoThread}]
    /\ queue \in [Objects -> Seq(Threads)]
    /\ owner \in [Mutexes -> Threads \cup {NoThread}]
    /\ obj \in [Threads -> Objects \cup {NoThread}]
    /\ mux \in [Threads -> Mutexes \cup {NoThread}]
    /\ claims \in [Threads -> SUBSET Mutexes]
    /\ waits \in [Threads -> Nat]

(* Forms with a fault, for the sensitivity checks.                          *)
EnqueueObject(o, t) == queue' = [queue EXCEPT ![o] = Append(@, o)]

ResumeWaiterKeepsIt(t, o, step) ==
    /\ queue[o] # <<>>
    /\ ResumeThen(t, Head(queue[o]), "signal", step)
    /\ UNCHANGED queue

Free(o) == held[o] = NoThread
SetOwner(m, t) == owner' = [owner EXCEPT ![m] = t]
Enqueue(o, t) == queue' = [queue EXCEPT ![o] = Append(@, t)]
SetMux(t, m) == mux' = [mux EXCEPT ![t] = m]

(* t keeps the m_lock of o until its step "release".                        *)
Hold(t, o) ==
    /\ held' = [held EXCEPT ![o] = t]
    /\ obj' = [obj EXCEPT ![t] = o]

(* t takes the head of o's queue off and resumes it.                        *)
ResumeWaiter(t, o, step) ==
    /\ queue[o] # <<>>
    /\ queue' = [queue EXCEPT ![o] = Tail(@)]
    /\ ResumeThen(t, Head(queue[o]), "signal", step)

-----------------------------------------------------------------------------
(* Mutexes.                                                                 *)
SimMutexLock(t, m) ==
    /\ Free(m)
    /\ \/ /\ owner[m] = NoThread
          /\ SetOwner(m, t)
          /\ Step(t, "app")
          /\ UNCHANGED queue
       \/ /\ owner[m] # NoThread
          /\ Enqueue(m, t)
          /\ StallThen(t, "app")
          /\ UNCHANGED owner
    /\ UNCHANGED <<held, obj, waits>>

mutexLock(t, m) ==
    /\ pc[t] = "app"
    /\ SimMutexLock(t, m)
    /\ claims' = [claims EXCEPT ![t] = @ \cup {m}]
    /\ UNCHANGED mux

(* mutexLock with tryLock grants a mutex that t already owns once more.     *)
isLocked(t, m) == owner[m] \notin {NoThread, t}

mutexTrylock(t, m) ==
    /\ pc[t] = "app"
    /\ Free(m)
    /\ ~isLocked(t, m)
    /\ SetOwner(m, t)
    /\ claims' = [claims EXCEPT ![t] = @ \cup {m}]
    /\ UNCHANGED <<threadVars, held, queue, obj, mux, waits>>

(* With a fault: the waiter is woken but the mutex is left free.            *)
UnlockWithoutHandover(t, m) ==
    /\ Free(m)
    /\ owner[m] = t
    /\ SetOwner(m, NoThread)
    /\ \/ /\ queue[m] = <<>>
          /\ IF mux[t] = NoThread THEN Step(t, "app") ELSE StallThen(t, "lock")
          /\ UNCHANGED <<held, obj, queue>>
       \/ ResumeWaiter(t, m, "release") /\ Hold(t, m)
    /\ UNCHANGED waits

(* SimMutex::unlock hands the mutex over to its first waiter.               *)
SimMutexUnlock(t, m) ==
    /\ Free(m)
    /\ owner[m] = t
    /\ \/ /\ queue[m] = <<>>
          /\ SetOwner(m, NoThread)
          /\ IF mux[t] = NoThread THEN Step(t, "app") ELSE StallThen(t, "lock")
          /\ UNCHANGED <<held, obj, queue>>
       \/ /\ ResumeWaiter(t, m, "release")
          /\ SetOwner(m, Head(queue[m]))
          /\ Hold(t, m)
    /\ UNCHANGED waits

mutexUnlock(t, m) ==
    /\ pc[t] = "app"
    /\ SimMutexUnlock(t, m)
    /\ claims' = [claims EXCEPT ![t] = @ \ {m}]
    /\ UNCHANGED mux

-----------------------------------------------------------------------------
(* Condition variables.  SimCond::wait queues the caller, unlocks the mutex *)
(* that the caller holds, stalls, and locks the mutex again.                *)
condWait(t, c, m) ==
    /\ pc[t] = "app"
    /\ m \in claims[t]
    /\ Free(c)
    /\ Enqueue(c, t)
    /\ SetMux(t, m)
    /\ Step(t, "unlock")
    /\ UNCHANGED <<held, owner, obj, claims, waits>>

condUnlock(t) ==
    /\ pc[t] = "unlock"
    /\ SimMutexUnlock(t, mux[t])
    /\ UNCHANGED <<mux, claims>>

condLock(t) ==
    /\ pc[t] = "lock"
    /\ SimMutexLock(t, mux[t])
    /\ SetMux(t, NoThread)
    /\ UNCHANGED claims

condSignal(t, c) ==
    /\ pc[t] = "app"
    /\ Free(c)
    /\ ResumeWaiter(t, c, "release")
    /\ Hold(t, c)
    /\ UNCHANGED <<owner, mux, claims, waits>>

condBroadcast(t, c) ==
    /\ pc[t] = "app"
    /\ Free(c)
    /\ Hold(t, c)
    /\ Step(t, "wakeAll")
    /\ UNCHANGED <<queue, owner, mux, claims, waits>>

(* The loop of SimCond::broadcast and of SimBarrier::wait.                  *)
wakeAll(t) ==
    /\ pc[t] = "wakeAll"
    /\ \/ /\ queue[obj[t]] = <<>>
          /\ Step(t, "release")
          /\ UNCHANGED queue
       \/ ResumeWaiter(t, obj[t], "wakeAll")
    /\ UNCHANGED <<held, owner, obj, mux, claims, waits>>

(* The end of a call that resumed threads; a SimCond::wait goes on.         *)
release(t) ==
    /\ pc[t] = "release"
    /\ held' = [held EXCEPT ![obj[t]] = NoThread]
    /\ obj' = [obj EXCEPT ![t] = NoThread]
    /\ IF mux[t] = NoThread THEN Step(t, "app") ELSE StallThen(t, "lock")
    /\ UNCHANGED <<queue, owner, mux, claims, waits>>

-----------------------------------------------------------------------------
(* Barriers.                                                                *)
LastArrivalOneEarly(b) == Len(queue[b]) + 2 >= BarrierCount   \* with a fault

LastArrival(b) == Len(queue[b]) + 1 = BarrierCount

barrierWait(t, b) ==
    /\ pc[t] = "app"
    /\ waits[t] < MaxWaits
    /\ Free(b)
    /\ IF LastArrival(b)
       THEN /\ Hold(t, b)
            /\ Step(t, "wakeAll")
            /\ UNCHANGED queue
       ELSE /\ Enqueue(b, t)
            /\ StallThen(t, "app")
            /\ UNCHANGED <<held, obj>>
    /\ waits' = [waits EXCEPT ![t] = @ + 1]
    /\ UNCHANGED <<owner, mux, claims>>

-----------------------------------------------------------------------------
Application(t) ==
    \/ \E m \in Mutexes : mutexLock(t, m) \/ mutexTrylock(t, m) \/ mutexUnlock(t, m)
    \/ \E c \in Conds : condSignal(t, c) \/ condBroadcast(t, c)
    \/ \E c \in Conds, m \in Mutexes : condWait(t, c, m)
    \/ \E b \in Barriers : barrierWait(t, b)

Server(t) ==
    \/ ThreadStep(t) /\ UNCHANGED syncVars
    \/ condUnlock(t) \/ condLock(t) \/ wakeAll(t) \/ release(t)

Next == \E t \in Threads : Application(t) \/ Server(t)
Spec == Init /\ [][Next]_vars

-----------------------------------------------------------------------------
(* Mutual exclusion: a thread back in the application after mutexLock,      *)
(* mutexTrylock or condWait owns every mutex it has locked and not unlocked *)
(* since, although SimMutex::unlock hands the mutex over while the new      *)
(* owner sleeps.                                                            *)
LockersOwn ==
    \A t \in Threads : pc[t] = "app" => \A m \in claims[t] : owner[m] = t

InQueue(t, o) == \E i \in 1..Len(queue[o]) : queue[o][i] = t
Waiting(t) == \E o \in Objects : InQueue(t, o)

(* No thread is in two places of the queues.                                *)
QueuedOnce ==
    \A o, p \in Objects : \A i \in 1..Len(queue[o]), j \in 1..Len(queue[p]) :
      queue[o][i] = queue[p][j] => o = p /\ i = j

(* t cannot come back to the application before somebody resumes it.        *)
Away(t) ==
    \/ Parked(t)
    \/ mux[t] # NoThread /\ pc[t] \in ResumeSteps \cup {"unlock", "release"}

(* A thread is in at most one wait queue, once; it is then still inside the *)
(* call that put it there, and nobody is resuming it.  Only one thread at a *)
(* time resumes it, and only while it is inside that call.  So no resume is *)
(* late: none reaches a thread that has gone on to its next call.           *)
ResumesAreTimely ==
    /\ QueuedOnce
    /\ \A t \in Threads : Waiting(t) => Away(t)
    /\ \A t, u \in Threads : Resuming(u, t) =>
         /\ Away(t)
         /\ ~Waiting(t)
         /\ \A v \in Threads : Resuming(v, t) => v = u

(* A barrier for all the threads lets nobody through early: a thread back   *)
(* from its n-th SimBarrier::wait has seen every thread begin its n-th.     *)
BarrierHolds ==
    \A t, u \in Threads : pc[t] = "app" => waits[t] <= waits[u]

(* SimMutex::unlock "signals a waiter to continue": once a thread is out of *)
(* the queues and nobody is resuming it any more, it can leave stallThread. *)
(* It is RUNNING and, if it sleeps, signalled, whether the resume came      *)
(* before stallThread_async, between it and the sleep, or later.            *)
NoResumeLost ==
    \A t \in Threads :
      /\ pc[t] \in {"check", "wait", "asleep"}
      /\ ~Waiting(t)
      /\ \A u \in Threads : ~Resuming(u, t)
      => status[t] = "RUNNING" /\ (pc[t] = "asleep" => futx[t])
=============================================================================
