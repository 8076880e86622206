--------------------------- MODULE SyscallServer ---------------------------
(***************************************************************************)
(* The futex part of the syscall server (SyscallServer, SimFutex): wait,    *)
(* wake, wake-op and compare-requeue calls of the simulated threads, the    *)
(* wake-up of an exiting thread, and the periodic callback that wakes the   *)
(* waiters whose timeout has passed.  The application writes the futex      *)
(* words at any time, so that a comparison with one of them may come out    *)
(* either way.  A wake selects with FUTEX_BITSET_MATCH_ANY whatever the     *)
(* caller asked for, so that it takes the first waiter and masks are left   *)
(* out.                                                                     *)
(***************************************************************************)
EXTENDS Threads, Integers, Sequences, SequencesExt

CONSTANTS
    Futexes,     \* the addresses used as futexes, ordered as their SimFutex objects
    TidPtrs,     \* those of them that a thread clears and wakes when it exits
    MaxTime,     \* bound on the simulated time
    Timeouts,    \* the timeouts that the application waits with
    MaxWake,     \* bound on the number of threads one call may wake or requeue
    MaxCalls,    \* bound on the number of futex calls of the whole run
    Commands     \* the futex operations that the application uses

Never == MaxTime + 1   \* SubsecondTime::MaxTime()

ASSUME FutexAssumption ==
    /\ Futexes \subseteq Nat /\ TidPtrs \subseteq Futexes
    /\ Timeouts \subseteq 1..Never
    /\ {MaxTime, MaxWake, MaxCalls} \subseteq Nat

Waiters == [thread : Threads, timeout : Timeouts, since : 0..MaxTime]

AllCalls ==
    [cmd : {"WAIT"}, uaddr : Futexes, timeout : Timeouts]
    \cup [cmd : {"WAKE"}, uaddr : Futexes, nr_wake : 1..MaxWake]
    \cup [cmd : {"WAKE_OP"}, uaddr : Futexes, uaddr2 : Futexes, nr_wake : 1..MaxWake]
    \cup [cmd : {"CMP_REQUEUE"}, uaddr : Futexes, uaddr2 : Futexes, nr_requeue : 1..MaxWake]

Calls == {c \in AllCalls : c.cmd \in Commands}

NoCall == [cmd |-> "NONE"]
WakeCall(f, n) == [cmd |-> "WAKE", uaddr |-> f, nr_wake |-> n]

VARIABLES
    queue,      \* queue[f]: SimFutex::m_waiting; "since" is the time of queueing
    held,       \* held[f]: the thread that holds SimFutex::m_lock over several steps
    call,       \* call[t]: the arguments of the call that t is in
    calls,      \* the number of calls that have been made, for the bound
    left,       \* left[t]: how many waiters t may still wake
    now,        \* m_global_time
    next,       \* m_next_barrier_time
    sweeper,    \* the thread in barrierRelease, with the barrier's m_lock
    toSweep,    \* the futexes that futexPeriodic has still to visit, with m_futexes_lock
    home,       \* the step that made the sweeper call barrierRelease
    atBarrier   \* the threads held in the barrier while futexPeriodic runs

futexVars == <<queue, held, call, left, calls>>
timeVars == <<now, next, sweeper, toSweep, home, atBarrier>>
vars == <<threadVars, futexVars, timeVars>>

FutexSteps == {"app", "find", "enqueue", "dequeue", "release", "op", "requeue1",
               "requeue2", "advance", "sweep", "exitHook", "exited"}

Init ==
    /\ ThreadsInit
    /\ queue = [f \in Futexes |-> <<>>]
    /\ held = [f \in Futexes |-> NoThread]
    /\ call = [t \in Threads |-> NoCall]
    /\ left = [t \in Threads |-> 0]
    /\ calls = 0
    /\ now = 0
    /\ next = 1
    /\ sweeper = NoThread
    /\ toSweep = {}
    /\ home = "app"
    /\ atBarrier = {}

(* Every variable stays within its type.                                    *)
TypeOK ==
    /\ ThreadsTypeOK(FutexSteps)
    /\ queue \in [Futexes -> Seq(Waiters)]
    /\ held \in [Futexes -> Threads \cup {NoThread}]
    /\ call \in [Threads -> AllCalls \cup {NoCall}]
    /\ left \in [Threads -> 0..MaxWake]
    /\ calls \in 0..MaxCalls
    /\ now \in 0..MaxTime
    /\ next \in 1..Never
    /\ sweeper \in Threads \cup {NoThread}
    /\ toSweep \subseteq Futexes
    /\ home \in {"app", "check", "advance", "exitHook"}
    /\ atBarrier \subseteq Threads

Free(f) == held[f] = NoThread
HoldLock(f, t) == held' = [held EXCEPT ![f] = t]
SetCall(t, c, n) == call' = [call EXCEPT ![t] = c] /\ left' = [left EXCEPT ![t] = n]

(* ResumeWaiter with a fault: the waiter stays in the queue.                *)
ResumeWithoutErase(t, f, i, msg, step) ==
    /\ HoldLock(f, t)
    /\ ResumeThen(t, queue[f][i].thread, msg, step)
    /\ UNCHANGED queue

(* t removes the i-th waiter of f and resumes it, with m_lock held.         *)
ResumeWaiter(t, f, i, msg, step) ==
    /\ queue' = [queue EXCEPT ![f] = RemoveAt(@, i)]
    /\ HoldLock(f, t)
    /\ ResumeThen(t, queue[f][i].thread, msg, step)

-----------------------------------------------------------------------------
(* handleFutexCall reads the word of uaddr (act_val) before it looks for    *)
(* the SimFutex.  A requeue wakes one waiter first; it compares val, and    *)
(* takes val3 for the number of waiters to move.                            *)
handleFutexCall(t, c) ==
    /\ pc[t] = "app"
    /\ calls < MaxCalls
    /\ calls' = calls + 1
    /\ SetCall(t, c, CASE c.cmd = "WAIT" -> 0
                       [] c.cmd = "CMP_REQUEUE" -> 1
                       [] OTHER -> c.nr_wake)
    /\ Step(t, "find")
    /\ UNCHANGED <<queue, held, timeVars>>

(* The end of a call, or of the futexWake of an exiting thread.             *)
Return(t) ==
    /\ Step(t, IF status[t] = "IDLE" THEN "exitHook" ELSE "app")
    /\ SetCall(t, NoCall, 0)

(* findFutexByUaddr takes m_futexes_lock for a moment.  A wait or a requeue *)
(* returns -EAGAIN when the word that was read is not val.                  *)
findFutexByUaddr(t) ==
    /\ pc[t] = "find"
    /\ toSweep = {}
    /\ \/ /\ call[t].cmd \in {"WAIT", "CMP_REQUEUE"}
          /\ Return(t)
       \/ /\ Step(t, IF call[t].cmd = "WAIT" THEN "enqueue" ELSE "dequeue")
          /\ UNCHANGED <<call, left>>
    /\ UNCHANGED <<queue, held, calls, timeVars>>

(* futexWait queues the thread and stalls it; when it is resumed the call   *)
(* is over.                                                                 *)
enqueueWaiter(t) ==
    /\ pc[t] = "enqueue"
    /\ Free(call[t].uaddr)
    /\ queue' = [queue EXCEPT ![call[t].uaddr] =
                   Append(@, [thread |-> t, timeout |-> call[t].timeout, since |-> now])]
    /\ SetCall(t, NoCall, 0)
    /\ StallThen(t, "app")
    /\ UNCHANGED <<held, calls, timeVars>>

(* After its wake loop a call is over, or goes on with its second futex.    *)
AfterDequeues(t) ==
    \/ call[t].cmd = "WAKE" /\ Return(t)
    \/ call[t].cmd = "WAKE_OP" /\ Step(t, "op") /\ UNCHANGED <<call, left>>
    \/ call[t].cmd = "CMP_REQUEUE" /\ Step(t, "requeue1") /\ UNCHANGED <<call, left>>

(* dequeueWaiter, in the loops of futexWake, futexWakeOp and once in        *)
(* futexCmpRequeue.                                                         *)
dequeueWaiter(t) ==
    LET f == call[t].uaddr IN
    /\ pc[t] = "dequeue"
    /\ \/ /\ left[t] = 0 \/ (Free(f) /\ queue[f] = <<>>)
          /\ AfterDequeues(t)
          /\ UNCHANGED <<queue, held>>
       \/ /\ left[t] > 0 /\ Free(f) /\ queue[f] # <<>>
          /\ ResumeWaiter(t, f, 1, "signalTrue", "release")
          /\ UNCHANGED <<call, left>>
    /\ UNCHANGED <<calls, timeVars>>

(* With a fault: the woken waiter is counted twice.                         *)
releaseTwice(t) ==
    /\ pc[t] = "release"
    /\ HoldLock(call[t].uaddr, NoThread)
    /\ left' = [left EXCEPT ![t] = @ - 2]
    /\ Step(t, "dequeue")
    /\ UNCHANGED <<queue, call, calls, timeVars>>

release(t) ==
    /\ pc[t] = "release"
    /\ HoldLock(call[t].uaddr, NoThread)
    /\ left' = [left EXCEPT ![t] = @ - 1]
    /\ Step(t, "dequeue")
    /\ UNCHANGED <<queue, call, calls, timeVars>>

(* futexDoOp updates the second word and compares its old value; if that    *)
(* holds the call goes on as a wake of the second futex.  val2, the second  *)
(* wake count, is never assigned (SyscallMdl::handleFutexCall): the number  *)
(* of waiters that may still be woken is any, and none ends the call.       *)
futexDoOp(t) ==
    /\ pc[t] = "op"
    /\ \/ Return(t)
       \/ /\ \E n \in 1..MaxWake : SetCall(t, WakeCall(call[t].uaddr2, call[t].nr_wake), n)
          /\ Step(t, "dequeue")
    /\ UNCHANGED <<queue, held, calls, timeVars>>

FirstLock(c) == IF c.uaddr < c.uaddr2 THEN c.uaddr ELSE c.uaddr2
SecondLock(c) == IF FirstLock(c) = c.uaddr THEN c.uaddr2 ELSE c.uaddr

requeueLock(t) ==
    /\ pc[t] = "requeue1"
    /\ Free(FirstLock(call[t]))
    /\ HoldLock(FirstLock(call[t]), t)
    /\ Step(t, "requeue2")
    /\ UNCHANGED <<queue, call, left, calls, timeVars>>

(* requeueWaiter moves the first waiters, as many as asked for.  "since" is *)
(* the time when a waiter came to its present queue.                        *)
Requeued(c) ==
    LET n == IF Len(queue[c.uaddr]) < c.nr_requeue THEN Len(queue[c.uaddr]) ELSE c.nr_requeue
        moved == [i \in 1..n |-> [queue[c.uaddr][i] EXCEPT !.since = now]]
    IN [queue EXCEPT ![c.uaddr] = SubSeq(@, n + 1, Len(@)), ![c.uaddr2] = @ \o moved]

requeueWaiters(t) ==
    /\ pc[t] = "requeue2"
    /\ Free(SecondLock(call[t]))
    /\ queue' = Requeued(call[t])
    /\ HoldLock(FirstLock(call[t]), NoThread)
    /\ Return(t)
    /\ UNCHANGED <<calls, timeVars>>

-----------------------------------------------------------------------------
(* onThreadExit makes the thread IDLE and then, with CLONE_CHILD_CLEARTID,  *)
(* clears the word at tid_ptr and wakes one of its waiters; the hooks come  *)
(* last.  m_thread_lock lets one thread at a time do this.                  *)
Exiting(t) == status[t] = "IDLE" /\ pc[t] # "exited"

onThreadExit(t) ==
    /\ pc[t] = "app"
    /\ \A u \in Threads : ~Exiting(u)
    /\ status' = [status EXCEPT ![t] = "IDLE"]
    /\ \/ \E tid_ptr \in TidPtrs : SetCall(t, WakeCall(tid_ptr, 1), 1) /\ Goto(t, "find")
       \/ Goto(t, "exitHook") /\ UNCHANGED <<call, left>>
    /\ UNCHANGED <<futx, woken, back, whom, queue, held, calls, timeVars>>

exitReturn(t) ==
    /\ pc[t] = "exitHook"
    /\ Step(t, "exited")
    /\ UNCHANGED <<futexVars, timeVars>>

-----------------------------------------------------------------------------
(* Thread t enters barrierRelease, which runs HOOK_PERIODIC with the        *)
(* barrier's m_lock, and with it futexPeriodic; threads S stay in the       *)
(* barrier meanwhile.                                                       *)
StartPeriodic(t, S) ==
    /\ sweeper = NoThread
    /\ next <= MaxTime
    /\ now' = next
    /\ sweeper' = t
    /\ toSweep' = Futexes
    /\ home' = pc[t]
    /\ atBarrier' = S
    /\ Step(t, "sweep")
    /\ UNCHANGED <<next, futexVars>>

BarrierReached == \A u \in Threads : status[u] = "RUNNING" => pc[u] = "app"

(* When every running thread has reached the barrier, the last one to reach *)
(* it, to stall or to exit releases it.  Threads that do not run may be     *)
(* anywhere in their calls: an exiting one may be waking a waiter.          *)
barrierRelease(t) ==
    /\ pc[t] \in {"app", "check", "exitHook"}
    /\ BarrierReached
    /\ anyThreadRunning
    /\ StartPeriodic(t, {u \in Threads \ {t} : status[u] = "RUNNING"})

(* A stalled thread that reads a count of zero running threads advances the *)
(* time.  Threads may have been resumed between its two steps.              *)
loadRunningThreads(t) ==
    /\ pc[t] = "check"
    /\ ~anyThreadRunning
    /\ Step(t, "advance")
    /\ UNCHANGED <<futexVars, timeVars>>

advance(t) ==
    /\ pc[t] = "advance"
    /\ StartPeriodic(t, {})

(* With a fault: the loop steps over the waiter that follows an erased one. *)
ExpiredSkippingOne(f) ==
    {i \in 1..Len(queue[f]) : queue[f][i].timeout <= now
       /\ ~(held[f] = sweeper /\ i = 1)}

Expired(f) == {i \in 1..Len(queue[f]) : queue[f][i].timeout <= now}
FirstExpired(f) == CHOOSE i \in Expired(f) : \A j \in Expired(f) : i <= j

(* wakeTimedOut of one futex, in any order of the futexes.                  *)
wakeTimedOut(t, f) ==
    /\ pc[t] = "sweep"
    /\ f \in toSweep
    /\ held[f] = t \/ (Free(f) /\ \A g \in Futexes : held[g] # t)
    /\ \/ /\ Expired(f) # {}
          /\ ResumeWaiter(t, f, FirstExpired(f), "signal", "sweep")
          /\ UNCHANGED toSweep
       \/ /\ Expired(f) = {}
          /\ HoldLock(f, NoThread)
          /\ toSweep' = toSweep \ {f}
          /\ UNCHANGED <<threadVars, queue>>
    /\ UNCHANGED <<call, left, calls, now, next, sweeper, home, atBarrier>>

SomeTimeout == \E f \in Futexes : \E i \in 1..Len(queue[f]) : queue[f][i].timeout < Never

(* The sweeper leaves barrierRelease and goes back to what it was doing.    *)
EndPeriodic(t, step) ==
    /\ sweeper' = NoThread
    /\ Step(t, step)
    /\ home' = "app"
    /\ atBarrier' = {}
    /\ UNCHANGED <<now, toSweep>>

(* The barrier time moves on by a quantum, except when advance() finds a    *)
(* thread running: it then returns at once.  If none is running it starts   *)
(* over as long as there is a timeout to wait for; without one it reports   *)
(* that the application has deadlocked.                                     *)
futexPeriodicEnd(t) ==
    /\ pc[t] = "sweep"
    /\ toSweep = {}
    /\ \/ /\ home = "advance" /\ anyThreadRunning
          /\ EndPeriodic(t, "check")
          /\ UNCHANGED next
       \/ /\ home = "advance" /\ ~anyThreadRunning /\ SomeTimeout /\ next < MaxTime
          /\ next' = next + 1
          /\ now' = next + 1
          /\ toSweep' = Futexes
          /\ UNCHANGED <<threadVars, sweeper, home, atBarrier>>
       \/ /\ home # "advance"
          /\ next' = next + 1
          /\ EndPeriodic(t, IF home = "exitHook" THEN "exited" ELSE home)
    /\ UNCHANGED futexVars

-----------------------------------------------------------------------------
Application(t) ==
    /\ t \notin atBarrier
    /\ onThreadExit(t) \/ \E c \in Calls : handleFutexCall(t, c)

Server(t) ==
    \/ ThreadStep(t) /\ UNCHANGED <<futexVars, timeVars>>
    \/ findFutexByUaddr(t) \/ enqueueWaiter(t)
    \/ dequeueWaiter(t) \/ release(t) \/ futexDoOp(t) \/ requeueLock(t) \/ requeueWaiters(t)
    \/ exitReturn(t)
    \/ barrierRelease(t) \/ loadRunningThreads(t) \/ advance(t)
    \/ futexPeriodicEnd(t) \/ \E f \in Futexes : wakeTimedOut(t, f)

Next == \E t \in Threads : Application(t) \/ Server(t)
Spec == Init /\ [][Next]_vars

-----------------------------------------------------------------------------
Waiting(t) == \E f \in Futexes : \E i \in 1..Len(queue[f]) : queue[f][i].thread = t

(* t is in the futexWait that queued it, and comes back only when resumed.  *)
InWait(t) == Parked(t) \/ (status[t] = "STALLED" /\ (pc[t] = "advance" \/ sweeper = t))

(* However wakes, requeues and timeouts interleave, a waiter is in one      *)
(* queue, once; it is taken out by one of them only, and resumed while it   *)
(* is still in its futexWait.  A wake and a sweep may be after the same     *)
(* waiter when the sweep starts from a stale count of running threads, or   *)
(* when the wake is that of an exiting thread.                              *)
OneResumePerWait ==
    /\ \A f, g \in Futexes : \A i \in 1..Len(queue[f]), j \in 1..Len(queue[g]) :
         queue[f][i].thread = queue[g][j].thread => f = g /\ i = j
    /\ \A t \in Threads : Waiting(t) => InWait(t)
    /\ \A t, u \in Threads : Resuming(u, t) =>
         /\ InWait(t)
         /\ ~Waiting(t)
         /\ \A v \in Threads : Resuming(v, t) => v = u

(* When futexPeriodic has run at a time, nobody is left waiting past a      *)
(* timeout, except who came to a queue while it ran: a waiter that a        *)
(* requeue moves behind the sweep is resumed by the next one.               *)
NoTimeoutMissed ==
    sweeper = NoThread =>
      \A f \in Futexes : \A i \in 1..Len(queue[f]) :
        queue[f][i].since < now => queue[f][i].timeout > now

(* t cannot go on before u releases a lock: SimFutex::m_lock of a futex,    *)
(* m_futexes_lock, or the barrier's m_lock.                                 *)
LockNeeded(t, f) ==
    \/ pc[t] \in {"enqueue", "dequeue"} /\ f = call[t].uaddr
    \/ pc[t] = "requeue1" /\ f = FirstLock(call[t])
    \/ pc[t] = "requeue2" /\ f = SecondLock(call[t])
    \/ pc[t] = "sweep" /\ f \in toSweep /\ \A g \in Futexes : held[g] # t

BlockedOn(t, u) ==
    \/ pc[t] = "find" /\ toSweep # {} /\ sweeper = u
    \/ pc[t] = "advance" /\ sweeper = u
    \/ \E f \in Futexes : LockNeeded(t, f) /\ held[f] = u


(* No thread waits for a lock that it holds itself.  futexCmpRequeue means  *)
(* to rule deadlocks out by the order of its two locks ("To avoid deadlock, *)
(* we should ideally have an order").                                       *)
NobodyWaitsForItself == \A t \in Threads : ~BlockedOn(t, t)
=============================================================================
