------------------------- MODULE BarrierSyncServer -------------------------
(***************************************************************************)
(* The barrier that keeps the clocks of the cores within a quantum of each  *)
(* other (BarrierSyncServer, BarrierSyncClient), in detailed mode and       *)
(* without SMT groups, with one thread pinned to each core.  A stretch of   *)
(* code under m_lock is one step; barrierRelease, which runs callbacks that *)
(* wake threads, is one step per turn of its loop, with m_lock held.        *)
(* The code holds locks while hook callbacks run: callHooks its own, and    *)
(* stallThread_async that of the thread (HooksLocked = TRUE).  The callbacks *)
(* of the barrier call hooks and resume threads themselves, for which they  *)
(* need these locks to be free (HooksLocked = FALSE).                       *)
(***************************************************************************)
EXTENDS Naturals, FiniteSets

CONSTANTS
    Cores,
    Started,     \* the cores whose threads run at first; the others start later
    NoCore,
    HooksLocked, \* whether locks are held while the callbacks of hooks run
    Joins,       \* whether threads wait for the exit of others
    Interval,    \* m_barrier_interval, the quantum
    HostCores,   \* Config::getNumHostCores
    MaxStep,     \* bound on the time a core needs between two calls of the client
    MaxTime      \* bound on the clock of a core

ASSUME BarrierAssumption ==
    /\ NoCore \notin Cores
    /\ Started \subseteq Cores
    /\ HooksLocked \in BOOLEAN
    /\ Joins \in BOOLEAN
    /\ Interval \in Nat \ {0}
    /\ HostCores \in Nat \ {0}
    /\ MaxStep \in Nat \ {0}
    /\ MaxTime \in Nat

VARIABLES
    status,      \* status[c]: the status of the thread on core c
    pc,          \* pc[c]: the step this thread takes next
    time,        \* time[c]: PerformanceModel::getElapsedTime
    nextSync,    \* nextSync[c]: BarrierSyncClient::m_next_sync_time
    next,        \* m_next_barrier_time
    global,      \* m_global_time
    clock,       \* m_local_clock_list
    acquired,    \* the cores with m_barrier_acquire_list set
    toRelease,   \* m_to_release, whose order is shuffled
    futx,        \* futx[c]: m_core_cond[c] has been signalled
    holder,      \* the core whose thread holds m_lock over several steps
    hooks        \* the core whose thread holds HooksManager::m_lock

coreVars == <<status, pc, time, nextSync>>
serverVars == <<next, global, clock, acquired, toRelease, futx, holder, hooks>>
vars == <<coreVars, serverVars>>

Releasing == {"releaseSync", "releaseHook", "releaseAdvance"}
Steps == {"init", "start", "run", "notify", "sync", "asleep", "stop", "hook", "check", "advance",
          "stalled", "exit", "exitNotify", "clearTid", "exited", "nested"} \cup Releasing

Init ==
    /\ status = [c \in Cores |-> IF c \in Started THEN "RUNNING" ELSE "INITIALIZING"]
    /\ pc = [c \in Cores |-> IF c \in Started THEN "run" ELSE "init"]
    /\ time = [c \in Cores |-> 0]
    /\ nextSync = [c \in Cores |-> Interval]
    /\ next = Interval
    /\ global = 0
    /\ clock = [c \in Cores |-> 0]
    /\ acquired = {}
    /\ toRelease = {}
    /\ futx = [c \in Cores |-> FALSE]
    /\ holder = NoCore
    /\ hooks = NoCore

(* Every variable stays within its type.                                    *)
TypeOK ==
    /\ status \in [Cores -> {"INITIALIZING", "RUNNING", "STALLED", "IDLE"}]
    /\ pc \in [Cores -> Steps]
    /\ time \in [Cores -> Nat]
    /\ nextSync \in [Cores -> Nat]
    /\ next \in Nat
    /\ global \in Nat
    /\ clock \in [Cores -> Nat]
    /\ acquired \subseteq Cores
    /\ toRelease \subseteq Cores
    /\ futx \in [Cores -> BOOLEAN]
    /\ holder \in Cores \cup {NoCore}
    /\ hooks \in Cores \cup {NoCore}

Goto(c, step) == pc' = [pc EXCEPT ![c] = step]
Unlocked == holder = NoCore

(* Later with a fault: a difference of times in the place of their maximum. *)
Between(a, b) == b - a
Later(a, b) == IF a < b THEN b ELSE a

(* The core is RUNNING as soon as its thread has started.                   *)
isCoreRunning(c) == status[c] = "RUNNING" /\ pc[c] # "start"

(* The statuses that m_num_running_threads counts.                          *)
Active == {"INITIALIZING", "RUNNING"}
anyThreadRunning == \E c \in Cores : status[c] \in Active
Stalled == {c \in Cores : status[c] = "STALLED"}

(* The client calls the server once the core has reached its sync time.     *)
AfterStep(c, t) == IF t >= nextSync[c] THEN "sync" ELSE "run"

(* NextSync with a fault: a quantum too late.                               *)
NextSyncLate(t) == (t \div Interval) * Interval + 2 * Interval

(* The client's next sync time, when the server lets the core go.           *)
NextSync(t) == (t \div Interval) * Interval + Interval

-----------------------------------------------------------------------------
execute(c) ==
    /\ pc[c] = "run"
    /\ \E d \in 1..MaxStep :
         /\ time[c] + d <= MaxTime
         /\ time' = [time EXCEPT ![c] = @ + d]
         /\ Goto(c, AfterStep(c, time[c] + d))
    /\ UNCHANGED <<status, nextSync, serverVars>>

(* doRelease signals up to n of the threads that wait for their turn.       *)
Batches(n, S) ==
    {R \in SUBSET S : Cardinality(R) = IF n < Cardinality(S) THEN n ELSE Cardinality(S)}

(* With a fault: the threads beyond the n first are forgotten.              *)
doReleaseDropsRest(n, S) ==
    \E R \in Batches(n, S) :
      /\ toRelease' = {}
      /\ futx' = [c \in Cores |-> futx[c] \/ c \in R]

doRelease(n, S) ==
    \E R \in Batches(n, S) :
      /\ toRelease' = S \ R
      /\ futx' = [c \in Cores |-> futx[c] \/ c \in R]

(* Every running core is at the barrier, and one at least.                  *)
isBarrierReached(clk) ==
    /\ \A c \in Cores : isCoreRunning(c) => clk[c] >= next
    /\ \E c \in Cores : isCoreRunning(c)

(* A core that is not at the barrier time yet returns at once; the others   *)
(* let another thread start and wait, or release the barrier.               *)
synchronize(c) ==
    /\ pc[c] = "sync"
    /\ Unlocked
    /\ IF time[c] < next
       THEN /\ Goto(c, "run")
            /\ nextSync' = [nextSync EXCEPT ![c] = NextSync(time[c])]
            /\ UNCHANGED serverVars
       ELSE /\ doRelease(1, toRelease)
            /\ clock' = [clock EXCEPT ![c] = time[c]]
            /\ acquired' = acquired \cup {c}
            /\ IF isBarrierReached(clock')
               THEN Goto(c, "releaseSync") /\ holder' = c
               ELSE Goto(c, "asleep") /\ UNCHANGED holder
            /\ UNCHANGED <<nextSync, next, global, hooks>>
    /\ UNCHANGED <<status, time>>

(* m_core_cond[c]->wait clears m_futx when it begins and ends on a signal.  *)
leave(c) ==
    /\ pc[c] = "asleep"
    /\ futx[c]
    /\ Unlocked
    /\ futx' = [futx EXCEPT ![c] = FALSE]
    /\ Goto(c, "run")
    /\ nextSync' = [nextSync EXCEPT ![c] = NextSync(time[c])]
    /\ UNCHANGED <<status, time, next, global, clock, acquired, toRelease, holder, hooks>>

-----------------------------------------------------------------------------
(* onThreadStart and onThreadExit hold m_thread_lock until they return.     *)
ThreadLockFree ==
    \A u \in Cores : pc[u] # "start" /\ (status[u] = "IDLE" => pc[u] = "exited")

(* stallThread_async and onThreadExit change the status, and call the hooks *)
(* afterwards.                                                              *)
Stop(c, state, step) ==
    /\ pc[c] = "run"
    /\ status' = [status EXCEPT ![c] = state]
    /\ Goto(c, step)
    /\ UNCHANGED <<time, nextSync, serverVars>>

stallThread_async(c) == Stop(c, "STALLED", "stop")

(* An exiting thread first resumes the one that joins it (wakeUpWaiter) and *)
(* then one that waits for its tid_ptr (CLONE_CHILD_CLEARTID), or nobody.   *)
onThreadExit(c) == ThreadLockFree /\ Stop(c, "IDLE", IF Joins THEN "exit" ELSE "stop")

wakeNobody(c) ==
    /\ pc[c] \in {"exit", "clearTid"}
    /\ Goto(c, IF pc[c] = "exit" THEN "clearTid" ELSE "stop")
    /\ UNCHANGED <<status, time, nextSync, serverVars>>

callHooks(c) ==
    /\ pc[c] = "stop"
    /\ hooks = NoCore
    /\ hooks' = IF HooksLocked THEN c ELSE NoCore
    /\ Goto(c, "hook")
    /\ UNCHANGED <<status, time, nextSync, next, global, clock, acquired, toRelease, futx, holder>>

AfterHook(c) == IF status[c] = "IDLE" THEN "exited" ELSE "check"

(* With a fault: the hook does not let another thread start.                *)
threadStallWithoutRelease(c) ==
    /\ pc[c] = "hook"
    /\ Unlocked
    /\ IF isBarrierReached(clock)
       THEN Goto(c, "releaseHook") /\ holder' = c /\ UNCHANGED hooks
       ELSE Goto(c, AfterHook(c)) /\ hooks' = NoCore /\ UNCHANGED holder
    /\ UNCHANGED <<status, time, nextSync, next, global, clock, acquired, toRelease, futx>>

(* With a fault: the hook releases the barrier without checking it.         *)
threadStallUnchecked(c) ==
    /\ pc[c] = "hook"
    /\ Unlocked
    /\ doRelease(1, toRelease)
    /\ Goto(c, "releaseHook") /\ holder' = c
    /\ UNCHANGED <<status, time, nextSync, next, global, clock, acquired, hooks>>

(* threadStall and threadExit.  The thread itself is not in the barrier.    *)
threadStall(c) ==
    /\ pc[c] = "hook"
    /\ Unlocked
    /\ doRelease(1, toRelease)
    /\ IF isBarrierReached(clock)
       THEN Goto(c, "releaseHook") /\ holder' = c /\ UNCHANGED hooks
       ELSE Goto(c, AfterHook(c)) /\ hooks' = NoCore /\ UNCHANGED holder
    /\ UNCHANGED <<status, time, nextSync, next, global, clock, acquired>>

(* stallThread advances the time as long as no thread runs, and then waits  *)
(* until its thread does.                                                   *)
stallThread(c) ==
    /\ pc[c] = "check"
    /\ Goto(c, IF anyThreadRunning THEN "stalled" ELSE "advance")
    /\ UNCHANGED <<status, time, nextSync, serverVars>>

wakeUp(c) ==
    /\ pc[c] = "stalled"
    /\ status[c] = "RUNNING"
    /\ Goto(c, AfterStep(c, time[c]))
    /\ UNCHANGED <<status, time, nextSync, serverVars>>

(* Threads S resume at time t: their clocks do not go back.                 *)
Resume(S, t) ==
    /\ status' = [c \in Cores |-> IF c \in S THEN "RUNNING" ELSE status[c]]
    /\ time' = [c \in Cores |-> IF c \in S THEN Later(time[c], t) ELSE time[c]]

(* Thread c resumes u, unless u holds its own lock while hooks run, and     *)
(* calls hooks that only take their lock for a moment.                      *)
resumeThread(c, u) ==
    /\ pc[c] \in {"run", "exit", "clearTid"}
    /\ u \in Stalled
    /\ HooksLocked => pc[u] \notin {"stop", "hook", "releaseHook"}
    /\ Resume({u}, time[c])
    /\ Goto(c, IF pc[c] = "exit" THEN "exitNotify" ELSE "notify")
    /\ UNCHANGED <<nextSync, serverVars>>

AfterNotify(c) ==
    CASE pc[c] = "exitNotify" -> "clearTid"
      [] pc[c] = "notify" /\ status[c] = "IDLE" -> "stop"
      [] OTHER -> AfterStep(c, time[c])

notify(c) ==
    /\ pc[c] \in {"notify", "exitNotify"}
    /\ hooks = NoCore
    /\ Goto(c, AfterNotify(c))
    /\ UNCHANGED <<status, time, nextSync, serverVars>>

(* Thread c starts, spawned by u: its status changes before the hooks, and  *)
(* the state of its core after them.                                        *)
onThreadStart(c, u) ==
    /\ pc[c] = "init"
    /\ ThreadLockFree
    /\ Resume({c}, time[u])
    /\ Goto(c, "start")
    /\ UNCHANGED <<nextSync, serverVars>>

setCoreState(c) ==
    /\ pc[c] = "start"
    /\ hooks = NoCore
    /\ Goto(c, AfterStep(c, time[c]))
    /\ UNCHANGED <<status, time, nextSync, serverVars>>

(* barrierRelease asserts that every thread it released has started.        *)
advance(c) ==
    /\ pc[c] = "advance"
    /\ Unlocked
    /\ toRelease = {}
    /\ holder' = c
    /\ Goto(c, "releaseAdvance")
    /\ UNCHANGED <<status, time, nextSync, next, global, clock, acquired, toRelease, futx, hooks>>

-----------------------------------------------------------------------------
TimedOut ==
    IF next > MaxTime THEN {{}}
    ELSE {S \in SUBSET Stalled : HooksLocked => Cardinality(S) <= 1}
Reached(n) == {c \in acquired : clock[c] < n}

(* HOOK_PERIODIC resumes threads S whose timeouts have passed.  Resuming    *)
(* one calls hooks again: with the lock taken, the caller waits for itself. *)
SelfDeadlock(S) == HooksLocked /\ S # {}

callPeriodicHooks(c, S) ==
    /\ hooks = NoCore
    /\ global' = next
    /\ Resume(S, next)

Nested(c) ==
    /\ Goto(c, "nested")
    /\ hooks' = c
    /\ UNCHANGED <<nextSync, next, acquired, toRelease, futx, holder>>

(* The release ends when a core is resumed; the caller goes on without      *)
(* waiting when it is one of them.                                          *)
FinishRelease(c) ==
    /\ holder' = NoCore
    /\ acquired' = acquired \ Reached(next')
    /\ doRelease(HostCores, toRelease \cup (Reached(next') \ {c}))
    /\ \/ /\ pc[c] = "releaseSync" /\ c \in Reached(next')
          /\ Goto(c, "run")
          /\ nextSync' = [nextSync EXCEPT ![c] = NextSync(time[c])]
       \/ /\ pc[c] = "releaseSync" /\ c \notin Reached(next')
          /\ Goto(c, "asleep")
          /\ UNCHANGED nextSync
       \/ /\ pc[c] = "releaseHook"
          /\ Goto(c, AfterHook(c))
          /\ UNCHANGED nextSync

(* One turn of the loop of barrierRelease, which moves the barrier on by a  *)
(* quantum until some core can be released.                                 *)
barrierRelease(c, S) ==
    /\ pc[c] \in {"releaseSync", "releaseHook"}
    /\ callPeriodicHooks(c, S)
    /\ IF SelfDeadlock(S)
       THEN Nested(c)
       ELSE /\ next' = next + Interval
            /\ IF Reached(next') # {}
               THEN FinishRelease(c)
               ELSE UNCHANGED <<pc, nextSync, acquired, toRelease, futx, holder>>
            /\ UNCHANGED hooks
    /\ UNCHANGED clock

(* From advance() the loop ends when the callbacks have resumed a thread.   *)
barrierAdvance(c, S) ==
    /\ pc[c] = "releaseAdvance"
    /\ callPeriodicHooks(c, S)
    /\ IF SelfDeadlock(S)
       THEN Nested(c)
       ELSE /\ \/ /\ \E u \in Cores : status'[u] \in Active
                  /\ Goto(c, "check")
                  /\ holder' = NoCore
                  /\ UNCHANGED next
               \/ /\ \A u \in Cores : status'[u] \notin Active
                  /\ next < MaxTime
                  /\ next' = next + Interval
                  /\ UNCHANGED <<pc, holder>>
            /\ UNCHANGED <<nextSync, acquired, toRelease, futx, hooks>>
    /\ UNCHANGED clock

-----------------------------------------------------------------------------
Core(c) ==
    \/ execute(c) \/ stallThread_async(c) \/ onThreadExit(c)
    \/ \E u \in Cores : resumeThread(c, u) \/ onThreadStart(c, u)

Server(c) ==
    \/ wakeNobody(c) \/ notify(c) \/ setCoreState(c) \/ synchronize(c) \/ leave(c) \/ callHooks(c) \/ threadStall(c)
    \/ stallThread(c) \/ wakeUp(c) \/ advance(c)
    \/ \E S \in TimedOut : barrierRelease(c, S) \/ barrierAdvance(c, S)

Next == \E c \in Cores : Core(c) \/ Server(c)
Spec == Init /\ [][Next]_vars

(* A thread that runs goes on running, and the server's code takes its      *)
(* steps.                                                                   *)
FairSpec == Spec /\ \A c \in Cores : WF_vars(Server(c)) /\ SF_vars(execute(c) \/ onThreadExit(c))

-----------------------------------------------------------------------------
(* A core that executes has not passed the barrier time: it is at most one  *)
(* quantum ahead of the slowest one, which the simulated times rest on.     *)
WithinQuantum == \A c \in Cores : pc[c] = "run" => time[c] < next

(* A thread that sleeps in the barrier and has not been signalled is either *)
(* waiting for the barrier or for its turn to start, and only such threads  *)
(* are.                                                                     *)
NobodyForgotten ==
    /\ \A c \in Cores : pc[c] = "asleep" /\ ~futx[c] => c \in acquired \cup toRelease
    /\ \A c \in acquired \cup toRelease : pc[c] \in {"asleep", "releaseSync", "nested"} /\ ~futx[c]

(* When all running cores have reached the barrier, every thread that the   *)
(* last release let go has in fact started: whoever still sleeps waits for  *)
(* the present release.  barrierRelease asserts it.                         *)
EveryoneRestarted ==
    \A c, u \in Cores :
      pc[c] \in {"releaseSync", "releaseHook"} /\ pc[u] = "asleep" => u \in acquired

(* The lock of the hooks manager is never released again: a thread that     *)
(* holds it calls hooks from barrierRelease, or it waits for the barrier's  *)
(* m_lock while the holder of that one is about to call hooks.              *)
HooksStuck ==
    \/ \E u \in Cores : hooks = u /\ pc[u] \in {"nested", "releaseHook"}
    \/ \E u, v \in Cores : hooks = u /\ pc[u] = "hook" /\ holder = v /\ pc[v] \in Releasing

(* With the locks as they are, a thread that has entered the barrier gets   *)
(* out of it, barrier after barrier, although only HostCores threads are    *)
(* started at a time and each of them starts the next one when it stops;    *)
(* only a deadlock on the lock of the hooks keeps it there.                 *)
OnlyHooksHoldTheBarrier ==
    \A c \in Cores : pc[c] = "asleep" ~> (pc[c] # "asleep" \/ HooksStuck)

(* A thread that has entered the barrier gets out of it, although only      *)
(* HostCores threads are started at a time and each of them starts the next *)
(* one when it stops.                                                       *)
EveryoneLeavesTheBarrier == \A c \in Cores : pc[c] = "asleep" ~> pc[c] # "asleep"
=============================================================================
