------------------------------ MODULE Threads ------------------------------
(***************************************************************************)
(* Simulated threads that are stalled and resumed by the thread manager     *)
(* (ThreadManager::stallThread, resumeThread and the ConditionVariable of   *)
(* each Thread).  Every simulated thread is a host thread; pc is the step   *)
(* it takes next, "app" when it is in no call.  A stretch of code under one *)
(* Thread::m_lock is one step.  The callbacks that the hooks run on a stall *)
(* or a resume are taken to return.                                         *)
(***************************************************************************)
CONSTANTS
    Threads,    \* the simulated threads
    NoThread    \* INVALID_THREAD_ID, and SimMutex::NO_OWNER

ASSUME ThreadsAssumption == NoThread \notin Threads

VARIABLES
    status,     \* status[t]: ThreadState::status
    futx,       \* futx[t]: m_cond.m_futx, set by a signal
    woken,      \* woken[t]: m_wakeup_msg
    pc,         \* pc[t]: the step t takes next
    back,       \* back[t]: the step t takes after stallThread or resumeThread
    whom        \* whom[t]: the thread that t is resuming

threadVars == <<status, futx, woken, pc, back, whom>>

StallSteps == {"stall", "check", "wait", "asleep"}
ResumeSteps == {"signal", "signalTrue", "run"}

ThreadsInit ==
    /\ status = [t \in Threads |-> "RUNNING"]
    /\ futx = [t \in Threads |-> FALSE]
    /\ woken = [t \in Threads |-> FALSE]
    /\ pc = [t \in Threads |-> "app"]
    /\ back = [t \in Threads |-> "app"]
    /\ whom = [t \in Threads |-> NoThread]

(* The types, with the steps of the calls that use the thread manager.      *)
ThreadsTypeOK(steps) ==
    /\ status \in [Threads -> {"RUNNING", "STALLED", "IDLE"}]
    /\ futx \in [Threads -> BOOLEAN]
    /\ woken \in [Threads -> BOOLEAN]
    /\ pc \in [Threads -> StallSteps \cup ResumeSteps \cup steps]
    /\ back \in [Threads -> steps \cup {"stall"}]
    /\ whom \in [Threads -> Threads \cup {NoThread}]

Goto(t, step) == pc' = [pc EXCEPT ![t] = step]
BackTo(t, step) == back' = [back EXCEPT ![t] = step]

(* t returns from stallThread or resumeThread.                              *)
Leave(t) == Goto(t, back[t]) /\ BackTo(t, "app")

(* t calls stallThread on itself, or resumeThread on u, and goes on at      *)
(* "step" afterwards.                                                       *)
StallThen(t, step) ==
    /\ Goto(t, "stall") /\ BackTo(t, step)
    /\ UNCHANGED <<status, futx, woken, whom>>

ResumeThen(t, u, how, step) ==
    /\ Goto(t, how) /\ BackTo(t, step)
    /\ whom' = [whom EXCEPT ![t] = u]
    /\ UNCHANGED <<status, futx, woken>>

Step(t, step) ==
    /\ Goto(t, step)
    /\ UNCHANGED <<status, futx, woken, back, whom>>

-----------------------------------------------------------------------------
stallThread_async(t) ==
    /\ pc[t] = "stall"
    /\ status' = [status EXCEPT ![t] = "STALLED"]
    /\ Goto(t, "check")
    /\ UNCHANGED <<futx, woken, back, whom>>

anyThreadRunning == \E t \in Threads : status[t] = "RUNNING"

(* stallThread, once some thread runs, looks at its own status before it    *)
(* waits.                                                                   *)
checkStatus(t) ==
    /\ pc[t] = "check"
    /\ anyThreadRunning
    /\ IF status[t] = "RUNNING" THEN Leave(t) ELSE Goto(t, "wait") /\ UNCHANGED back
    /\ UNCHANGED <<status, futx, woken, whom>>

(* The loop of Thread::wait: a stalled thread clears m_futx and sleeps.     *)
SleepOrReturn(t) ==
    IF status[t] = "STALLED"
    THEN Goto(t, "asleep") /\ futx' = [futx EXCEPT ![t] = FALSE] /\ UNCHANGED back
    ELSE Leave(t) /\ UNCHANGED futx

wait(t) ==
    /\ pc[t] = "wait"
    /\ woken' = [woken EXCEPT ![t] = FALSE]
    /\ SleepOrReturn(t)
    /\ UNCHANGED <<status, whom>>

wakeUp(t) ==
    /\ pc[t] = "asleep"
    /\ futx[t]
    /\ SleepOrReturn(t)
    /\ UNCHANGED <<status, woken, whom>>

(* resumeThread: Thread::signal comes first, with the message of the call,  *)
signal(t) ==
    /\ pc[t] \in {"signal", "signalTrue"}
    /\ futx' = [futx EXCEPT ![whom[t]] = TRUE]
    /\ woken' = [woken EXCEPT ![whom[t]] = (pc[t] = "signalTrue")]
    /\ Goto(t, "run")
    /\ UNCHANGED <<status, back, whom>>

(* and resumeThread_async second.                                           *)
resumeThread_async(t) ==
    /\ pc[t] = "run"
    /\ status' = [status EXCEPT ![whom[t]] = "RUNNING"]
    /\ whom' = [whom EXCEPT ![t] = NoThread]
    /\ Leave(t)
    /\ UNCHANGED <<futx, woken>>

ThreadStep(t) ==
    \/ stallThread_async(t) \/ checkStatus(t) \/ wait(t) \/ wakeUp(t)
    \/ signal(t) \/ resumeThread_async(t)

(* The calls that stall a thread have put it in a queue before; as long as  *)
(* nobody resumes it, it stays in stallThread.                              *)
Parked(t) ==
    \/ pc[t] = "stall"
    \/ pc[t] \in {"check", "wait", "asleep"} /\ status[t] = "STALLED"

Resuming(t, u) == pc[t] \in ResumeSteps /\ whom[t] = u
=============================================================================
