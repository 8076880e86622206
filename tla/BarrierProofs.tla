--------------------------- MODULE BarrierProofs ---------------------------
(***************************************************************************)
(* Proofs about the barrier, for any number of cores, any quantum and any   *)
(* number of host cores: no core executes past the barrier time, no sleeper *)
(* is forgotten, and a release starts only when everyone the last one let   *)
(* go has restarted.  The invariant behind them ties the sync times of the  *)
(* clients to the barrier time, and the three places a sleeper can be in    *)
(* (waiting for the barrier, for its turn, or signalled) to each other.     *)
(***************************************************************************)
EXTENDS BarrierSyncServer, TLAPS

(* The barrier time is a multiple of the quantum, and no client syncs later. *)
SyncTimes ==
    /\ \E k \in Nat : next = k * Interval
    /\ \A c \in Cores : nextSync[c] <= next

(* A thread that executes or is in the barrier is RUNNING, and one that     *)
(* resumes another may also be exiting.                                     *)
Awake ==
    \A c \in Cores :
      /\ pc[c] \in {"start", "run", "sync", "asleep", "releaseSync"} => status[c] = "RUNNING"
      /\ pc[c] = "notify" => status[c] \in {"RUNNING", "IDLE"}
      /\ pc[c] \in {"exit", "exitNotify", "clearTid"} => status[c] = "IDLE"

(* Inside the barrier a core's clock is the one the server knows.           *)
ClocksKnown == \A c \in Cores : pc[c] \in {"asleep", "releaseSync"} => clock[c] = time[c]

(* One thread at a time releases the barrier, under m_lock.                 *)
OneReleaser == \A c \in Cores : pc[c] \in Releasing \cup {"nested"} => holder = c

(* A sleeper that was let go can execute: its time is below the barrier's.  *)
LetGo == \A c \in Cores : futx[c] \/ c \in toRelease => pc[c] = "asleep" /\ time[c] < next

(* A thread waits for the barrier or for its turn, not for both.            *)
Places ==
    /\ acquired \cap toRelease = {}
    /\ \A c \in Cores : pc[c] = "releaseSync" => c \in acquired

IInv ==
    /\ TypeOK /\ SyncTimes /\ Awake /\ ClocksKnown /\ OneReleaser /\ LetGo /\ Places
    /\ WithinQuantum /\ NobodyForgotten /\ EveryoneRestarted

-----------------------------------------------------------------------------
(* A multiple of the quantum that lies above t is at or above NextSync(t).  *)
LEMMA NextSyncBound ==
    ASSUME NEW t \in Nat, NEW k \in Nat, t < k * Interval
    PROVE  NextSync(t) \in Nat /\ NextSync(t) <= k * Interval
  <1> DEFINE q == t \div Interval
  <1>1. Interval \in Nat /\ Interval > 0 BY BarrierAssumption
  <1>2. q \in Nat BY <1>1
  <1>3. q * Interval <= t BY <1>1
  <1>4. q < k
    <2> SUFFICES ASSUME k <= q PROVE FALSE BY <1>2
    <2>1. k * Interval <= q * Interval BY <1>1, <1>2
    <2> QED BY <2>1, <1>1, <1>2, <1>3
  <1>5. (q + 1) * Interval <= k * Interval BY <1>1, <1>2, <1>4
  <1>6. (q + 1) * Interval = q * Interval + Interval BY <1>1, <1>2
  <1>7. q * Interval \in Nat BY <1>1, <1>2
  <1> QED BY <1>1, <1>5, <1>6, <1>7 DEF NextSync

(* doRelease moves some of the threads that wait for their turn to the       *)
(* signalled ones.                                                          *)
LEMMA ReleaseBatch ==
    ASSUME NEW n, NEW S, doRelease(n, S)
    PROVE  \E R \in SUBSET S :
             toRelease' = S \ R /\ futx' = [c \in Cores |-> futx[c] \/ c \in R]
  BY DEF doRelease, Batches

(* Once every running core has reached the barrier, no sleeper is on its    *)
(* way out: such a sleeper runs, and its clock is below the barrier time.   *)
LEMMA ReachedMeansRestarted ==
    ASSUME IInv, NEW clk, isBarrierReached(clk),
           NEW u \in Cores, clk[u] = clock[u], pc[u] = "asleep"
    PROVE  u \in acquired
  <1> USE DEF IInv
  <1>1. clock[u] >= next BY DEF isBarrierReached, isCoreRunning, Awake
  <1>2. clock[u] = time[u] BY DEF ClocksKnown
  <1>3. ~(time[u] < next) BY <1>1, <1>2 DEF TypeOK
  <1>4. ~futx[u] /\ u \notin toRelease BY <1>3 DEF LetGo
  <1> QED BY <1>4 DEF NobodyForgotten

(* A core executes: it goes on only below its sync time.                    *)
LEMMA ExecuteStep ==
    ASSUME IInv, NEW c \in Cores, execute(c)
    PROVE  IInv'
  <1> USE DEF IInv, execute, AfterStep, Goto, serverVars, Releasing
  <1>1. TypeOK' BY DEF TypeOK, Steps
  <1>2. SyncTimes' BY DEF TypeOK, SyncTimes
  <1>3. Awake' BY DEF TypeOK, Awake
  <1>4. ClocksKnown' BY DEF TypeOK, ClocksKnown, Awake
  <1>5. OneReleaser' BY DEF TypeOK, OneReleaser
  <1>6. LetGo' BY DEF TypeOK, LetGo, Awake
  <1>7. Places' BY DEF TypeOK, Places, LetGo
  <1>8. WithinQuantum' BY DEF TypeOK, WithinQuantum, SyncTimes, Awake
  <1>9. NobodyForgotten' BY DEF TypeOK, NobodyForgotten, LetGo
  <1>10. EveryoneRestarted' BY DEF TypeOK, EveryoneRestarted, LetGo
  <1> QED BY <1>1, <1>2, <1>3, <1>4, <1>5, <1>6, <1>7, <1>8, <1>9, <1>10

(* A signalled sleeper leaves the barrier, with a sync time within it.      *)
LEMMA LeaveStep ==
    ASSUME IInv, NEW c \in Cores, leave(c)
    PROVE  IInv'
  <1> USE DEF IInv, leave, Goto, Unlocked, Releasing
  <1>0. NextSync(time[c]) \in Nat /\ NextSync(time[c]) <= next
    <2>1. PICK k \in Nat : next = k * Interval BY DEF SyncTimes
    <2>2. time[c] \in Nat /\ time[c] < next BY DEF TypeOK, LetGo
    <2> QED BY <2>1, <2>2, NextSyncBound
  <1>1. TypeOK' BY <1>0 DEF TypeOK, Steps
  <1>2. SyncTimes' BY <1>0 DEF TypeOK, SyncTimes
  <1>3. Awake' BY DEF TypeOK, Awake
  <1>4. ClocksKnown' BY DEF TypeOK, ClocksKnown
  <1>5. OneReleaser' BY DEF TypeOK, OneReleaser
  <1>6. LetGo' BY DEF TypeOK, LetGo, NobodyForgotten
  <1>7. Places' BY DEF TypeOK, Places
  <1>8. WithinQuantum' BY DEF TypeOK, WithinQuantum, LetGo
  <1>9. NobodyForgotten' BY DEF TypeOK, NobodyForgotten
  <1>10. EveryoneRestarted' BY DEF TypeOK, EveryoneRestarted
  <1> QED BY <1>1, <1>2, <1>3, <1>4, <1>5, <1>6, <1>7, <1>8, <1>9, <1>10

(* A thread stalls or exits.                                                *)
LEMMA StopStep ==
    ASSUME IInv, NEW c \in Cores, NEW s \in {"STALLED", "IDLE"},
           NEW step \in {"stop", "exit"}, Stop(c, s, step), step = "exit" => s = "IDLE"
    PROVE  IInv'
  <1> USE DEF IInv, Stop, Goto, serverVars, Releasing
  <1>1. TypeOK' BY DEF TypeOK, Steps
  <1>2. SyncTimes' BY DEF TypeOK, SyncTimes
  <1>3. Awake' BY DEF TypeOK, Awake
  <1>4. ClocksKnown' BY DEF TypeOK, ClocksKnown, Awake
  <1>5. OneReleaser' BY DEF TypeOK, OneReleaser
  <1>6. LetGo' BY DEF TypeOK, LetGo, Awake
  <1>7. Places' BY DEF TypeOK, Places, LetGo
  <1>8. WithinQuantum' BY DEF TypeOK, WithinQuantum, SyncTimes, Awake
  <1>9. NobodyForgotten' BY DEF TypeOK, NobodyForgotten, LetGo
  <1>10. EveryoneRestarted' BY DEF TypeOK, EveryoneRestarted, LetGo
  <1> QED BY <1>1, <1>2, <1>3, <1>4, <1>5, <1>6, <1>7, <1>8, <1>9, <1>10

(* An exiting thread has nobody to wake.                                    *)
LEMMA WakeNobodyStep ==
    ASSUME IInv, NEW c \in Cores, wakeNobody(c)
    PROVE  IInv'
  <1> USE DEF IInv, wakeNobody, Goto, serverVars, Releasing
  <1>1. TypeOK' BY DEF TypeOK, Steps
  <1>2. SyncTimes' BY DEF TypeOK, SyncTimes
  <1>3. Awake' BY DEF TypeOK, Awake
  <1>4. ClocksKnown' BY DEF TypeOK, ClocksKnown, Awake
  <1>5. OneReleaser' BY DEF TypeOK, OneReleaser
  <1>6. LetGo' BY DEF TypeOK, LetGo, Awake
  <1>7. Places' BY DEF TypeOK, Places, LetGo
  <1>8. WithinQuantum' BY DEF TypeOK, WithinQuantum, SyncTimes, Awake
  <1>9. NobodyForgotten' BY DEF TypeOK, NobodyForgotten, LetGo
  <1>10. EveryoneRestarted' BY DEF TypeOK, EveryoneRestarted, LetGo
  <1> QED BY <1>1, <1>2, <1>3, <1>4, <1>5, <1>6, <1>7, <1>8, <1>9, <1>10

(* It calls the hooks of the barrier.                                       *)
LEMMA CallHooksStep ==
    ASSUME IInv, NEW c \in Cores, callHooks(c)
    PROVE  IInv'
  <1> USE DEF IInv, callHooks, Goto, serverVars, Releasing
  <1>1. TypeOK' BY DEF TypeOK, Steps
  <1>2. SyncTimes' BY DEF TypeOK, SyncTimes
  <1>3. Awake' BY DEF TypeOK, Awake
  <1>4. ClocksKnown' BY DEF TypeOK, ClocksKnown, Awake
  <1>5. OneReleaser' BY DEF TypeOK, OneReleaser
  <1>6. LetGo' BY DEF TypeOK, LetGo, Awake
  <1>7. Places' BY DEF TypeOK, Places, LetGo
  <1>8. WithinQuantum' BY DEF TypeOK, WithinQuantum, SyncTimes, Awake
  <1>9. NobodyForgotten' BY DEF TypeOK, NobodyForgotten, LetGo
  <1>10. EveryoneRestarted' BY DEF TypeOK, EveryoneRestarted, LetGo
  <1> QED BY <1>1, <1>2, <1>3, <1>4, <1>5, <1>6, <1>7, <1>8, <1>9, <1>10

(* The hook lets another thread start, and may find the barrier reached.    *)
LEMMA ThreadStallStep ==
    ASSUME IInv, NEW c \in Cores, threadStall(c)
    PROVE  IInv'
  <1> USE DEF IInv, threadStall, AfterHook, Goto, Unlocked, Releasing
  <1>0. PICK R \in SUBSET toRelease :
          toRelease' = toRelease \ R /\ futx' = [u \in Cores |-> futx[u] \/ u \in R]
    BY ReleaseBatch
  <1>1. TypeOK' BY <1>0 DEF TypeOK, Steps
  <1>2. SyncTimes' BY DEF TypeOK, SyncTimes
  <1>3. Awake' BY DEF TypeOK, Awake
  <1>4. ClocksKnown' BY DEF TypeOK, ClocksKnown
  <1>5. OneReleaser' BY BarrierAssumption DEF TypeOK, OneReleaser
  <1>6. LetGo' BY <1>0 DEF TypeOK, LetGo
  <1>7. Places' BY <1>0 DEF TypeOK, Places
  <1>8. WithinQuantum' BY DEF TypeOK, WithinQuantum
  <1>9. NobodyForgotten' BY <1>0, Zenon DEF TypeOK, NobodyForgotten, Places
  <1>10. EveryoneRestarted'
    <2>1. CASE isBarrierReached(clock)
      BY <2>1, ReachedMeansRestarted DEF TypeOK, EveryoneRestarted
    <2>2. CASE ~isBarrierReached(clock)
      BY <2>2 DEF TypeOK, EveryoneRestarted
    <2> QED BY <2>1, <2>2
  <1> QED BY <1>1, <1>2, <1>3, <1>4, <1>5, <1>6, <1>7, <1>8, <1>9, <1>10

(* The thread looks whether any other runs.                                 *)
LEMMA StallThreadStep ==
    ASSUME IInv, NEW c \in Cores, stallThread(c)
    PROVE  IInv'
  <1> USE DEF IInv, stallThread, Goto, serverVars, Releasing
  <1>1. TypeOK' BY DEF TypeOK, Steps
  <1>2. SyncTimes' BY DEF TypeOK, SyncTimes
  <1>3. Awake' BY DEF TypeOK, Awake
  <1>4. ClocksKnown' BY DEF TypeOK, ClocksKnown, Awake
  <1>5. OneReleaser' BY DEF TypeOK, OneReleaser
  <1>6. LetGo' BY DEF TypeOK, LetGo, Awake
  <1>7. Places' BY DEF TypeOK, Places, LetGo
  <1>8. WithinQuantum' BY DEF TypeOK, WithinQuantum, SyncTimes, Awake
  <1>9. NobodyForgotten' BY DEF TypeOK, NobodyForgotten, LetGo
  <1>10. EveryoneRestarted' BY DEF TypeOK, EveryoneRestarted, LetGo
  <1> QED BY <1>1, <1>2, <1>3, <1>4, <1>5, <1>6, <1>7, <1>8, <1>9, <1>10

(* A resumed thread goes on.                                                *)
LEMMA WakeUpStep ==
    ASSUME IInv, NEW c \in Cores, wakeUp(c)
    PROVE  IInv'
  <1> USE DEF IInv, wakeUp, AfterStep, Goto, serverVars, Releasing
  <1>1. TypeOK' BY DEF TypeOK, Steps
  <1>2. SyncTimes' BY DEF TypeOK, SyncTimes
  <1>3. Awake' BY DEF TypeOK, Awake
  <1>4. ClocksKnown' BY DEF TypeOK, ClocksKnown, Awake
  <1>5. OneReleaser' BY DEF TypeOK, OneReleaser
  <1>6. LetGo' BY DEF TypeOK, LetGo, Awake
  <1>7. Places' BY DEF TypeOK, Places, LetGo
  <1>8. WithinQuantum' BY DEF TypeOK, WithinQuantum, SyncTimes, Awake
  <1>9. NobodyForgotten' BY DEF TypeOK, NobodyForgotten, LetGo
  <1>10. EveryoneRestarted' BY DEF TypeOK, EveryoneRestarted, LetGo
  <1> QED BY <1>1, <1>2, <1>3, <1>4, <1>5, <1>6, <1>7, <1>8, <1>9, <1>10

(* A thread resumes another, which was not running.                         *)
LEMMA ResumeThreadStep ==
    ASSUME IInv, NEW c \in Cores, NEW u \in Cores, resumeThread(c, u)
    PROVE  IInv'
  <1> USE DEF IInv, resumeThread, Resume, Later, Stalled, Goto, serverVars, Releasing
  <1>1. TypeOK' BY DEF TypeOK, Steps
  <1>2. SyncTimes' BY DEF TypeOK, SyncTimes
  <1>3. Awake'
    <2>1. CASE pc[c] = "run" BY <2>1 DEF TypeOK, Awake
    <2>2. CASE pc[c] = "exit" BY <2>2 DEF TypeOK, Awake
    <2>3. CASE pc[c] = "clearTid" BY <2>3 DEF TypeOK, Awake
    <2> QED BY <2>1, <2>2, <2>3
  <1>4. ClocksKnown' BY DEF TypeOK, ClocksKnown, Awake
  <1>5. OneReleaser' BY DEF TypeOK, OneReleaser
  <1>6. LetGo' BY DEF TypeOK, LetGo, Awake
  <1>7. Places' BY DEF TypeOK, Places, LetGo
  <1>8. WithinQuantum' BY DEF TypeOK, WithinQuantum, SyncTimes, Awake
  <1>9. NobodyForgotten' BY DEF TypeOK, NobodyForgotten, LetGo
  <1>10. EveryoneRestarted' BY DEF TypeOK, EveryoneRestarted, LetGo
  <1> QED BY <1>1, <1>2, <1>3, <1>4, <1>5, <1>6, <1>7, <1>8, <1>9, <1>10

(* It calls the hooks of a resume.                                          *)
LEMMA NotifyStep ==
    ASSUME IInv, NEW c \in Cores, notify(c)
    PROVE  IInv'
  <1> USE DEF IInv, notify, AfterNotify, AfterStep, Goto, serverVars, Releasing
  <1>1. TypeOK' BY DEF TypeOK, Steps
  <1>2. SyncTimes' BY DEF TypeOK, SyncTimes
  <1>3. Awake' BY DEF TypeOK, Awake
  <1>4. ClocksKnown' BY DEF TypeOK, ClocksKnown, Awake
  <1>5. OneReleaser' BY DEF TypeOK, OneReleaser
  <1>6. LetGo' BY DEF TypeOK, LetGo, Awake
  <1>7. Places' BY DEF TypeOK, Places, LetGo
  <1>8. WithinQuantum' BY DEF TypeOK, WithinQuantum, SyncTimes, Awake
  <1>9. NobodyForgotten' BY DEF TypeOK, NobodyForgotten, LetGo
  <1>10. EveryoneRestarted' BY DEF TypeOK, EveryoneRestarted, LetGo
  <1> QED BY <1>1, <1>2, <1>3, <1>4, <1>5, <1>6, <1>7, <1>8, <1>9, <1>10

(* A thread starts.                                                         *)
LEMMA OnThreadStartStep ==
    ASSUME IInv, NEW c \in Cores, NEW u \in Cores, onThreadStart(c, u)
    PROVE  IInv'
  <1> USE DEF IInv, onThreadStart, Resume, Later, Goto, serverVars, Releasing
  <1>1. TypeOK' BY DEF TypeOK, Steps
  <1>2. SyncTimes' BY DEF TypeOK, SyncTimes
  <1>3. Awake' BY DEF TypeOK, Awake
  <1>4. ClocksKnown' BY DEF TypeOK, ClocksKnown, Awake
  <1>5. OneReleaser' BY DEF TypeOK, OneReleaser
  <1>6. LetGo' BY DEF TypeOK, LetGo, Awake
  <1>7. Places' BY DEF TypeOK, Places, LetGo
  <1>8. WithinQuantum' BY DEF TypeOK, WithinQuantum, SyncTimes, Awake
  <1>9. NobodyForgotten' BY DEF TypeOK, NobodyForgotten, LetGo
  <1>10. EveryoneRestarted' BY DEF TypeOK, EveryoneRestarted, LetGo
  <1> QED BY <1>1, <1>2, <1>3, <1>4, <1>5, <1>6, <1>7, <1>8, <1>9, <1>10

(* Its core becomes RUNNING.                                                *)
LEMMA SetCoreStateStep ==
    ASSUME IInv, NEW c \in Cores, setCoreState(c)
    PROVE  IInv'
  <1> USE DEF IInv, setCoreState, AfterStep, Goto, serverVars, Releasing
  <1>1. TypeOK' BY DEF TypeOK, Steps
  <1>2. SyncTimes' BY DEF TypeOK, SyncTimes
  <1>3. Awake' BY DEF TypeOK, Awake
  <1>4. ClocksKnown' BY DEF TypeOK, ClocksKnown, Awake
  <1>5. OneReleaser' BY DEF TypeOK, OneReleaser
  <1>6. LetGo' BY DEF TypeOK, LetGo, Awake
  <1>7. Places' BY DEF TypeOK, Places, LetGo
  <1>8. WithinQuantum' BY DEF TypeOK, WithinQuantum, SyncTimes, Awake
  <1>9. NobodyForgotten' BY DEF TypeOK, NobodyForgotten, LetGo
  <1>10. EveryoneRestarted' BY DEF TypeOK, EveryoneRestarted, LetGo
  <1> QED BY <1>1, <1>2, <1>3, <1>4, <1>5, <1>6, <1>7, <1>8, <1>9, <1>10

(* A stalled thread takes m_lock to advance the time.                       *)
LEMMA AdvanceStep ==
    ASSUME IInv, NEW c \in Cores, advance(c)
    PROVE  IInv'
  <1> USE DEF IInv, advance, Goto, Unlocked, serverVars, Releasing
  <1>1. TypeOK' BY DEF TypeOK, Steps
  <1>2. SyncTimes' BY DEF TypeOK, SyncTimes
  <1>3. Awake' BY DEF TypeOK, Awake
  <1>4. ClocksKnown' BY DEF TypeOK, ClocksKnown, Awake
  <1>5. OneReleaser' BY BarrierAssumption DEF TypeOK, OneReleaser
  <1>6. LetGo' BY DEF TypeOK, LetGo, Awake
  <1>7. Places' BY DEF TypeOK, Places, LetGo
  <1>8. WithinQuantum' BY DEF TypeOK, WithinQuantum, SyncTimes, Awake
  <1>9. NobodyForgotten' BY DEF TypeOK, NobodyForgotten, LetGo
  <1>10. EveryoneRestarted' BY DEF TypeOK, EveryoneRestarted, LetGo
  <1> QED BY <1>1, <1>2, <1>3, <1>4, <1>5, <1>6, <1>7, <1>8, <1>9, <1>10

(* A core returns at once, sleeps, or releases the barrier.                 *)
LEMMA SynchronizeStep ==
    ASSUME IInv, NEW c \in Cores, synchronize(c)
    PROVE  IInv'
  <1> USE DEF IInv, Goto, Unlocked, Releasing
  <1>a. CASE time[c] < next
    <2> USE <1>a DEF synchronize, serverVars
    <2>0. NextSync(time[c]) \in Nat /\ NextSync(time[c]) <= next
      <3>1. PICK k \in Nat : next = k * Interval BY DEF SyncTimes
      <3> QED BY <3>1, NextSyncBound DEF TypeOK
    <2>1. TypeOK' BY <2>0 DEF TypeOK, Steps
    <2>2. SyncTimes' BY <2>0 DEF TypeOK, SyncTimes
    <2>3. Awake' BY DEF TypeOK, Awake
    <2>4. ClocksKnown' BY DEF TypeOK, ClocksKnown
    <2>5. OneReleaser' BY DEF TypeOK, OneReleaser
    <2>6. LetGo' BY DEF TypeOK, LetGo
    <2>7. Places' BY DEF TypeOK, Places
    <2>8. WithinQuantum' BY DEF TypeOK, WithinQuantum
    <2>9. NobodyForgotten' BY DEF TypeOK, NobodyForgotten
    <2>10. EveryoneRestarted' BY DEF TypeOK, EveryoneRestarted
    <2> QED BY <2>1, <2>2, <2>3, <2>4, <2>5, <2>6, <2>7, <2>8, <2>9, <2>10
  <1>b. CASE ~(time[c] < next)
    <2>0. PICK R \in SUBSET toRelease :
            toRelease' = toRelease \ R /\ futx' = [u \in Cores |-> futx[u] \/ u \in R]
      BY <1>b, ReleaseBatch DEF synchronize
    <2>a. /\ pc[c] = "sync" /\ holder = NoCore
          /\ clock' = [clock EXCEPT ![c] = time[c]]
          /\ acquired' = acquired \cup {c}
          /\ \/ isBarrierReached(clock') /\ pc' = [pc EXCEPT ![c] = "releaseSync"] /\ holder' = c
             \/ pc' = [pc EXCEPT ![c] = "asleep"] /\ holder' = holder
          /\ UNCHANGED <<nextSync, next, global, hooks, status, time>>
      BY <1>b DEF synchronize
    <2>1. TypeOK' BY <2>0, <2>a DEF TypeOK, Steps
    <2>2. SyncTimes' BY <2>a DEF TypeOK, SyncTimes
    <2>3. Awake' BY <2>a DEF TypeOK, Awake
    <2>4. ClocksKnown' BY <2>a DEF TypeOK, ClocksKnown
    <2>5. OneReleaser' BY <2>a, BarrierAssumption DEF TypeOK, OneReleaser
    <2>6. LetGo' BY <2>0, <2>a DEF TypeOK, LetGo
    <2>7. Places' BY <2>0, <2>a DEF TypeOK, Places, LetGo
    <2>8. WithinQuantum' BY <2>a DEF TypeOK, WithinQuantum
    <2>9. NobodyForgotten' BY <2>0, <2>a, ZenonT(40) DEF TypeOK, NobodyForgotten, LetGo, Places
    <2>10. EveryoneRestarted'
      <3> SUFFICES ASSUME NEW r \in Cores, NEW u \in Cores,
                          pc'[r] \in {"releaseSync", "releaseHook"}, pc'[u] = "asleep"
                   PROVE  u \in acquired'
        BY DEF EveryoneRestarted
      <3>1. r = c BY <2>a, BarrierAssumption DEF TypeOK, OneReleaser
      <3>2. isBarrierReached(clock') /\ u # c /\ pc[u] = "asleep" BY <2>a, <3>1 DEF TypeOK
      <3>3. clock'[u] = clock[u] BY <2>a, <3>2 DEF TypeOK
      <3>4. u \in acquired BY <3>2, <3>3, ReachedMeansRestarted
      <3> QED BY <3>4, <2>a
    <2> QED BY <2>1, <2>2, <2>3, <2>4, <2>5, <2>6, <2>7, <2>8, <2>9, <2>10
  <1> QED BY <1>a, <1>b

(* HOOK_PERIODIC leaves threads that run or exit alone.                     *)
LEMMA ResumeEffect ==
    ASSUME TypeOK, NEW S \in SUBSET Stalled, NEW t \in Nat, Resume(S, t)
    PROVE  /\ status' \in [Cores -> {"INITIALIZING", "RUNNING", "STALLED", "IDLE"}]
           /\ time' \in [Cores -> Nat]
           /\ \A u \in Cores : status[u] \in {"RUNNING", "IDLE"} =>
                status'[u] = status[u] /\ time'[u] = time[u]
  BY DEF TypeOK, Resume, Stalled, Later

(* A turn of the loop of barrierRelease that lets nobody go.                *)
LEMMA LoopTurn ==
    ASSUME IInv, NEW c \in Cores, pc[c] \in Releasing,
           status' \in [Cores -> {"INITIALIZING", "RUNNING", "STALLED", "IDLE"}],
           time' \in [Cores -> Nat],
           \A u \in Cores : status[u] \in {"RUNNING", "IDLE"} =>
             status'[u] = status[u] /\ time'[u] = time[u],
           \/ pc' = pc /\ holder' = holder
           \/ /\ pc[c] = "releaseAdvance"
              /\ pc' = [pc EXCEPT ![c] = "check"] /\ holder' = NoCore
           \/ pc' = [pc EXCEPT ![c] = "nested"] /\ holder' = holder,
           next' = next \/ next' = next + Interval,
           global' = next, hooks' \in {hooks, c},
           UNCHANGED <<nextSync, clock, acquired, toRelease, futx>>
    PROVE  IInv'
  <1> USE DEF IInv
  <1>0. Interval \in Nat /\ next \in Nat /\ next' \in Nat /\ next <= next'
    BY BarrierAssumption DEF TypeOK
  <1>1. TypeOK' BY <1>0 DEF TypeOK, Steps, Releasing
  <1>2. SyncTimes'
    <2>1. PICK k \in Nat : next = k * Interval BY DEF SyncTimes
    <2>2. (k + 1) * Interval = next + Interval /\ k + 1 \in Nat BY <1>0, <2>1
    <2>3. \E j \in Nat : next' = j * Interval BY <2>1, <2>2
    <2> QED BY <1>0, <2>3, SMTT(30) DEF TypeOK, SyncTimes
  <1>3. Awake' BY DEF TypeOK, Awake
  <1>4. ClocksKnown' BY DEF TypeOK, ClocksKnown, Awake
  <1>5. OneReleaser' BY BarrierAssumption DEF TypeOK, OneReleaser, Releasing
  <1>6. LetGo' BY <1>0 DEF TypeOK, LetGo, Awake, Releasing
  <1>7. Places' BY DEF TypeOK, Places
  <1>8. WithinQuantum' BY <1>0 DEF TypeOK, WithinQuantum, Awake
  <1>9. NobodyForgotten' BY DEF TypeOK, NobodyForgotten, Releasing
  <1>10. EveryoneRestarted' BY SMTT(30) DEF TypeOK, EveryoneRestarted
  <1> QED BY <1>1, <1>2, <1>3, <1>4, <1>5, <1>6, <1>7, <1>8, <1>9, <1>10

(* One turn of the loop for a stalled thread.                               *)
LEMMA AdvanceLoopStep ==
    ASSUME IInv, NEW c \in Cores, NEW S \in TimedOut, barrierAdvance(c, S)
    PROVE  IInv'
  <1> USE DEF IInv, Releasing
  <1>1. /\ status' \in [Cores -> {"INITIALIZING", "RUNNING", "STALLED", "IDLE"}]
        /\ time' \in [Cores -> Nat]
        /\ \A u \in Cores : status[u] \in {"RUNNING", "IDLE"} =>
             status'[u] = status[u] /\ time'[u] = time[u]
    BY ResumeEffect DEF barrierAdvance, callPeriodicHooks, TimedOut, Stalled, TypeOK
  <1>2. /\ pc[c] = "releaseAdvance" /\ global' = next
        /\ \/ pc' = pc /\ holder' = holder
           \/ pc' = [pc EXCEPT ![c] = "check"] /\ holder' = NoCore
           \/ pc' = [pc EXCEPT ![c] = "nested"] /\ holder' = holder
        /\ next' = next \/ next' = next + Interval
        /\ hooks' \in {hooks, c}
        /\ UNCHANGED <<nextSync, clock, acquired, toRelease, futx>>
    BY Zenon DEF barrierAdvance, callPeriodicHooks, Nested, Goto
  <1> QED BY <1>1, <1>2, LoopTurn

(* The turn that lets threads go.                                           *)
LEMMA FinishReleaseStep ==
    ASSUME IInv, NEW c \in Cores, pc[c] \in {"releaseSync", "releaseHook"},
           status' \in [Cores -> {"INITIALIZING", "RUNNING", "STALLED", "IDLE"}],
           time' \in [Cores -> Nat],
           \A u \in Cores : status[u] \in {"RUNNING", "IDLE"} =>
             status'[u] = status[u] /\ time'[u] = time[u],
           next' = next + Interval, global' = next, FinishRelease(c), UNCHANGED <<clock, hooks>>
    PROVE  IInv'
  <1> USE DEF IInv
  <1> DEFINE G == Reached(next')
             W == toRelease \cup (G \ {c})
  <1>0. Interval \in Nat /\ next \in Nat /\ next' \in Nat /\ next <= next'
    BY BarrierAssumption DEF TypeOK
  <1>a. PICK R \in SUBSET W :
          toRelease' = W \ R /\ futx' = [u \in Cores |-> futx[u] \/ u \in R]
    <2>1. doRelease(HostCores, W) BY DEF FinishRelease
    <2> HIDE DEF W
    <2>2. \E R \in SUBSET W :
            toRelease' = W \ R /\ futx' = [u \in Cores |-> futx[u] \/ u \in R]
      BY <2>1, ReleaseBatch, Zenon
    <2> QED BY <2>2, Zenon
  <1>b. holder = c /\ \A u \in Cores \ {c} : pc[u] \notin Releasing \cup {"nested"}
    BY Zenon DEF OneReleaser, Releasing
  <1>c. G \subseteq acquired /\ \A u \in G : clock[u] < next' BY Zenon DEF Reached
  <1>d. \A u \in G \ {c} : pc[u] = "asleep" /\ status[u] = "RUNNING" /\ ~futx[u] /\ time'[u] < next'
    <2> SUFFICES ASSUME NEW u \in G \ {c}
                 PROVE  pc[u] = "asleep" /\ status[u] = "RUNNING" /\ ~futx[u] /\ time'[u] < next'
      OBVIOUS
    <2>1. u \in Cores /\ u \in acquired BY <1>c DEF TypeOK
    <2>2. pc[u] = "asleep" /\ ~futx[u] BY <1>b, <2>1 DEF NobodyForgotten, Releasing
    <2>3. status[u] = "RUNNING" /\ clock[u] = time[u] BY <2>1, <2>2 DEF Awake, ClocksKnown
    <2> QED BY <1>c, <2>1, <2>2, <2>3
  <1>e. PICK k \in Nat : next' = k * Interval
    <2>1. PICK j \in Nat : next = j * Interval BY DEF SyncTimes
    <2>2. (j + 1) * Interval = next + Interval /\ j + 1 \in Nat BY <1>0, <2>1
    <2> QED BY <2>2
  <1>f. /\ holder' = NoCore /\ acquired' = acquired \ G
        /\ \/ /\ pc[c] = "releaseSync" /\ c \in G /\ pc' = [pc EXCEPT ![c] = "run"]
              /\ nextSync' = [nextSync EXCEPT ![c] = NextSync(time[c])]
           \/ /\ pc[c] = "releaseSync" /\ c \notin G /\ pc' = [pc EXCEPT ![c] = "asleep"]
              /\ nextSync' = nextSync
           \/ /\ pc[c] = "releaseHook" /\ nextSync' = nextSync
              /\ \E a \in {"exited", "check"} : pc' = [pc EXCEPT ![c] = a]
    BY DEF FinishRelease, Goto, AfterHook
  <1>g. c \in G => /\ pc[c] = "releaseSync" /\ time'[c] = time[c] /\ time[c] < next'
                   /\ NextSync(time[c]) \in Nat /\ NextSync(time[c]) <= next'
    <2> SUFFICES ASSUME c \in G
                 PROVE  /\ pc[c] = "releaseSync" /\ time'[c] = time[c] /\ time[c] < next'
                        /\ NextSync(time[c]) \in Nat /\ NextSync(time[c]) <= next'
      OBVIOUS
    <2>1. pc[c] = "releaseSync" BY <1>c DEF NobodyForgotten
    <2>2. time'[c] = time[c] /\ clock[c] = time[c] BY <2>1 DEF Awake, ClocksKnown
    <2>3. time[c] \in Nat /\ time[c] < k * Interval BY <1>c, <1>e, <2>2 DEF TypeOK
    <2> QED BY <2>1, <2>2, <2>3, <1>e, NextSyncBound
  <1> HIDE DEF G
  <1>1. TypeOK'
    <2>1. G \subseteq Cores /\ W \subseteq Cores BY <1>c DEF TypeOK
    <2>2. pc' \in [Cores -> Steps] BY <1>f DEF TypeOK, Steps
    <2>3. nextSync' \in [Cores -> Nat] BY <1>f, <1>g DEF TypeOK
    <2> QED BY <1>0, <1>a, <1>f, <2>1, <2>2, <2>3 DEF TypeOK
  <1>2. SyncTimes' BY <1>0, <1>e, <1>f, <1>g DEF TypeOK, SyncTimes
  <1>3. Awake' BY <1>f DEF TypeOK, Awake
  <1>4. ClocksKnown' BY <1>f DEF TypeOK, ClocksKnown, Awake
  <1>5. OneReleaser' BY <1>b, <1>f DEF TypeOK, OneReleaser, Releasing
  <1>6. LetGo'
    <2> SUFFICES ASSUME NEW u \in Cores, futx'[u] \/ u \in toRelease'
                 PROVE  pc'[u] = "asleep" /\ time'[u] < next'
      BY DEF LetGo
    <2>1. futx[u] \/ u \in toRelease \/ u \in G \ {c} BY <1>a, Zenon
    <2>2. CASE futx[u] \/ u \in toRelease
      <3>1. u # c /\ pc[u] = "asleep" /\ status[u] = "RUNNING" /\ time[u] < next
        BY <2>2 DEF LetGo, Awake
      <3> QED BY <1>0, <1>f, <3>1 DEF TypeOK
    <2>3. CASE u \in G \ {c}
      BY <1>d, <1>f, <2>3 DEF TypeOK
    <2> QED BY <2>1, <2>2, <2>3
  <1>7. Places' BY <1>a, <1>b, <1>f DEF TypeOK, Places, Releasing
  <1>8. WithinQuantum' BY <1>0, <1>f, <1>g, SMTT(30) DEF TypeOK, WithinQuantum, Awake
  <1>9. NobodyForgotten'
    <2>1. ASSUME NEW u \in Cores, pc'[u] = "asleep", ~futx'[u] PROVE u \in acquired' \cup toRelease'
      <3>1. CASE u = c BY <1>f, <2>1, <3>1 DEF TypeOK, Places
      <3>2. CASE u # c BY <1>a, <1>f, <2>1, <3>2, Zenon DEF TypeOK, NobodyForgotten
      <3> QED BY <3>1, <3>2
    <2>2. ASSUME NEW u \in acquired'
          PROVE  pc'[u] \in {"asleep", "releaseSync", "nested"} /\ ~futx'[u]
      <3>1. u \in acquired /\ u \notin G /\ u \in Cores BY <1>f, <2>2 DEF TypeOK
      <3>2. ~futx'[u] BY <1>a, <3>1, Zenon DEF NobodyForgotten, Places
      <3>3. CASE u = c BY <1>f, <3>1, <3>2, <3>3 DEF TypeOK, NobodyForgotten
      <3>4. CASE u # c BY <1>f, <3>1, <3>2, <3>4 DEF TypeOK, NobodyForgotten
      <3> QED BY <3>3, <3>4
    <2>3. ASSUME NEW u \in toRelease'
          PROVE  pc'[u] \in {"asleep", "releaseSync", "nested"} /\ ~futx'[u]
      <3>1. u \in Cores /\ u \notin R /\ (u \in toRelease \/ u \in G \ {c})
        BY <1>a, <1>c, <2>3 DEF TypeOK
      <3>2. ~futx'[u] BY <1>a, <1>d, <3>1, ZenonT(40) DEF NobodyForgotten
      <3>3. u # c /\ pc[u] = "asleep" BY <1>d, <3>1, Zenon DEF LetGo
      <3> QED BY <1>f, <3>1, <3>2, <3>3 DEF TypeOK
    <2> QED BY <2>1, <2>2, <2>3 DEF NobodyForgotten
  <1>10. EveryoneRestarted' BY <1>b, <1>f DEF TypeOK, EveryoneRestarted, Releasing
  <1> QED BY <1>1, <1>2, <1>3, <1>4, <1>5, <1>6, <1>7, <1>8, <1>9, <1>10, Zenon

(* One turn of the loop for a thread that found the barrier reached.        *)
LEMMA ReleaseLoopStep ==
    ASSUME IInv, NEW c \in Cores, NEW S \in TimedOut, barrierRelease(c, S)
    PROVE  IInv'
  <1> USE DEF IInv
  <1>1. /\ status' \in [Cores -> {"INITIALIZING", "RUNNING", "STALLED", "IDLE"}]
        /\ time' \in [Cores -> Nat]
        /\ \A u \in Cores : status[u] \in {"RUNNING", "IDLE"} =>
             status'[u] = status[u] /\ time'[u] = time[u]
    BY ResumeEffect DEF barrierRelease, callPeriodicHooks, TimedOut, Stalled, TypeOK
  <1>a. CASE SelfDeadlock(S)
    <2>1. /\ pc[c] \in Releasing /\ global' = next /\ hooks' = c
          /\ pc' = [pc EXCEPT ![c] = "nested"] /\ holder' = holder
          /\ UNCHANGED <<next, nextSync, clock, acquired, toRelease, futx>>
      BY <1>a, SMTT(30) DEF barrierRelease, callPeriodicHooks, Nested, Goto, Releasing
    <2> QED BY <1>1, <2>1, LoopTurn, Zenon
  <1>b. CASE ~SelfDeadlock(S) /\ ~(Reached(next') # {})
    <2>1. /\ pc[c] \in Releasing /\ global' = next /\ next' = next + Interval
          /\ UNCHANGED <<pc, holder, hooks, nextSync, clock, acquired, toRelease, futx>>
      BY <1>b, SMTT(30) DEF barrierRelease, callPeriodicHooks, Releasing
    <2> QED BY <1>1, <2>1, LoopTurn, Zenon
  <1>c. CASE ~SelfDeadlock(S) /\ Reached(next') # {}
    <2>1. /\ pc[c] \in {"releaseSync", "releaseHook"} /\ next' = next + Interval
          /\ global' = next
          /\ FinishRelease(c) /\ UNCHANGED <<clock, hooks>>
      BY <1>c DEF barrierRelease, callPeriodicHooks
    <2> QED BY <1>1, <2>1, FinishReleaseStep, Zenon
  <1> QED BY <1>a, <1>b, <1>c

-----------------------------------------------------------------------------
(* The invariant holds initially, and stuttering keeps it.                  *)
LEMMA InitIInv == Init => IInv
  <1> SUFFICES ASSUME Init PROVE IInv OBVIOUS
  <1> USE BarrierAssumption DEF Init
  <1>1. TypeOK BY DEF TypeOK, Steps
  <1>2. SyncTimes
    <2>1. next = 1 * Interval BY DEF Init
    <2> QED BY <2>1 DEF SyncTimes
  <1>3. Awake /\ ClocksKnown BY DEF Awake, ClocksKnown
  <1>4. OneReleaser /\ LetGo /\ Places BY DEF OneReleaser, LetGo, Places, Releasing
  <1>5. WithinQuantum /\ NobodyForgotten BY DEF WithinQuantum, NobodyForgotten
  <1>6. EveryoneRestarted BY DEF EveryoneRestarted
  <1> QED BY <1>1, <1>2, <1>3, <1>4, <1>5, <1>6 DEF IInv

LEMMA Stutter == IInv /\ UNCHANGED vars => IInv'
  BY DEF IInv, vars, coreVars, serverVars, TypeOK, SyncTimes, Awake, ClocksKnown, OneReleaser,
         LetGo, Places, WithinQuantum, NobodyForgotten, EveryoneRestarted

(* Every step of a core and of the server keeps the invariant.              *)
LEMMA NextIInv == IInv /\ [Next]_vars => IInv'
  <1> SUFFICES ASSUME IInv, [Next]_vars PROVE IInv' OBVIOUS
  <1>1. CASE UNCHANGED vars BY <1>1, Stutter
  <1>2. CASE Next
    <2>1. PICK c \in Cores : Core(c) \/ Server(c) BY <1>2 DEF Next
    <2>2. CASE Core(c)
      BY <2>2, ExecuteStep, StopStep, ResumeThreadStep, OnThreadStartStep
         DEF Core, stallThread_async, onThreadExit
    <2>3. CASE Server(c)
      BY <2>3, WakeNobodyStep, NotifyStep, SetCoreStateStep, SynchronizeStep, LeaveStep, CallHooksStep,
         ThreadStallStep, StallThreadStep, WakeUpStep, AdvanceStep, ReleaseLoopStep,
         AdvanceLoopStep
         DEF Server
    <2> QED BY <2>1, <2>2, <2>3
  <1> QED BY <1>1, <1>2

LEMMA Invariance == Spec => []IInv
  BY InitIInv, NextIInv, PTL DEF Spec

(* The variables of the barrier keep their types.                           *)
THEOREM BarrierTypeCorrectness == Spec => []TypeOK
  <1>1. IInv => TypeOK BY DEF IInv
  <1> QED BY <1>1, Invariance, PTL

(* A core that executes has not reached m_next_barrier_time, for any        *)
(* quantum, any number of cores and any steps of their clocks.              *)
THEOREM CoresStayWithinQuantum == Spec => []WithinQuantum
  <1>1. IInv => WithinQuantum BY DEF IInv
  <1> QED BY <1>1, Invariance, PTL

(* A thread that sleeps in synchronize is in m_barrier_acquire_list, in     *)
(* m_to_release, or signalled.                                              *)
THEOREM NoSleeperForgotten == Spec => []NobodyForgotten
  <1>1. IInv => NobodyForgotten BY DEF IInv
  <1> QED BY <1>1, Invariance, PTL

(* The assertion of barrierRelease holds for a release from synchronize,    *)
(* threadStall and threadExit.                                              *)
THEOREM RestartedBeforeRelease == Spec => []EveryoneRestarted
  <1>1. IInv => EveryoneRestarted BY DEF IInv
  <1> QED BY <1>1, Invariance, PTL

=============================================================================
