--------------------------- MODULE LastLevelCache ---------------------------
(***************************************************************************)
(* The last-level cache controllers (CacheCntlr) and the cores that miss in *)
(* them.  A user thread that needs the directory queues a waiter under the  *)
(* stack lock of the line's set and sleeps; the sim thread of the cache's   *)
(* master core handles the directory's messages under the same lock and     *)
(* hands the lock over to each waiter that it wakes.  An access that the    *)
(* cache state permits (a store to an EXCLUSIVE line included) leaves the   *)
(* state as it is and is no step here.                                      *)
(***************************************************************************)
EXTENDS Shmem

CONSTANTS
    Cores,      \* the cores whose user threads access memory
    LlcOf,      \* m_core_id_master of each core's last-level cache
    LlcWays     \* associativity of a last-level cache

Caches == {LlcOf[k] : k \in Cores}

ASSUME LlcAssumption ==
    /\ Cores \subseteq Nodes
    /\ LlcOf \in [Cores -> Nodes]
    /\ LlcWays \in Nat \ {0}

VARIABLES
    cstate,    \* cstate[c][a]: state of line a in the cache of master core c
    waiters    \* waiters[c][a]: m_directory_waiters, the misses on line a

llcVars == <<cstate, waiters>>

CStates == {"INVALID", "SHARED", "SHARED_UPGRADING", "EXCLUSIVE", "MODIFIED"}
Waiters == [core: Cores, exclusive: BOOLEAN]

LlcInit ==
    /\ cstate = [c \in Caches |-> [a \in Addresses |-> "INVALID"]]
    /\ waiters = [c \in Caches |-> [a \in Addresses |-> <<>>]]

LlcTypeOK ==
    /\ cstate \in [Caches -> [Addresses -> CStates]]
    /\ waiters \in [Caches -> [Addresses -> Seq(Waiters)]]

(* CoherenceEngine::isPermissible.                                          *)
isPermissible(s, exclusive) ==
    s \in (IF exclusive THEN {"EXCLUSIVE", "MODIFIED"}
                        ELSE {"SHARED", "EXCLUSIVE", "MODIFIED"})

Resident(c) == {a \in Addresses : cstate[c][a] # "INVALID"}
SetState(c, a, s) == cstate' = [cstate EXCEPT ![c][a] = s]
ToDir(type, c, a, data) == MailTo({DirNode}, Msg(type, c, a, data))

-----------------------------------------------------------------------------
(* User threads.                                                            *)

(* The waiters of c whose user thread is still asleep: the front one of the *)
(* line in the "woken" state is already running again.                      *)
Asleep(c, a) ==
    LET q == waiters[c][a]
        first == IF sim[c] = Woken(a) THEN 2 ELSE 1
    IN {q[i].core : i \in first..Len(q)}
Blocked(k) == \E a \in Addresses : k \in Asleep(LlcOf[k], a)

(* initiateDirectoryAccess: core k misses on line a.  Only the first waiter *)
(* of the line sends a request.                                             *)
initiateDirectoryAccess(k, a, exclusive) ==
    LET c == LlcOf[k]
        first == waiters[c][a] = <<>>
    IN /\ ~Blocked(k)
       /\ ~isPermissible(cstate[c][a], exclusive)
       /\ sim[c].pc # "wake"   \* the sim thread holds the stack lock
       /\ waiters' = [waiters EXCEPT ![c][a] =
                        Append(@, [core |-> k, exclusive |-> exclusive])]
       /\ \/ /\ ~first
             /\ UNCHANGED <<cstate, shmemVars>>
          \/ /\ first /\ exclusive /\ cstate[c][a] = "SHARED"
             /\ SetState(c, a, "SHARED_UPGRADING")
             /\ Post(ToDir("UPGRADE_REQ", c, a, FALSE))
             /\ UNCHANGED sim
          \/ /\ first /\ exclusive /\ cstate[c][a] = "INVALID"
             /\ Post(ToDir("EX_REQ", c, a, FALSE))
             /\ UNCHANGED <<cstate, sim>>
          \/ /\ first /\ ~exclusive
             /\ Post(ToDir("SH_REQ", c, a, FALSE))
             /\ UNCHANGED <<cstate, sim>>

-----------------------------------------------------------------------------
(* Messages from the directory, taken by the sim thread of master core c.   *)

(* insertCacheBlock: the ways it may free, NoAddress when one is free.      *)
(* Lines being upgraded are no victims (CacheSet::isValidReplacement).      *)
EvictionVictims(c) ==
    IF Cardinality(Resident(c)) < LlcWays THEN {NoAddress}
    ELSE {v \in Resident(c) : cstate[c][v] # "SHARED_UPGRADING"}

insertCacheBlock(c, a, s) ==
    \E v \in EvictionVictims(c) :
      /\ cstate' = [cstate EXCEPT ![c] =
                      [b \in Addresses |-> IF b = a THEN s
                                           ELSE IF b = v THEN "INVALID" ELSE @[b]]]
      /\ PostFrom(c, IF v = NoAddress THEN NoMail
                     ELSE IF cstate[c][v] = "MODIFIED"
                     THEN ToDir("FLUSH_REP", c, v, TRUE)
                     ELSE ToDir("INV_REP", c, v, FALSE))

StartWaking(c, a) == sim' = [sim EXCEPT ![c] = Waking(a)]

processExRepFromDramDirectory(c, a) ==
    insertCacheBlock(c, a, "EXCLUSIVE") /\ StartWaking(c, a)

processShRepFromDramDirectory(c, a) ==
    insertCacheBlock(c, a, "SHARED") /\ StartWaking(c, a)

processUpgradeRepFromDramDirectory(c, a) ==
    /\ SetState(c, a, "MODIFIED")
    /\ PostFrom(c, NoMail)
    /\ StartWaking(c, a)

ProbedAlwaysReplies(c, a, rep, s, data) ==
    /\ PostFrom(c, ToDir(rep, c, a, data))
    /\ SetState(c, a, s)
    /\ UNCHANGED sim

(* The three probes: a cache without the line drops them, "hoping eviction  *)
(* message is underway".                                                    *)
Probed(c, a, rep, s, data) ==
    /\ IF cstate[c][a] = "INVALID"
       THEN PostFrom(c, NoMail) /\ UNCHANGED cstate
       ELSE PostFrom(c, ToDir(rep, c, a, data)) /\ SetState(c, a, s)
    /\ UNCHANGED sim

InvReqKeepsLine(c, a) == Probed(c, a, "INV_REP", "SHARED", FALSE)
FlushReqKeepsLine(c, a) == Probed(c, a, "FLUSH_REP", "SHARED", TRUE)

processInvReqFromDramDirectory(c, a) == Probed(c, a, "INV_REP", "INVALID", FALSE)

processFlushReqFromDramDirectory(c, a) == Probed(c, a, "FLUSH_REP", "INVALID", TRUE)

WbReqKeepsState(c, a) == Probed(c, a, "WB_REP", cstate[c][a], TRUE)

(* A line being upgraded stays so, and the reply's buffer is never filled.  *)
processWbReqFromDramDirectory(c, a) ==
    Probed(c, a, "WB_REP",
           IF cstate[c][a] = "SHARED_UPGRADING" THEN "SHARED_UPGRADING" ELSE "SHARED", TRUE)

(* The assertion that a message to the cache trips, if any.                 *)
LlcAssertion(c, m) ==
    LET s == cstate[c][m.addr] IN
    CASE m.type \in RepTypes /\ waiters[c][m.addr] = <<>> -> "reply without a waiter"
      [] m.type \in {"EX_REP", "SH_REP"} /\ s # "INVALID" -> "we already have this line"
      [] m.type \in {"EX_REP", "SH_REP"} /\ EvictionVictims(c) = {} -> "no way to replace"
      [] m.type = "UPGRADE_REP" /\ s = "INVALID" -> "upgrade of a block that is now INV"
      [] m.type = "UPGRADE_REP" /\ s # "SHARED_UPGRADING" -> "upgrade of a block not upgrading"
      [] m.type = "INV_REQ" /\ s = "MODIFIED" -> "MODIFIED data is about to get lost"
      [] OTHER -> "none"

handleMsgFromDramDirectory(c) ==
    LET m == Head(net[c]) IN
    /\ Receives(c, ToLlcTypes)
    /\ LlcAssertion(c, m) = "none"
    /\ \/ m.type = "EX_REP" /\ processExRepFromDramDirectory(c, m.addr)
       \/ m.type = "SH_REP" /\ processShRepFromDramDirectory(c, m.addr)
       \/ m.type = "UPGRADE_REP" /\ processUpgradeRepFromDramDirectory(c, m.addr)
       \/ m.type = "INV_REQ" /\ processInvReqFromDramDirectory(c, m.addr)
       \/ m.type = "FLUSH_REQ" /\ processFlushReqFromDramDirectory(c, m.addr)
       \/ m.type = "WB_REQ" /\ processWbReqFromDramDirectory(c, m.addr)
    /\ UNCHANGED waiters

(* The loop over the waiters of the line that follows a reply.  A writer    *)
(* that finds the line SHARED has it upgraded and stays in front; any other *)
(* waiter is woken, and refills its caches under the lock handed to it.     *)
wakeUpWaiters(c) ==
    LET a == sim[c].addr
        q == waiters[c][a]
    IN /\ sim[c].pc = "wake"
       /\ \/ /\ q = <<>>
             /\ sim' = [sim EXCEPT ![c] = Idle]
             /\ UNCHANGED <<net, cstate>>
          \/ /\ q # <<>> /\ Head(q).exclusive /\ cstate[c][a] = "SHARED"
             /\ SetState(c, a, "SHARED_UPGRADING")
             /\ Post(ToDir("UPGRADE_REQ", c, a, FALSE))
             /\ sim' = [sim EXCEPT ![c] = Idle]
          \/ /\ q # <<>> /\ isPermissible(cstate[c][a], Head(q).exclusive)
             /\ sim' = [sim EXCEPT ![c] = Woken(a)]
             /\ UNCHANGED <<net, cstate>>
       /\ UNCHANGED waiters

wakeUpOneWaiter(c) ==
    LET a == sim[c].addr IN
    /\ sim[c].pc = "woken"
    /\ waiters' = [waiters EXCEPT ![c][a] = Tail(@)]
    /\ sim' = [sim EXCEPT ![c] = Idle]
    /\ UNCHANGED <<net, cstate>>

(* The woken user thread has released the stack lock to the sim thread.     *)
dequeueWaiter(c) ==
    LET a == sim[c].addr IN
    /\ sim[c].pc = "woken"
    /\ waiters' = [waiters EXCEPT ![c][a] = Tail(@)]
    /\ StartWaking(c, a)
    /\ UNCHANGED <<net, cstate>>

(* The assertion that the next waiter to be woken trips, if any.            *)
WakeAssertion(c) ==
    LET a == sim[c].addr
        w == Head(waiters[c][a])
    IN IF /\ sim[c].pc = "wake" /\ waiters[c][a] # <<>>
          /\ ~isPermissible(cstate[c][a], w.exclusive)
          /\ ~(w.exclusive /\ cstate[c][a] = "SHARED")
       THEN "data is already gone" ELSE "none"

(* The assertion that a first writer of line a would trip, if any.          *)
MissAssertion(c, a) ==
    IF waiters[c][a] = <<>> /\ cstate[c][a] = "SHARED_UPGRADING"
    THEN "EX_REQ for a line that is not INVALID" ELSE "none"
=============================================================================
