----------------------------- MODULE Coherence -----------------------------
(***************************************************************************)
(* The last-level caches of a multi-core and the tag directory that keeps   *)
(* them coherent, joined by the per-core receive queues.                    *)
(***************************************************************************)
EXTENDS DramDirectory, LastLevelCache

vars == <<shmemVars, dirVars, llcVars>>

Init == ShmemInit /\ DirInit /\ LlcInit

(* A step of the sim thread of core n, whichever component it works for.    *)
SimThread(n) ==
    \/ /\ n = DirNode /\ (Serve \/ handleMsgToDirectory)
       /\ UNCHANGED llcVars
    \/ /\ n = DramNode /\ handleMsgFromTagDirectory
       /\ UNCHANGED llcVars
    \/ /\ n \in Caches
       /\ handleMsgFromDramDirectory(n) \/ wakeUpWaiters(n) \/ dequeueWaiter(n)
       /\ UNCHANGED dirVars

UserThread(k) ==
    /\ \E a \in Addresses, exclusive \in BOOLEAN : initiateDirectoryAccess(k, a, exclusive)
    /\ UNCHANGED dirVars

Next ==
    \/ \E n \in Nodes : SimThread(n)
    \/ \E k \in Cores : UserThread(k)

(* Sim threads are host threads that block only on their receive queue, on *)
(* the stack lock, and on the user thread they have just woken.             *)
Fairness == \A n \in Nodes : WF_vars(SimThread(n))

Spec == Init /\ [][Next]_vars
FairSpec == Spec /\ Fairness

-----------------------------------------------------------------------------
(* Every variable stays within its type.                                    *)
TypeOK == ShmemTypeOK /\ DirTypeOK /\ LlcTypeOK

(* Single writer or multiple readers: while one last-level cache may write  *)
(* a line, every other one has it INVALID, whatever is in flight.           *)
SWMR ==
    \A a \in Addresses : \A c, d \in Caches :
      c # d /\ cstate[c][a] \in {"EXCLUSIVE", "MODIFIED"} => cstate[d][a] = "INVALID"

(* The directory never loses track of a copy: a cache that has a line, in   *)
(* any valid state, is a sharer of its directory entry.                     *)
DirectoryKnowsSharers ==
    \A a \in Addresses : \A c \in Caches :
      cstate[c][a] # "INVALID" => c \in entry[a].sharers

(* A directory entry is UNCACHED exactly when it has no sharers, and an     *)
(* EXCLUSIVE or MODIFIED one has its owner as only sharer.                  *)
DirectoryConsistent ==
    \A a \in Addresses :
      LET e == entry[a] IN
      /\ e.dstate = "UNCACHED" <=> e.sharers = {}
      /\ e.dstate \in {"EXCLUSIVE", "MODIFIED"} => e.sharers = {e.owner}

(* The assertions that the next step of some thread would fail.             *)
FailingAssertions ==
    ({ServeAssertion(a, Front(a), sim[DirNode].data) :
        a \in {b \in Addresses : sim[DirNode].pc = "serve" /\ sim[DirNode].addr = b}}
     \cup {DirAssertion(Head(net[n])) : n \in {d \in {DirNode} : Receives(d, ToDirTypes)}}
     \cup {LlcAssertion(c, Head(net[c])) : c \in {d \in Caches : Receives(d, ToLlcTypes)}}
     \cup {WakeAssertion(c) : c \in Caches}
     \cup {MissAssertion(c, a) : c \in Caches, a \in Addresses}) \ {"none"}

InvRepAssertion == "Ooops: INV_REP for a line not S or E"
ReplacementAssertion == "cannot find a directory entry to be replaced"

(* Of all the assertions in the protocol handlers only two can fail: the    *)
(* directory's on the INV_REP of a line it has as MODIFIED, and, when the   *)
(* directory has fewer ways than there are cores, the one on the search for *)
(* a replaceable directory entry.                                           *)
OnlyKnownFailures ==
    FailingAssertions \subseteq
      IF DirWays < Cardinality(Cores) THEN {InvRepAssertion, ReplacementAssertion}
                                      ELSE {InvRepAssertion}

(* The LOG_ASSERT_ERROR of processInvRepFromL2Cache: an INV_REP is about a  *)
(* line that the directory has as SHARED or EXCLUSIVE.                      *)
InvRepOnlyForCleanLines == InvRepAssertion \notin FailingAssertions

-----------------------------------------------------------------------------
(* The messages and queued requests of cache c about line a that its        *)
(* waiters are waiting on.                                                  *)
Transactions(c, a) ==
    LET asked(m) == m.type \in ReqTypes /\ m.node = c /\ m.addr = a
        queued(r) == r.type \in ReqTypes /\ r.node = c
        answered(m) == m.type \in RepTypes /\ m.addr = a
    IN Len(SelectSeq(net[DirNode], asked)) + Len(SelectSeq(reqs[a], queued))
         + Len(SelectSeq(net[c], answered))

(* A line with waiters has exactly one request or reply under way, from the *)
(* first miss until the reply is taken, and one without waiters has none:   *)
(* no miss is forgotten and none is answered twice.                         *)
OneTransactionPerLine ==
    \A c \in Caches : \A a \in Addresses :
      Transactions(c, a) =
        IF waiters[c][a] # <<>> /\ sim[c] \notin {Waking(a), Woken(a)} THEN 1 ELSE 0

Quiescent == \A n \in Nodes : net[n] = <<>> /\ sim[n] = Idle

(* Once every message has been handled nothing is left half done: no waiter *)
(* or request is queued, no replaced entry lingers, and directory and       *)
(* caches agree on who has each line and whether it may be written.         *)
QuiescentAgreement ==
    Quiescent =>
      /\ replaced = {}
      /\ \A a \in Addresses :
           /\ reqs[a] = <<>>
           /\ \A c \in Caches :
                /\ waiters[c][a] = <<>>
                /\ cstate[c][a] \in CASE c \notin entry[a].sharers -> {"INVALID"}
                                      [] entry[a].dstate = "SHARED" -> {"SHARED"}
                                      [] entry[a].dstate = "EXCLUSIVE" -> {"EXCLUSIVE"}
                                      [] OTHER -> {"EXCLUSIVE", "MODIFIED"}

(* When a MESIF directory is about to ask the forwarder for a SHARED line,  *)
(* the forwarder it reads is set, and is a sharer, if there is one.         *)
ForwarderIsSharer ==
    LET a == sim[DirNode].addr
        e == entry[a]
    IN /\ Protocol = "MESIF"
       /\ sim[DirNode].pc = "serve" /\ ~sim[DirNode].data
       /\ Front(a).type = "SH_REQ" /\ Front(a).from = NoNode
       /\ e.dstate = "SHARED"
       /\ Front(a).node \in e.sharers \/ Cardinality(e.sharers) < MaxHwSharers
       => e.forwarder \in e.sharers \cup {NoNode}

(* processFlushRepFromL2Cache keeps data for an UPGRADE_REQ that still has  *)
(* sharers to invalidate ("store the data that was FLUSHed"); when          *)
(* processUpgradeReqFromL2Cache gets to send it ("maybe the data is stored  *)
(* in the msg already?") the buffer has not been freed.                     *)
StoredDataAlive ==
    LET a == sim[DirNode].addr IN
    ~ /\ sim[DirNode].pc = "serve" /\ ~sim[DirNode].data
      /\ Front(a).dangling
      /\ entry[a].dstate = "UNCACHED"

(* The directory never has more entries than ways, and a line is never both *)
(* in the directory cache and on the replaced list.                         *)
DirectoryCapacity ==
    /\ Cardinality(slots) <= DirWays
    /\ slots \cap replaced = {}
    /\ \A a \in Addresses \ (slots \cup replaced) : entry[a] = FreshEntry

(* Every core that sleeps on a miss is woken, unless the simulation aborts. *)
EveryMissCompletes ==
    \A k \in Cores : Blocked(k) ~> (~Blocked(k) \/ FailingAssertions # {})
=============================================================================
