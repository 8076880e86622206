--------------------------- MODULE DramDirectory ---------------------------
(***************************************************************************)
(* The tag directory of one home core (DramDirectoryCntlr with its          *)
(* DramDirectoryCache and request queues) and the DRAM controller behind    *)
(* it.  The directory runs in the sim thread of its core.  The C++ handlers *)
(* chain through tail calls: a handler updates the entry and then serves    *)
(* the front request of the address, and a served request dequeues itself   *)
(* and serves the next one.  Each call of that chain is a step here, with   *)
(* sim[DirNode] holding the call to make next.                              *)
(***************************************************************************)
EXTENDS Shmem

CONSTANTS
    Protocol,       \* CoherencyProtocol: "MSI", "MESI" or "MESIF"
    DirWays,        \* associativity of the directory cache
    MaxHwSharers,   \* max_hw_sharers of a limited_no_broadcast directory
    NucaWays,       \* associativity of the NUCA slice; 0 when there is none
    Uninitialised   \* the value of a member no constructor has set

ASSUME DirAssumption ==
    /\ Protocol \in {"MSI", "MESI", "MESIF"}
    /\ DirWays \in Nat \ {0}
    /\ MaxHwSharers \in Nat \ {0}
    /\ NucaWays \in Nat
    /\ Uninitialised \notin Nodes \cup {NoNode}

VARIABLES
    entry,      \* entry[a]: the directory entry of line a
    slots,      \* the lines that have an entry in the directory cache
    replaced,   \* the lines in m_replaced_directory_entry_list
    reqs,       \* reqs[a]: the request queue of line a
    nuca        \* nuca[a]: the NUCA slice's block of line a

dirVars == <<entry, slots, replaced, reqs, nuca>>

DirStates == {"UNCACHED", "SHARED", "EXCLUSIVE", "MODIFIED"}
Entries == [dstate: DirStates, sharers: SUBSET Nodes, owner: Nodes \cup {NoNode},
            forwarder: Nodes \cup {NoNode, Uninitialised}]

(* ShmemReq.  "wait": m_wait_for_data; "from": m_forwarding_from;           *)
(* "dangling": the queued message points to the data of a FLUSH_REP, which  *)
(* MemoryManager::handleMsgFromNetwork has freed.                           *)
Requests == [type: ReqTypes \cup {"NULLIFY_REQ"}, node: Nodes, wait: BOOLEAN,
             from: Nodes \cup {NoNode}, dangling: BOOLEAN]

NewReq(type, n) ==
    [type |-> type, node |-> n, wait |-> FALSE, from |-> NoNode, dangling |-> FALSE]

FreshEntryWithoutOwner == [dstate |-> "UNCACHED", sharers |-> {}, owner |-> Uninitialised,
                           forwarder |-> Uninitialised]

(* createDirectoryEntry: the constructor leaves m_forwarder_id unset.       *)
FreshEntry == [dstate |-> "UNCACHED", sharers |-> {}, owner |-> NoNode,
               forwarder |-> Uninitialised]

DirInit ==
    /\ entry = [a \in Addresses |-> FreshEntry]
    /\ slots = {}
    /\ replaced = {}
    /\ reqs = [a \in Addresses |-> <<>>]
    /\ nuca = [a \in Addresses |-> "absent"]

DirTypeOK ==
    /\ entry \in [Addresses -> Entries]
    /\ slots \subseteq Addresses
    /\ replaced \subseteq Addresses
    /\ reqs \in [Addresses -> Seq(Requests)]
    /\ nuca \in [Addresses -> {"absent", "clean", "dirty"}]

Front(a) == Head(reqs[a])
SetSim(s) == sim' = [sim EXCEPT ![DirNode] = s]

-----------------------------------------------------------------------------
(* The NUCA slice and the way back to memory.                               *)
NucaLines == {a \in Addresses : nuca[a] # "absent"}

ToDram(a) == MailTo({DramNode}, Msg("DRAM_WRITE_REQ", DirNode, a, TRUE))

(* What NucaCache::write may leave behind, and what its caller then sends.  *)
(* A hit marks the block dirty and leaves the caller's "eviction" flag and  *)
(* victim address uninitialised; a miss inserts the block as clean.         *)
NucaWrites(a) ==
    IF a \in NucaLines
    THEN [nuca: {[nuca EXCEPT ![a] = "dirty"]},
          out: {NoMail} \cup {ToDram(b) : b \in Addresses}]
    ELSE IF Cardinality(NucaLines) < NucaWays
    THEN {[nuca |-> [nuca EXCEPT ![a] = "clean"], out |-> NoMail]}
    ELSE {[nuca |-> [nuca EXCEPT ![v] = "absent", ![a] = "clean"],
           out |-> IF nuca[v] = "dirty" THEN ToDram(v) ELSE NoMail] : v \in NucaLines}

sendDataToNUCA(a) ==
    IF NucaWays = 0 THEN {[nuca |-> nuca, out |-> NoMail]} ELSE NucaWrites(a)

sendDataToDram(a) ==
    IF NucaWays = 0 THEN {[nuca |-> nuca, out |-> ToDram(a)]} ELSE NucaWrites(a)

-----------------------------------------------------------------------------
(* Directory entries.                                                       *)

LookedOneTooMany(a) == IF Cardinality(slots) <= DirWays THEN slots \cup {a} ELSE slots

(* getDirectoryEntry: a line without an entry takes a free way.  Ways are   *)
(* never freed, so lines are on the replaced list only when all are taken.  *)
Looked(a) ==
    IF a \notin slots /\ Cardinality(slots) < DirWays THEN slots \cup {a} ELSE slots
HasEntry(a) == a \in Looked(a) \cup replaced

(* The requests that take a line away from the caches that hold it.         *)
Revocation(a, e, n) ==
    IF e.dstate = "SHARED"
    THEN MailTo(e.sharers, Msg("INV_REQ", n, a, FALSE))
    ELSE MailTo({e.owner}, Msg("FLUSH_REQ", n, a, FALSE))

CandidatesWithSharers == {v \in slots : reqs[v] = <<>> /\ entry[v].sharers # {}}

(* The entries the replacement loop may settle on: fewest sharers among     *)
(* those without outstanding requests.  Which one of several is up to the   *)
(* rotation pointer, whose initial value is never set.                      *)
Candidates == {v \in slots : reqs[v] = <<>>}
Victims == {v \in Candidates : \A w \in Candidates :
              Cardinality(entry[v].sharers) <= Cardinality(entry[w].sharers)}

(* processDirectoryEntryAllocationReq: v makes way for a, and the copies of *)
(* v are revoked by a NULLIFY_REQ; one that has none is done at once.       *)
Replacement(a, v, n) ==
    IF entry[v].dstate = "UNCACHED"
    THEN [slots |-> (slots \ {v}) \cup {a}, replaced |-> replaced,
          entry |-> [entry EXCEPT ![v] = FreshEntry], reqs |-> reqs, out |-> NoMail]
    ELSE [slots |-> (slots \ {v}) \cup {a}, replaced |-> replaced \cup {v},
          entry |-> entry,
          reqs |-> [reqs EXCEPT ![v] = <<NewReq("NULLIFY_REQ", n)>>],
          out |-> Revocation(v, entry[v], n)]

(* The directory as it can be once line a has an entry.                     *)
Homes(a, n) ==
    IF HasEntry(a)
    THEN {[slots |-> Looked(a), replaced |-> replaced, entry |-> entry,
           reqs |-> reqs, out |-> NoMail]}
    ELSE {Replacement(a, v, n) : v \in Victims}

-----------------------------------------------------------------------------
(* Serving the front request r of line a, with data d in hand.  h is the    *)
(* directory once a has an entry.                                           *)

(* The end of every serving step: entry e, request queue q, mail out.       *)
Served(a, h, e, q, out, s) ==
    /\ entry' = [h.entry EXCEPT ![a] = e]
    /\ reqs' = [h.reqs EXCEPT ![a] = q]
    /\ Post(Both(h.out, out))
    /\ SetSim(s)

(* processNextReqFromL2Cache: drop the completed request, serve the next.   *)
Completed(a, h, e, out) ==
    LET q == Tail(h.reqs[a])
    IN Served(a, h, e, q, out, IF q = <<>> THEN Idle ELSE Serving(a, FALSE))

Probing(a, h, e, out) == Served(a, h, e, h.reqs[a], out, Idle)

(* The forwarder a MESIF directory asks for the data; NoNode for none.      *)
Forwarders(r, e) ==
    IF Protocol # "MESIF" \/ r.from # NoNode \/ e.dstate # "SHARED" THEN {NoNode}
    ELSE IF e.forwarder = Uninitialised THEN Nodes \cup {NoNode} ELSE {e.forwarder}

(* The last cache to receive a copy becomes the forwarder.                  *)
ForwardedBy(e, n) == [e EXCEPT !.forwarder = n]

retrieveDataAndSendToL2Cache(rep, a, r, d, h, e) ==
    \/ /\ d
       /\ Completed(a, h, ForwardedBy(e, r.node), MailTo({r.node}, Msg(rep, r.node, a, TRUE)))
    \/ /\ ~d
       /\ a \in NucaLines
       /\ Completed(a, h, e, MailTo({r.node}, Msg(rep, r.node, a, TRUE)))
    \/ /\ ~d
       /\ a \notin NucaLines
       /\ \E f \in Forwarders(r, e) \ {NoNode} :
            Served(a, h, e, [h.reqs[a] EXCEPT ![1].from = f],
                   MailTo({f}, Msg("WB_REQ", r.node, a, FALSE)), Idle)
    \/ /\ ~d
       /\ a \notin NucaLines
       /\ NoNode \in Forwarders(r, e)
       /\ Served(a, h, e, [h.reqs[a] EXCEPT ![1].wait = TRUE],
                 MailTo({DramNode}, Msg("DRAM_READ_REQ", r.node, a, FALSE)), Idle)

OwnerUnset(e, n, dstate) == [e EXCEPT !.sharers = {n}, !.dstate = dstate]

(* The entry once r.node is the only cache with the line.                   *)
OwnedBy(e, n, dstate) == [e EXCEPT !.sharers = {n}, !.owner = n, !.dstate = dstate]

processExReqFromL2Cache(a, r, d, h) ==
    LET e == h.entry[a] IN
    \/ /\ e.dstate # "UNCACHED"
       /\ Probing(a, h, e, Revocation(a, e, r.node))
    \/ /\ e.dstate = "UNCACHED"
       /\ retrieveDataAndSendToL2Cache("EX_REP", a, r, d, h, OwnedBy(e, r.node, "MODIFIED"))

processShReqFromL2Cache(a, r, d, h) ==
    LET e == h.entry[a] IN
    \/ /\ e.dstate \in {"EXCLUSIVE", "MODIFIED"}
       /\ Probing(a, h, e, MailTo({e.owner}, Msg("WB_REQ", r.node, a, FALSE)))
    \/ /\ e.dstate = "SHARED"
       /\ r.node \in e.sharers \/ Cardinality(e.sharers) < MaxHwSharers
       /\ retrieveDataAndSendToL2Cache("SH_REP", a, r, d, h,
                                       [e EXCEPT !.sharers = @ \cup {r.node}])
    \/ /\ e.dstate = "SHARED"
       /\ r.node \notin e.sharers /\ Cardinality(e.sharers) >= MaxHwSharers
       /\ \E n \in e.sharers :
            Probing(a, h, e, MailTo({n}, Msg("INV_REQ", r.node, a, FALSE)))
    \/ /\ e.dstate = "UNCACHED" /\ Protocol = "MSI"
       /\ retrieveDataAndSendToL2Cache("SH_REP", a, r, d, h, OwnedBy(e, r.node, "SHARED"))
    \/ /\ e.dstate = "UNCACHED" /\ Protocol # "MSI"
       /\ retrieveDataAndSendToL2Cache("EX_REP", a, r, d, h, OwnedBy(e, r.node, "EXCLUSIVE"))

(* Without a copy of its own the requester has one sharer flush instead of  *)
(* invalidate.  The request may have been given the buffer of an early      *)
(* FLUSH_REP, which its sender's message took with it when it was deleted.  *)
processUpgradeReqFromL2Cache(a, r, d, h) ==
    LET e == h.entry[a]
        granted == MailTo({r.node}, Msg("UPGRADE_REP", r.node, a, FALSE))
    IN
    \/ /\ e.dstate \in {"EXCLUSIVE", "MODIFIED"}
       /\ IF e.sharers = {r.node}
          THEN Completed(a, h, [e EXCEPT !.dstate = "MODIFIED"], granted)
          ELSE Probing(a, h, e, Revocation(a, e, r.node))
    \/ /\ e.dstate = "SHARED" /\ e.sharers = {r.node}
       /\ Completed(a, h, OwnedBy(e, r.node, "MODIFIED"), granted)
    \/ /\ e.dstate = "SHARED" /\ r.node \in e.sharers /\ e.sharers # {r.node}
       /\ Probing(a, h, e, MailTo(e.sharers \ {r.node}, Msg("INV_REQ", r.node, a, FALSE)))
    \/ /\ e.dstate = "SHARED" /\ r.node \notin e.sharers
       /\ \E n \in e.sharers :
            Probing(a, h, e, Both(MailTo({n}, Msg("FLUSH_REQ", r.node, a, FALSE)),
                                  MailTo(e.sharers \ {n}, Msg("INV_REQ", r.node, a, FALSE))))
    \/ /\ e.dstate = "UNCACHED"
       /\ retrieveDataAndSendToL2Cache("EX_REP", a, r, d \/ r.dangling, h,
                                       OwnedBy(e, r.node, "MODIFIED"))

(* Without copies left the replaced entry is deleted, and the requests that *)
(* came in meanwhile are served with a new entry.                           *)
processNullifyReq(a, r) ==
    LET h == [entry |-> entry, reqs |-> reqs, out |-> NoMail] IN
    IF entry[a].dstate = "UNCACHED"
    THEN /\ Completed(a, h, FreshEntry, NoMail)
         /\ replaced' = replaced \ {a}
         /\ UNCHANGED slots
    ELSE /\ Probing(a, h, entry[a], Revocation(a, entry[a], r.node))
         /\ UNCHANGED <<slots, replaced>>

(* The assertion that serving r with data d trips, if any.                  *)
ServeAssertion(a, r, d) ==
    LET e == entry[a]
        owned == e.dstate \in {"EXCLUSIVE", "MODIFIED"}
    IN CASE r.type # "NULLIFY_REQ" /\ Homes(a, r.node) = {} ->
              "cannot find a directory entry to be replaced"
         [] r.type = "NULLIFY_REQ" /\ a \notin replaced -> "nullify without an entry"
         [] r.type = "EX_REQ" /\ e.dstate # "UNCACHED" /\ d ->
              "EX_REQ has data, line still cached"
         [] r.type = "SH_REQ" /\ owned /\ d -> "SH_REQ has data, line still owned"
         [] r.type = "SH_REQ" /\ e.dstate = "EXCLUSIVE" /\ r.node = e.owner ->
              "SH_REQ from the owner"
         [] r.type = "UPGRADE_REQ" /\ owned /\ e.sharers = {r.node} /\ e.owner # r.node ->
              "sole sharer is not the owner"
         [] OTHER -> "none"

Serve ==
    LET a == sim[DirNode].addr
        d == sim[DirNode].data
        r == Front(a)
    IN /\ sim[DirNode].pc = "serve"
       /\ ServeAssertion(a, r, d) = "none"
       /\ \/ /\ r.type = "NULLIFY_REQ"
             /\ processNullifyReq(a, r)
          \/ \E h \in Homes(a, r.node) :
               /\ \/ r.type = "EX_REQ" /\ processExReqFromL2Cache(a, r, d, h)
                  \/ r.type = "SH_REQ" /\ processShReqFromL2Cache(a, r, d, h)
                  \/ r.type = "UPGRADE_REQ" /\ processUpgradeReqFromL2Cache(a, r, d, h)
               /\ slots' = h.slots
               /\ replaced' = h.replaced
       /\ UNCHANGED nuca

-----------------------------------------------------------------------------
(* Messages to the directory.                                               *)

handleReqFromL2Cache(m) ==
    LET a == m.addr IN
    /\ slots' = Looked(a)
    /\ reqs' = [reqs EXCEPT ![a] = Append(@, NewReq(m.type, m.node))]
    /\ SetSim(IF reqs[a] = <<>> THEN Serving(a, FALSE) ELSE Idle)
    /\ PostFrom(DirNode, NoMail)
    /\ UNCHANGED <<entry, replaced, nuca>>

InvRepForgetsNullify(r, e, n) ==
    CASE r.type = "EX_REQ" -> e.dstate = "UNCACHED"
      [] r.type = "NULLIFY_REQ" -> FALSE
      [] r.type = "UPGRADE_REQ" -> e.sharers \subseteq {r.node}
      [] r.type = "SH_REQ" -> ~r.wait /\ r.from \in {NoNode, n}

(* Whether the INV_REP of n, which leaves entry e, lets front request r go  *)
(* on.  A SH_REQ that waits for data ignores voluntary invalidations.       *)
InvRepResumes(r, e, n) ==
    CASE r.type \in {"EX_REQ", "NULLIFY_REQ"} -> e.dstate = "UNCACHED"
      [] r.type = "UPGRADE_REQ" -> e.sharers \subseteq {r.node}
      [] r.type = "SH_REQ" -> ~r.wait /\ r.from \in {NoNode, n}

ForwarderNotCleared(e, n) == {e.forwarder}

(* The forwarder once n has dropped its copy.  An uninitialised one may or  *)
(* may not compare equal to n.                                              *)
ForwarderWithout(e, n) ==
    CASE e.forwarder = n -> {NoNode}
      [] e.forwarder = Uninitialised -> {NoNode, Uninitialised}
      [] OTHER -> {e.forwarder}

processInvRepFromL2Cache(m) ==
    LET a == m.addr
        left == entry[a].sharers \ {m.node}
        e(f) == [entry[a] EXCEPT !.sharers = left, !.forwarder = f,
                                 !.dstate = IF left = {} THEN "UNCACHED" ELSE @]
        resumes == reqs[a] # <<>> /\ InvRepResumes(Front(a), e(NoNode), m.node)
    IN /\ \E f \in ForwarderWithout(entry[a], m.node) : entry' = [entry EXCEPT ![a] = e(f)]
       /\ SetSim(IF resumes THEN Serving(a, FALSE) ELSE Idle)
       /\ slots' = Looked(a)
       /\ PostFrom(DirNode, NoMail)
       /\ UNCHANGED <<replaced, reqs, nuca>>

(* The sender has given the line up and returned its data.                  *)
processFlushRepFromL2Cache(m) ==
    LET a == m.addr
        left == entry[a].sharers \ {m.node}
        e == [entry[a] EXCEPT !.sharers = left, !.owner = NoNode, !.forwarder = NoNode,
                              !.dstate = IF left = {} THEN "UNCACHED" ELSE @]
        front == IF reqs[a] = <<>> THEN "none" ELSE Front(a).type
    IN /\ entry' = [entry EXCEPT ![a] = e]
       /\ slots' = Looked(a)
       /\ \/ /\ front = "EX_REQ" \/ (front = "UPGRADE_REQ" /\ left = {})
             /\ SetSim(Serving(a, m.data))
             /\ PostFrom(DirNode, NoMail)
             /\ UNCHANGED <<reqs, nuca>>
          \/ /\ front = "UPGRADE_REQ" /\ left # {}
             /\ reqs' = [reqs EXCEPT ![a][1].dangling = TRUE]
             /\ PostFrom(DirNode, NoMail)
             /\ UNCHANGED <<sim, nuca>>
          \/ /\ front \in {"none", "SH_REQ", "NULLIFY_REQ"}
             /\ \E w \in sendDataToDram(a) :
                  nuca' = w.nuca /\ PostFrom(DirNode, w.out)
             /\ SetSim(CASE front = "none" -> Idle
                         [] front = "SH_REQ" -> Serving(a, m.data)
                         [] front = "NULLIFY_REQ" -> Serving(a, FALSE))
             /\ UNCHANGED reqs
       /\ UNCHANGED replaced

(* The sender keeps the line as SHARED and has returned its data.           *)
processWbRepFromL2Cache(m) ==
    LET a == m.addr IN
    /\ entry' = [entry EXCEPT ![a].owner = NoNode, ![a].dstate = "SHARED"]
    /\ slots' = Looked(a)
    /\ SetSim(Serving(a, m.data))
    /\ PostFrom(DirNode, NoMail)
    /\ UNCHANGED <<replaced, reqs, nuca>>

processDRAMReply(m) ==
    LET a == m.addr
        r == Front(a)
        rep == IF r.type = "SH_REQ" /\ entry[a].dstate = "SHARED" THEN "SH_REP" ELSE "EX_REP"
        q == Tail(reqs[a])
    IN /\ \E w \in sendDataToNUCA(a) :
            /\ nuca' = w.nuca
            /\ PostFrom(DirNode, Both(MailTo({r.node}, Msg(rep, r.node, a, TRUE)), w.out))
       /\ reqs' = [reqs EXCEPT ![a] = q]
       /\ SetSim(IF q = <<>> THEN Idle ELSE Serving(a, FALSE))
       /\ slots' = Looked(a)
       /\ UNCHANGED <<entry, replaced>>

(* The assertion that a message to the directory trips, if any.             *)
DirAssertion(m) ==
    LET a == m.addr
        e == entry[a]
        front == IF reqs[a] = <<>> THEN "none" ELSE Front(a).type
    IN CASE m.type \in ReqTypes -> "none"
         [] ~HasEntry(a) -> "no directory entry"
         [] m.type = "INV_REP" /\ e.dstate \notin {"SHARED", "EXCLUSIVE"} ->
              "Ooops: INV_REP for a line not S or E"
         [] m.type \in AckTypes /\ m.node \notin e.sharers -> "reply from a non-sharer"
         [] m.type = "FLUSH_REP" /\ e.sharers # {m.node} /\ e.dstate # "SHARED" ->
              "sharers left of a line not SHARED"
         [] m.type = "WB_REP" /\ front # "SH_REQ" -> "WB_REP without a SH_REQ"
         [] m.type = "DRAM_READ_REP" /\ front \notin ReqTypes -> "DRAM reply without a request"
         [] m.type = "DRAM_READ_REP" /\ front = "SH_REQ"
              /\ e.dstate \notin {"SHARED", "EXCLUSIVE"} -> "SH_REQ data, line not S or E"
         [] m.type = "DRAM_READ_REP" /\ front = "EX_REQ" /\ e.dstate # "MODIFIED" ->
              "EX_REQ data, line not M"
         [] OTHER -> "none"

handleMsgToDirectory ==
    LET m == Head(net[DirNode]) IN
    /\ Receives(DirNode, ToDirTypes)
    /\ DirAssertion(m) = "none"
    /\ \/ m.type \in ReqTypes /\ handleReqFromL2Cache(m)
       \/ m.type = "INV_REP" /\ processInvRepFromL2Cache(m)
       \/ m.type = "FLUSH_REP" /\ processFlushRepFromL2Cache(m)
       \/ m.type = "WB_REP" /\ processWbRepFromL2Cache(m)
       \/ m.type = "DRAM_READ_REP" /\ processDRAMReply(m)

(* DramCntlrInterface::handleMsgFromTagDirectory.                           *)
handleMsgFromTagDirectory ==
    LET m == Head(net[DramNode]) IN
    /\ Receives(DramNode, ToDramTypes)
    /\ PostFrom(DramNode, IF m.type = "DRAM_READ_REQ"
                          THEN MailTo({DirNode}, Msg("DRAM_READ_REP", m.node, m.addr, TRUE))
                          ELSE NoMail)
    /\ UNCHANGED <<sim, dirVars>>
=============================================================================
