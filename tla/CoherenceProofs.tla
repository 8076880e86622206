-------------------------- MODULE CoherenceProofs --------------------------
(***************************************************************************)
(* Proofs about Coherence, for any number of cores, lines and ways and for  *)
(* each of the three protocols.                                             *)
(***************************************************************************)
EXTENDS Coherence, FiniteSetTheorems, TLAPS

-----------------------------------------------------------------------------
(* Mail.                                                                    *)
Mails == [Nodes -> Seq(Messages)]

LEMMA MsgType ==
    ASSUME NEW type \in MsgTypes, NEW n \in Nodes, NEW a \in Addresses, NEW d \in BOOLEAN
    PROVE  Msg(type, n, a, d) \in Messages
BY DEF Msg, Messages

LEMMA NoMailType == NoMail \in Mails
BY DEF NoMail, Mails

LEMMA MailToType ==
    ASSUME NEW S, NEW m \in Messages
    PROVE  MailTo(S, m) \in Mails
BY DEF MailTo, Mails

LEMMA BothType ==
    ASSUME NEW out1 \in Mails, NEW out2 \in Mails
    PROVE  Both(out1, out2) \in Mails
BY DEF Both, Mails

LEMMA PostType ==
    ASSUME net \in Mails, NEW out \in Mails, Post(out)
    PROVE  net' \in Mails
BY DEF Post, Mails

LEMMA PostFromType ==
    ASSUME net \in Mails, NEW n \in Nodes, net[n] # <<>>, NEW out \in Mails, PostFrom(n, out)
    PROVE  net' \in Mails
BY DEF PostFrom, Mails

LEMMA ReceivesType ==
    ASSUME net \in Mails, NEW n \in Nodes, NEW types, Receives(n, types)
    PROVE  /\ net[n] # <<>>
           /\ Head(net[n]) \in Messages
           /\ Head(net[n]).type \in types
BY DEF Receives, Mails

-----------------------------------------------------------------------------
(* The inductive invariant.  Besides the types it says what the sim threads *)
(* rely on when they resume: the front request or waiter is still there.    *)
Consistent(e) ==
    /\ e.dstate = "UNCACHED" <=> e.sharers = {}
    /\ e.dstate \in {"EXCLUSIVE", "MODIFIED"} => e.sharers = {e.owner}

GoodEntries == {e \in Entries : Consistent(e)}

DirResumes ==
    \A n \in Nodes : sim[n].pc = "serve" =>
      n = DirNode /\ sim[n].addr \in Addresses /\ reqs[sim[n].addr] # <<>>

LlcResumes ==
    \A n \in Nodes : sim[n].pc \in {"wake", "woken"} =>
      /\ n \in Caches /\ sim[n].addr \in Addresses
      /\ sim[n].pc = "woken" => waiters[n][sim[n].addr] # <<>>

DirOK ==
    /\ entry \in [Addresses -> GoodEntries]
    /\ reqs \in [Addresses -> Seq(Requests)]

HomeOK ==
    /\ slots \subseteq Addresses
    /\ replaced \subseteq Addresses
    /\ nuca \in [Addresses -> {"absent", "clean", "dirty"}]

CoreInv ==
    /\ net \in Mails
    /\ sim \in [Nodes -> SimStates]
    /\ DirOK
    /\ LlcTypeOK
    /\ DirResumes
    /\ LlcResumes

TypeInv == CoreInv /\ HomeOK

LEMMA TypeInvImplies == TypeInv => TypeOK /\ DirectoryConsistent
BY DEF TypeInv, CoreInv, TypeOK, ShmemTypeOK, DirTypeOK, DirOK, HomeOK, Mails, GoodEntries,
       Consistent, DirectoryConsistent

LEMMA FreshEntryGood == FreshEntry \in GoodEntries
BY DEF FreshEntry, GoodEntries, Consistent, Entries, DirStates

LEMMA InitTypeInv == Init => TypeInv
<1> SUFFICES ASSUME Init PROVE TypeInv
  OBVIOUS
<1> USE DEF Init, ShmemInit, DirInit, LlcInit
<1>1. net \in Mails
  BY NoMailType
<1>2. sim \in [Nodes -> SimStates] /\ DirResumes /\ LlcResumes
  BY DEF Idle, SimStates, DirResumes, LlcResumes
<1>3. DirOK /\ HomeOK
  BY FreshEntryGood DEF DirOK, HomeOK
<1>4. LlcTypeOK
  BY DEF LlcTypeOK, CStates
<1> QED
  BY <1>1, <1>2, <1>3, <1>4 DEF TypeInv, CoreInv

-----------------------------------------------------------------------------
(* Steps of the directory.                                                  *)

(* A directory step leaves the sim thread idle or about to serve a request  *)
(* that is there.                                                           *)
LEMMA DirSimKept ==
    ASSUME CoreInv, UNCHANGED llcVars, NEW s,
           SetSim(s),
           \/ s = Idle
           \/ \E a \in Addresses, d \in BOOLEAN : s = Serving(a, d) /\ reqs'[a] # <<>>
    PROVE  sim' \in [Nodes -> SimStates] /\ DirResumes' /\ LlcResumes' /\ LlcTypeOK'
<1>1. s \in SimStates /\ s.pc \in {"idle", "serve"}
      /\ (s.pc = "serve" => s.addr \in Addresses /\ reqs'[s.addr] # <<>>)
  <2>1. CASE s = Idle
    BY <2>1 DEF Idle, SimStates
  <2>2. CASE \E a \in Addresses, d \in BOOLEAN : s = Serving(a, d) /\ reqs'[a] # <<>>
    <3>1. PICK a \in Addresses, d \in BOOLEAN : s = Serving(a, d) /\ reqs'[a] # <<>>
      BY <2>2
    <3> QED
      BY <3>1 DEF Serving, SimStates
  <2> QED
    BY <2>1, <2>2
<1>2. sim' \in [Nodes -> SimStates]
  BY <1>1, Zenon DEF SetSim, CoreInv
<1>3. \A n \in Nodes : sim'[n] = IF n = DirNode THEN s ELSE sim[n]
  BY DEF SetSim, CoreInv
<1>4. DirResumes'
  BY <1>1, <1>3 DEF CoreInv, DirResumes
<1>5. LlcResumes'
  BY <1>1, <1>3 DEF CoreInv, LlcResumes, llcVars
<1>6. LlcTypeOK'
  BY DEF CoreInv, LlcTypeOK, llcVars
<1> QED
  BY <1>2, <1>4, <1>5, <1>6

(* A record with the entries, requests and mail of the directory.           *)
Directory(h) ==
    /\ h.entry \in [Addresses -> GoodEntries]
    /\ h.reqs \in [Addresses -> Seq(Requests)]
    /\ h.out \in Mails

LEMMA ServedKept ==
    ASSUME CoreInv, UNCHANGED llcVars,
           NEW a \in Addresses, NEW h, Directory(h), NEW e \in GoodEntries,
           NEW q \in Seq(Requests), NEW out \in Mails, NEW s,
           s = Idle \/ (q # <<>> /\ \E d \in BOOLEAN : s = Serving(a, d)),
           Served(a, h, e, q, out, s)
    PROVE  CoreInv'
<1>1. DirOK'
  BY DEF Served, Directory, DirOK
<1>2. reqs'[a] = q
  BY DEF Served, Directory
<1>3. sim' \in [Nodes -> SimStates] /\ DirResumes' /\ LlcResumes' /\ LlcTypeOK'
  BY <1>2, DirSimKept DEF Served
<1>4. Both(h.out, out) \in Mails
  BY BothType DEF Directory
<1>5. net' \in Mails
  BY <1>4, PostType DEF Served, CoreInv
<1> QED
  BY <1>1, <1>3, <1>5 DEF CoreInv

LEMMA CompletedKept ==
    ASSUME CoreInv, UNCHANGED llcVars,
           NEW a \in Addresses, NEW h, Directory(h), h.reqs[a] # <<>>, NEW e \in GoodEntries,
           NEW out \in Mails, Completed(a, h, e, out)
    PROVE  CoreInv'
<1> DEFINE q == Tail(h.reqs[a])
           s == IF q = <<>> THEN Idle ELSE Serving(a, FALSE)
<1>1. q \in Seq(Requests)
  BY DEF Directory
<1>2. s = Idle \/ (q # <<>> /\ \E d \in BOOLEAN : s = Serving(a, d))
  BY Zenon
<1>3. Served(a, h, e, q, out, s)
  BY Zenon DEF Completed
<1> QED
  BY <1>1, <1>2, <1>3, ServedKept, Zenon

LEMMA ProbingKept ==
    ASSUME CoreInv, UNCHANGED llcVars,
           NEW a \in Addresses, NEW h, Directory(h), NEW e \in GoodEntries,
           NEW out \in Mails, Probing(a, h, e, out)
    PROVE  CoreInv'
<1>1. h.reqs[a] \in Seq(Requests)
  BY DEF Directory
<1> QED
  BY <1>1, ServedKept DEF Probing

LEMMA RevocationType ==
    ASSUME NEW a \in Addresses, NEW e, NEW n \in Nodes
    PROVE  Revocation(a, e, n) \in Mails
<1>1. Msg("INV_REQ", n, a, FALSE) \in Messages /\ Msg("FLUSH_REQ", n, a, FALSE) \in Messages
  BY MsgType, Zenon DEF MsgTypes, ToLlcTypes, ProbeTypes
<1> QED
  BY <1>1, MailToType, Zenon DEF Revocation

LEMMA HomesType ==
    ASSUME TypeInv, NEW a \in Addresses, reqs[a] # <<>>, NEW n \in Nodes, NEW h \in Homes(a, n)
    PROVE  /\ Directory(h)
           /\ h.reqs[a] = reqs[a]
           /\ h.slots \subseteq Addresses
           /\ h.replaced \subseteq Addresses
<1> USE DEF TypeInv, CoreInv, DirOK, HomeOK
<1>1. CASE HasEntry(a)
  <2>1. h = [slots |-> Looked(a), replaced |-> replaced, entry |-> entry,
             reqs |-> reqs, out |-> NoMail]
    BY <1>1 DEF Homes
  <2> QED
    BY <2>1, NoMailType DEF Directory, Looked
<1>2. CASE ~HasEntry(a)
  <2>1. PICK v \in Victims : h = Replacement(a, v, n)
    BY <1>2 DEF Homes
  <2>2. v \in slots /\ v \in Addresses /\ reqs[v] = <<>> /\ v # a
    BY DEF Victims, Candidates
  <2>3. CASE entry[v].dstate = "UNCACHED"
    BY <2>1, <2>2, <2>3, NoMailType, FreshEntryGood DEF Replacement, Directory
  <2>4. CASE entry[v].dstate # "UNCACHED"
    <3>1. Revocation(v, entry[v], n) \in Mails
      BY <2>2, RevocationType
    <3>2. NewReq("NULLIFY_REQ", n) \in Requests
      BY DEF NewReq, Requests
    <3>3. [reqs EXCEPT ![v] = <<NewReq("NULLIFY_REQ", n)>>] \in [Addresses -> Seq(Requests)]
      BY <3>2, <2>2
    <3> QED
      BY <2>1, <2>2, <2>4, <3>1, <3>3 DEF Replacement, Directory
  <2> QED
    BY <2>3, <2>4
<1> QED
  BY <1>1, <1>2

LEMMA FrontRequest ==
    ASSUME NEW q \in Seq(Requests), q # <<>>
    PROVE  /\ Head(q) \in Requests
           /\ [q EXCEPT ![1].wait = TRUE] \in Seq(Requests)
           /\ [q EXCEPT ![1].dangling = TRUE] \in Seq(Requests)
           /\ \A f \in Nodes : [q EXCEPT ![1].from = f] \in Seq(Requests)
<1>1. q[1] \in Requests /\ 1 \in 1..Len(q) /\ Head(q) = q[1]
  OBVIOUS
<1>2. \A r \in Requests : [q EXCEPT ![1] = r] \in Seq(Requests)
  BY <1>1
<1>3. [q[1] EXCEPT !.wait = TRUE] \in Requests
  BY <1>1, Zenon DEF Requests
<1>4. [q[1] EXCEPT !.dangling = TRUE] \in Requests
  BY <1>1, Zenon DEF Requests
<1>5. \A f \in Nodes : [q[1] EXCEPT !.from = f] \in Requests
  BY <1>1 DEF Requests
<1> QED
  BY <1>1, <1>2, <1>3, <1>4, <1>5

LEMMA RetrieveKept ==
    ASSUME CoreInv, UNCHANGED llcVars, NEW rep \in RepTypes,
           NEW a \in Addresses, NEW r \in Requests, NEW d \in BOOLEAN, NEW h, Directory(h),
           h.reqs[a] # <<>>, NEW e \in GoodEntries,
           retrieveDataAndSendToL2Cache(rep, a, r, d, h, e)
    PROVE  CoreInv'
<1> DEFINE q == h.reqs[a]
<1>1. q \in Seq(Requests) /\ q # <<>> /\ r.node \in Nodes
  BY Zenon DEF Directory, Requests
<1>2. \A t \in MsgTypes, x \in BOOLEAN : \A S : MailTo(S, Msg(t, r.node, a, x)) \in Mails
  BY <1>1, MsgType, MailToType
<1>3. rep \in MsgTypes /\ "WB_REQ" \in MsgTypes /\ "DRAM_READ_REQ" \in MsgTypes
  BY DEF MsgTypes, ToLlcTypes, ToDramTypes, ProbeTypes
<1>4. ForwardedBy(e, r.node) \in GoodEntries
  BY <1>1 DEF ForwardedBy, GoodEntries, Entries, Consistent
<1>5. CASE d /\ Completed(a, h, ForwardedBy(e, r.node), MailTo({r.node}, Msg(rep, r.node, a, TRUE)))
  BY <1>2, <1>3, <1>4, <1>5, CompletedKept, Zenon
<1>6. CASE Completed(a, h, e, MailTo({r.node}, Msg(rep, r.node, a, TRUE)))
  BY <1>2, <1>3, <1>6, CompletedKept, Zenon
<1>7. ASSUME NEW f \in Forwarders(r, e) \ {NoNode},
             Served(a, h, e, [h.reqs[a] EXCEPT ![1].from = f],
                    MailTo({f}, Msg("WB_REQ", r.node, a, FALSE)), Idle)
      PROVE  CoreInv'
  <2>1. f \in Nodes
    BY DEF Forwarders, GoodEntries, Entries
  <2>2. [q EXCEPT ![1].from = f] \in Seq(Requests)
    BY <1>1, <2>1, FrontRequest, Zenon
  <2> QED
    BY <1>2, <1>3, <1>7, <2>2, ServedKept, Zenon
<1>8. CASE Served(a, h, e, [h.reqs[a] EXCEPT ![1].wait = TRUE],
                  MailTo({DramNode}, Msg("DRAM_READ_REQ", r.node, a, FALSE)), Idle)
  <2>1. [q EXCEPT ![1].wait = TRUE] \in Seq(Requests)
    BY <1>1, FrontRequest, Zenon
  <2> QED
    BY <1>2, <1>3, <1>8, <2>1, ServedKept, Zenon
<1> QED
  BY <1>5, <1>6, <1>7, <1>8, Zenon DEF retrieveDataAndSendToL2Cache

LEMMA OwnedByGood ==
    ASSUME NEW e \in GoodEntries, NEW n \in Nodes, NEW s \in {"SHARED", "EXCLUSIVE", "MODIFIED"}
    PROVE  OwnedBy(e, n, s) \in GoodEntries
BY Zenon DEF OwnedBy, GoodEntries, Entries, DirStates, Consistent

LEMMA ExReqKept ==
    ASSUME CoreInv, UNCHANGED llcVars, NEW a \in Addresses, NEW r \in Requests,
           NEW d \in BOOLEAN, NEW h, Directory(h), h.reqs[a] # <<>>,
           processExReqFromL2Cache(a, r, d, h)
    PROVE  CoreInv'
<1> DEFINE e == h.entry[a]
<1>1. e \in GoodEntries /\ r.node \in Nodes
  BY DEF Directory, Requests
<1>2. CASE Probing(a, h, e, Revocation(a, e, r.node))
  BY <1>1, <1>2, RevocationType, ProbingKept
<1>3. CASE retrieveDataAndSendToL2Cache("EX_REP", a, r, d, h, OwnedBy(e, r.node, "MODIFIED"))
  <2>1. OwnedBy(e, r.node, "MODIFIED") \in GoodEntries
    BY <1>1, OwnedByGood
  <2> QED
    BY <1>3, <2>1, RetrieveKept DEF RepTypes
<1> QED
  BY <1>2, <1>3 DEF processExReqFromL2Cache

LEMMA ShReqKept ==
    ASSUME CoreInv, UNCHANGED llcVars, NEW a \in Addresses, NEW r \in Requests,
           NEW d \in BOOLEAN, NEW h, Directory(h), h.reqs[a] # <<>>,
           processShReqFromL2Cache(a, r, d, h)
    PROVE  CoreInv'
<1> DEFINE e == h.entry[a]
<1>1. e \in GoodEntries /\ r.node \in Nodes
  BY DEF Directory, Requests
<1>2. \A t \in ProbeTypes : \A S : MailTo(S, Msg(t, r.node, a, FALSE)) \in Mails
  BY <1>1, MsgType, MailToType, Zenon DEF MsgTypes, ToLlcTypes
<1>3. CASE Probing(a, h, e, MailTo({e.owner}, Msg("WB_REQ", r.node, a, FALSE)))
  BY <1>1, <1>2, <1>3, ProbingKept, Zenon DEF ProbeTypes
<1>4. CASE /\ e.dstate = "SHARED"
           /\ retrieveDataAndSendToL2Cache("SH_REP", a, r, d, h,
                                           [e EXCEPT !.sharers = @ \cup {r.node}])
  <2>1. [e EXCEPT !.sharers = @ \cup {r.node}] \in GoodEntries
    BY <1>1, <1>4 DEF GoodEntries, Entries, Consistent
  <2> QED
    BY <1>4, <2>1, RetrieveKept DEF RepTypes
<1>5. ASSUME NEW n \in e.sharers,
             Probing(a, h, e, MailTo({n}, Msg("INV_REQ", r.node, a, FALSE)))
      PROVE  CoreInv'
  BY <1>1, <1>2, <1>5, ProbingKept, Zenon DEF ProbeTypes
<1>6. CASE retrieveDataAndSendToL2Cache("SH_REP", a, r, d, h, OwnedBy(e, r.node, "SHARED"))
  BY <1>1, <1>6, OwnedByGood, RetrieveKept DEF RepTypes
<1>7. CASE retrieveDataAndSendToL2Cache("EX_REP", a, r, d, h, OwnedBy(e, r.node, "EXCLUSIVE"))
  BY <1>1, <1>7, OwnedByGood, RetrieveKept DEF RepTypes
<1> QED
  BY <1>3, <1>4, <1>5, <1>6, <1>7, Zenon DEF processShReqFromL2Cache

LEMMA UpgradeReqKept ==
    ASSUME CoreInv, UNCHANGED llcVars, NEW a \in Addresses, NEW r \in Requests,
           NEW d \in BOOLEAN, NEW h, Directory(h), h.reqs[a] # <<>>,
           processUpgradeReqFromL2Cache(a, r, d, h)
    PROVE  CoreInv'
<1> DEFINE e == h.entry[a]
           granted == MailTo({r.node}, Msg("UPGRADE_REP", r.node, a, FALSE))
           flush(n) == Both(MailTo({n}, Msg("FLUSH_REQ", r.node, a, FALSE)),
                            MailTo(e.sharers \ {n}, Msg("INV_REQ", r.node, a, FALSE)))
<1>1. e \in GoodEntries /\ r.node \in Nodes /\ r.dangling \in BOOLEAN
  BY DEF Directory, Requests
<1>2. \A t \in ToLlcTypes : \A S : MailTo(S, Msg(t, r.node, a, FALSE)) \in Mails
  BY <1>1, MsgType, MailToType, Zenon DEF MsgTypes
<1>3. CASE /\ e.dstate \in {"EXCLUSIVE", "MODIFIED"}
           /\ IF e.sharers = {r.node}
              THEN Completed(a, h, [e EXCEPT !.dstate = "MODIFIED"], granted)
              ELSE Probing(a, h, e, Revocation(a, e, r.node))
  <2>1. [e EXCEPT !.dstate = "MODIFIED"] \in GoodEntries
    BY <1>1, <1>3 DEF GoodEntries, Entries, DirStates, Consistent
  <2>2. granted \in Mails
    BY <1>2, Zenon DEF ToLlcTypes, RepTypes
  <2>3. CASE e.sharers = {r.node}
    BY <1>3, <2>1, <2>2, <2>3, CompletedKept, Zenon
  <2>4. CASE e.sharers # {r.node}
    BY <1>1, <1>3, <2>4, RevocationType, ProbingKept
  <2> QED
    BY <2>3, <2>4
<1>4. CASE Completed(a, h, OwnedBy(e, r.node, "MODIFIED"), granted)
  BY <1>1, <1>2, <1>4, OwnedByGood, CompletedKept, Zenon DEF ToLlcTypes, RepTypes
<1>5. CASE Probing(a, h, e, MailTo(e.sharers \ {r.node}, Msg("INV_REQ", r.node, a, FALSE)))
  BY <1>1, <1>2, <1>5, ProbingKept, Zenon DEF ToLlcTypes, ProbeTypes
<1>6. ASSUME NEW n \in e.sharers, Probing(a, h, e, flush(n))
      PROVE  CoreInv'
  <2>1. flush(n) \in Mails
    BY <1>2, BothType, Zenon DEF ToLlcTypes, ProbeTypes
  <2> QED
    BY <1>1, <1>6, <2>1, ProbingKept, Zenon
<1>7. CASE retrieveDataAndSendToL2Cache("EX_REP", a, r, d \/ r.dangling, h,
                                        OwnedBy(e, r.node, "MODIFIED"))
  <2>1. (d \/ r.dangling) \in BOOLEAN
    BY <1>1
  <2>2. OwnedBy(e, r.node, "MODIFIED") \in GoodEntries
    BY <1>1, OwnedByGood
  <2> QED
    BY <1>7, <2>1, <2>2, RetrieveKept, Zenon DEF RepTypes
<1> QED
  BY <1>3, <1>4, <1>5, <1>6, <1>7, Zenon DEF processUpgradeReqFromL2Cache

LEMMA NullifyKept ==
    ASSUME TypeInv, UNCHANGED <<llcVars, nuca>>, NEW a \in Addresses, NEW r \in Requests,
           reqs[a] # <<>>, processNullifyReq(a, r)
    PROVE  TypeInv'
<1> DEFINE h == [entry |-> entry, reqs |-> reqs, out |-> NoMail]
<1>1. Directory(h) /\ h.reqs[a] # <<>> /\ entry[a] \in GoodEntries /\ r.node \in Nodes
  BY NoMailType, Zenon DEF Directory, TypeInv, CoreInv, DirOK, Requests
<1>2. CoreInv /\ UNCHANGED llcVars
  BY DEF TypeInv
<1> HIDE DEF h
<1>3. CASE entry[a].dstate = "UNCACHED"
  <2>1. Completed(a, h, FreshEntry, NoMail)
    BY <1>3 DEF processNullifyReq, h
  <2>2. CoreInv'
    BY <1>1, <1>2, <2>1, FreshEntryGood, NoMailType, CompletedKept
  <2> QED
    BY <1>3, <2>2 DEF TypeInv, HomeOK, processNullifyReq
<1>4. CASE entry[a].dstate # "UNCACHED"
  <2>1. Probing(a, h, entry[a], Revocation(a, entry[a], r.node))
    BY <1>4 DEF processNullifyReq, h
  <2>2. CoreInv'
    BY <1>1, <1>2, <2>1, RevocationType, ProbingKept
  <2> QED
    BY <1>4, <2>2 DEF TypeInv, HomeOK, processNullifyReq
<1> QED
  BY <1>3, <1>4

LEMMA ServeKept ==
    ASSUME TypeInv, Serve, UNCHANGED llcVars
    PROVE  TypeInv'
<1> DEFINE a == sim[DirNode].addr
           d == sim[DirNode].data
           r == Front(a)
<1>1. a \in Addresses /\ reqs[a] # <<>> /\ d \in BOOLEAN
  BY ShmemAssumption DEF Serve, TypeInv, CoreInv, DirResumes, SimStates
<1>2. r \in Requests
  BY <1>1 DEF Front, TypeInv, CoreInv, DirOK
<1>3. CoreInv /\ UNCHANGED <<llcVars, nuca>> /\ UNCHANGED llcVars /\ r.node \in Nodes
  BY <1>2 DEF TypeInv, Serve, Requests
<1>4. CASE processNullifyReq(a, r)
  BY <1>1, <1>2, <1>3, <1>4, NullifyKept
<1>5. ASSUME NEW h \in Homes(a, r.node),
             \/ processExReqFromL2Cache(a, r, d, h)
             \/ processShReqFromL2Cache(a, r, d, h)
             \/ processUpgradeReqFromL2Cache(a, r, d, h),
             slots' = h.slots, replaced' = h.replaced
      PROVE  TypeInv'
  <2>1. /\ Directory(h) /\ h.reqs[a] # <<>>
        /\ h.slots \subseteq Addresses /\ h.replaced \subseteq Addresses
    BY <1>1, <1>3, HomesType
  <2> HIDE DEF r, a, d
  <2>2. CoreInv'
    BY <1>1, <1>2, <1>3, <1>5, <2>1, ExReqKept, ShReqKept, UpgradeReqKept
  <2> QED
    BY <1>3, <1>5, <2>1, <2>2 DEF TypeInv, HomeOK
<1> QED
  BY <1>4, <1>5 DEF Serve

-----------------------------------------------------------------------------
(* Messages to the directory.                                               *)

LEMMA LookedType ==
    ASSUME TypeInv, NEW a \in Addresses
    PROVE  Looked(a) \subseteq Addresses
BY DEF TypeInv, HomeOK, Looked

LEMMA AppendNonEmpty ==
    ASSUME NEW S, NEW q \in Seq(S), NEW x \in S
    PROVE  Append(q, x) \in Seq(S) /\ Append(q, x) # <<>>
<1>1. Append(q, x) \in Seq(S) /\ Len(Append(q, x)) = Len(q) + 1 /\ Len(q) \in Nat
  OBVIOUS
<1> QED
  BY <1>1

LEMMA ReqKept ==
    ASSUME TypeInv, UNCHANGED llcVars, NEW m \in Messages, m.type \in ReqTypes,
           net[DirNode] # <<>>, handleReqFromL2Cache(m)
    PROVE  TypeInv'
<1> DEFINE a == m.addr
           s == IF reqs[a] = <<>> THEN Serving(a, FALSE) ELSE Idle
<1>1. a \in Addresses /\ NewReq(m.type, m.node) \in Requests
  BY DEF Messages, NewReq, Requests
<1>2. DirOK' /\ reqs'[a] # <<>>
  <2> DEFINE q == Append(reqs[a], NewReq(m.type, m.node))
  <2>1. q \in Seq(Requests) /\ q # <<>>
    BY <1>1, AppendNonEmpty DEF TypeInv, CoreInv, DirOK
  <2>2. reqs' = [reqs EXCEPT ![a] = q] /\ entry' = entry
    BY DEF handleReqFromL2Cache
  <2> QED
    BY <1>1, <2>1, <2>2 DEF TypeInv, CoreInv, DirOK
<1>3. HomeOK'
  BY <1>1, LookedType DEF TypeInv, HomeOK, handleReqFromL2Cache
<1>4. net' \in Mails
  BY NoMailType, PostFromType, ShmemAssumption DEF TypeInv, CoreInv, handleReqFromL2Cache
<1>5. SetSim(s) /\ (s = Idle \/ \E b \in Addresses, d \in BOOLEAN :
                                    s = Serving(b, d) /\ reqs'[b] # <<>>)
  BY <1>1, <1>2, Zenon DEF handleReqFromL2Cache
<1>6. sim' \in [Nodes -> SimStates] /\ DirResumes' /\ LlcResumes' /\ LlcTypeOK'
  BY <1>5, DirSimKept, Zenon DEF TypeInv
<1> QED
  BY <1>2, <1>3, <1>4, <1>6 DEF TypeInv, CoreInv

LEMMA InvRepKept ==
    ASSUME TypeInv, UNCHANGED llcVars, NEW m \in Messages, net[DirNode] # <<>>,
           m.type = "INV_REP", DirAssertion(m) = "none", processInvRepFromL2Cache(m)
    PROVE  TypeInv'
<1> DEFINE a == m.addr
           left == entry[a].sharers \ {m.node}
           e(f) == [entry[a] EXCEPT !.sharers = left, !.forwarder = f,
                                    !.dstate = IF left = {} THEN "UNCACHED" ELSE @]
           resumes == reqs[a] # <<>> /\ InvRepResumes(Front(a), e(NoNode), m.node)
           s == IF resumes THEN Serving(a, FALSE) ELSE Idle
<1>1. a \in Addresses /\ m.node \in Nodes
  BY DEF Messages
<1>2. entry[a] \in GoodEntries /\ entry[a].dstate \in {"SHARED", "EXCLUSIVE"}
  BY <1>1 DEF TypeInv, CoreInv, DirOK, DirAssertion, ReqTypes
<1>3. PICK f \in ForwarderWithout(entry[a], m.node) : entry' = [entry EXCEPT ![a] = e(f)]
  BY Zenon DEF processInvRepFromL2Cache
<1>4. f \in Nodes \cup {NoNode, Uninitialised}
  BY <1>2 DEF ForwarderWithout, GoodEntries, Entries
<1>5. e(f) \in GoodEntries
  BY <1>2, <1>4, Zenon DEF GoodEntries, Entries, DirStates, Consistent
<1>6. DirOK' /\ reqs' = reqs
  BY <1>1, <1>3, <1>5 DEF TypeInv, CoreInv, DirOK, processInvRepFromL2Cache
<1>7. HomeOK'
  BY <1>1, LookedType DEF TypeInv, HomeOK, processInvRepFromL2Cache
<1>8. net' \in Mails
  BY NoMailType, PostFromType, ShmemAssumption DEF TypeInv, CoreInv, processInvRepFromL2Cache
<1>9. SetSim(s) /\ (s = Idle \/ \E b \in Addresses, d \in BOOLEAN :
                                    s = Serving(b, d) /\ reqs'[b] # <<>>)
  BY <1>1, <1>6, Zenon DEF processInvRepFromL2Cache
<1>10. sim' \in [Nodes -> SimStates] /\ DirResumes' /\ LlcResumes' /\ LlcTypeOK'
  BY <1>9, DirSimKept, Zenon DEF TypeInv
<1> QED
  BY <1>6, <1>7, <1>8, <1>10 DEF TypeInv, CoreInv

(* What a write to the NUCA slice or to memory may leave.                   *)
LEMMA NucaWritesType ==
    ASSUME TypeInv, NEW a \in Addresses, NEW w \in NucaWrites(a)
    PROVE  w.nuca \in [Addresses -> {"absent", "clean", "dirty"}] /\ w.out \in Mails
<1>1. \A b \in Addresses : ToDram(b) \in Mails
  BY MsgType, MailToType, ShmemAssumption, Zenon DEF ToDram, MsgTypes, ToDramTypes
<1>2. nuca \in [Addresses -> {"absent", "clean", "dirty"}]
  BY DEF TypeInv, HomeOK
<1>3. CASE a \in NucaLines
  BY <1>1, <1>2, <1>3, NoMailType DEF NucaWrites
<1>4. CASE a \notin NucaLines /\ Cardinality(NucaLines) < NucaWays
  BY <1>1, <1>2, <1>4, NoMailType DEF NucaWrites
<1>5. CASE a \notin NucaLines /\ ~(Cardinality(NucaLines) < NucaWays)
  <2>1. PICK v \in NucaLines :
               w = [nuca |-> [nuca EXCEPT ![v] = "absent", ![a] = "clean"],
                    out |-> IF nuca[v] = "dirty" THEN ToDram(v) ELSE NoMail]
    BY <1>5 DEF NucaWrites
  <2> QED
    BY <1>1, <1>2, <2>1, NoMailType DEF NucaLines
<1> QED
  BY <1>3, <1>4, <1>5

LEMMA SendDataType ==
    ASSUME TypeInv, NEW a \in Addresses, NEW w \in sendDataToNUCA(a) \cup sendDataToDram(a)
    PROVE  w.nuca \in [Addresses -> {"absent", "clean", "dirty"}] /\ w.out \in Mails
<1>1. ToDram(a) \in Mails
  BY MsgType, MailToType, ShmemAssumption, Zenon DEF ToDram, MsgTypes, ToDramTypes
<1>2. CASE NucaWays = 0
  BY <1>1, <1>2, NoMailType DEF sendDataToNUCA, sendDataToDram, TypeInv, HomeOK
<1>3. CASE NucaWays # 0
  BY <1>3, NucaWritesType DEF sendDataToNUCA, sendDataToDram
<1> QED
  BY <1>2, <1>3

LEMMA FlushRepKept ==
    ASSUME TypeInv, UNCHANGED llcVars, NEW m \in Messages, net[DirNode] # <<>>,
           m.type = "FLUSH_REP", DirAssertion(m) = "none", sim[DirNode].pc = "idle",
           processFlushRepFromL2Cache(m)
    PROVE  TypeInv'
<1> DEFINE a == m.addr
           left == entry[a].sharers \ {m.node}
           e == [entry[a] EXCEPT !.sharers = left, !.owner = NoNode, !.forwarder = NoNode,
                                 !.dstate = IF left = {} THEN "UNCACHED" ELSE @]
           front == IF reqs[a] = <<>> THEN "none" ELSE Front(a).type
           s == CASE front = "none" -> Idle
                  [] front = "SH_REQ" -> Serving(a, m.data)
                  [] front = "NULLIFY_REQ" -> Serving(a, FALSE)
<1>1. a \in Addresses /\ m.node \in Nodes /\ m.data \in BOOLEAN
  BY DEF Messages
<1>2. /\ entry[a] \in GoodEntries /\ m.node \in entry[a].sharers
      /\ left # {} => entry[a].dstate = "SHARED"
  BY <1>1 DEF TypeInv, CoreInv, DirOK, DirAssertion, ReqTypes, AckTypes
<1>3. e \in GoodEntries
  BY <1>2, Zenon DEF GoodEntries, Entries, DirStates, Consistent
<1>4. entry' \in [Addresses -> GoodEntries] /\ slots' \subseteq Addresses /\ replaced' = replaced
  BY <1>1, <1>3, LookedType DEF TypeInv, CoreInv, DirOK, processFlushRepFromL2Cache
<1>5. reqs \in [Addresses -> Seq(Requests)] /\ net \in Mails /\ CoreInv
      /\ sim \in [Nodes -> SimStates]
  BY DEF TypeInv, CoreInv, DirOK
<1>6. CASE /\ front = "EX_REQ" \/ (front = "UPGRADE_REQ" /\ left = {})
           /\ SetSim(Serving(a, m.data))
           /\ PostFrom(DirNode, NoMail)
           /\ UNCHANGED <<reqs, nuca>>
  <2>1. reqs'[a] # <<>>
    BY <1>6
  <2>2. net' \in Mails
    BY <1>5, <1>6, NoMailType, PostFromType, ShmemAssumption
  <2>3. sim' \in [Nodes -> SimStates] /\ DirResumes' /\ LlcResumes' /\ LlcTypeOK'
    BY <1>1, <1>5, <1>6, <2>1, DirSimKept
  <2> QED
    BY <1>4, <1>5, <1>6, <2>2, <2>3 DEF TypeInv, CoreInv, DirOK, HomeOK
<1>7. CASE /\ front = "UPGRADE_REQ" /\ left # {}
           /\ reqs' = [reqs EXCEPT ![a][1].dangling = TRUE]
           /\ PostFrom(DirNode, NoMail)
           /\ UNCHANGED <<sim, nuca>>
  <2>1. [reqs[a] EXCEPT ![1].dangling = TRUE] \in Seq(Requests)
    BY <1>1, <1>5, <1>7, FrontRequest, Zenon
  <2>2. reqs' = [reqs EXCEPT ![a] = [reqs[a] EXCEPT ![1].dangling = TRUE]]
    BY <1>7
  <2>3. reqs' \in [Addresses -> Seq(Requests)]
    BY <1>5, <2>1, <2>2, Zenon
  <2>4. net' \in Mails
    BY <1>5, <1>7, NoMailType, PostFromType, ShmemAssumption
  <2>5. DirResumes' /\ LlcResumes' /\ LlcTypeOK'
    <3>1. \A n \in Nodes : sim[n].pc # "serve"
      BY <1>5 DEF CoreInv, DirResumes
    <3> QED
      BY <3>1, <1>5, <1>7 DEF CoreInv, DirResumes, LlcResumes, LlcTypeOK, llcVars
  <2> QED
    BY <1>4, <1>5, <1>7, <2>3, <2>4, <2>5 DEF TypeInv, CoreInv, DirOK, HomeOK
<1>8. CASE /\ front \in {"none", "SH_REQ", "NULLIFY_REQ"}
           /\ \E w \in sendDataToDram(a) : nuca' = w.nuca /\ PostFrom(DirNode, w.out)
           /\ SetSim(s)
           /\ UNCHANGED reqs
  <2>1. nuca' \in [Addresses -> {"absent", "clean", "dirty"}] /\ net' \in Mails
    BY <1>1, <1>5, <1>8, SendDataType, PostFromType, ShmemAssumption
  <2>2. s = Idle \/ \E b \in Addresses, d \in BOOLEAN : s = Serving(b, d) /\ reqs'[b] # <<>>
    BY <1>1, <1>8, Zenon
  <2>3. sim' \in [Nodes -> SimStates] /\ DirResumes' /\ LlcResumes' /\ LlcTypeOK'
    BY <1>5, <1>8, <2>2, DirSimKept, Zenon
  <2> QED
    BY <1>4, <1>5, <1>8, <2>1, <2>3 DEF TypeInv, CoreInv, DirOK, HomeOK
<1> QED
  BY <1>6, <1>7, <1>8, Zenon DEF processFlushRepFromL2Cache

LEMMA WbRepKept ==
    ASSUME TypeInv, UNCHANGED llcVars, NEW m \in Messages, net[DirNode] # <<>>,
           m.type = "WB_REP", DirAssertion(m) = "none", processWbRepFromL2Cache(m)
    PROVE  TypeInv'
<1> DEFINE a == m.addr
           e == [entry[a] EXCEPT !.owner = NoNode, !.dstate = "SHARED"]
<1>1. a \in Addresses /\ m.node \in Nodes /\ m.data \in BOOLEAN
  BY DEF Messages
<1>2. entry[a] \in GoodEntries /\ m.node \in entry[a].sharers /\ reqs[a] # <<>>
  BY <1>1 DEF TypeInv, CoreInv, DirOK, DirAssertion, ReqTypes, AckTypes
<1>3. e \in GoodEntries
  BY <1>2, Zenon DEF GoodEntries, Entries, DirStates, Consistent
<1>4. DirOK' /\ reqs' = reqs
  <2>1. entry' = [entry EXCEPT ![a] = e] /\ reqs' = reqs
    BY <1>1, Zenon DEF processWbRepFromL2Cache, TypeInv, CoreInv, DirOK
  <2> QED
    BY <1>3, <2>1, Zenon DEF TypeInv, CoreInv, DirOK
<1>5. HomeOK'
  BY <1>1, LookedType DEF TypeInv, HomeOK, processWbRepFromL2Cache
<1>6. net' \in Mails
  BY NoMailType, PostFromType, ShmemAssumption DEF TypeInv, CoreInv, processWbRepFromL2Cache
<1>7. sim' \in [Nodes -> SimStates] /\ DirResumes' /\ LlcResumes' /\ LlcTypeOK'
  BY <1>1, <1>2, <1>4, DirSimKept DEF TypeInv, processWbRepFromL2Cache
<1> QED
  BY <1>4, <1>5, <1>6, <1>7 DEF TypeInv, CoreInv

LEMMA DramReplyKept ==
    ASSUME TypeInv, UNCHANGED llcVars, NEW m \in Messages, net[DirNode] # <<>>,
           m.type = "DRAM_READ_REP", DirAssertion(m) = "none", processDRAMReply(m)
    PROVE  TypeInv'
<1> DEFINE a == m.addr
           r == Front(a)
           rep == IF r.type = "SH_REQ" /\ entry[a].dstate = "SHARED" THEN "SH_REP" ELSE "EX_REP"
           q == Tail(reqs[a])
           s == IF q = <<>> THEN Idle ELSE Serving(a, FALSE)
<1>1. a \in Addresses /\ reqs[a] # <<>> /\ reqs[a] \in Seq(Requests)
  BY DEF TypeInv, CoreInv, DirOK, DirAssertion, ReqTypes, AckTypes, Messages
<1>2. q \in Seq(Requests) /\ r \in Requests /\ r.node \in Nodes
  <2>1. q \in Seq(Requests)
    BY <1>1
  <2>2. r \in Requests
    BY <1>1, FrontRequest DEF Front
  <2> QED
    BY <2>1, <2>2 DEF Requests
<1>3. DirOK' /\ reqs'[a] = q
  BY <1>1, <1>2 DEF TypeInv, CoreInv, DirOK, processDRAMReply
<1>4. PICK w \in sendDataToNUCA(a) :
             /\ nuca' = w.nuca
             /\ PostFrom(DirNode, Both(MailTo({r.node}, Msg(rep, r.node, a, TRUE)), w.out))
  BY Zenon DEF processDRAMReply
<1>5. w.nuca \in [Addresses -> {"absent", "clean", "dirty"}] /\ w.out \in Mails
  BY <1>1, SendDataType
<1>6. MailTo({r.node}, Msg(rep, r.node, a, TRUE)) \in Mails
  BY <1>1, <1>2, MsgType, MailToType, Zenon DEF MsgTypes, ToLlcTypes, RepTypes
<1>7. net' \in Mails
  BY <1>4, <1>5, <1>6, BothType, PostFromType, ShmemAssumption, Zenon DEF TypeInv, CoreInv
<1>8. HomeOK'
  BY <1>1, <1>4, <1>5, LookedType, Zenon DEF TypeInv, HomeOK, processDRAMReply
<1>9. SetSim(s) /\ (s = Idle \/ \E b \in Addresses, d \in BOOLEAN :
                                    s = Serving(b, d) /\ reqs'[b] # <<>>)
  BY <1>1, <1>3, Zenon DEF processDRAMReply
<1>10. sim' \in [Nodes -> SimStates] /\ DirResumes' /\ LlcResumes' /\ LlcTypeOK'
  BY <1>9, DirSimKept, Zenon DEF TypeInv
<1> QED
  BY <1>3, <1>7, <1>8, <1>10 DEF TypeInv, CoreInv

LEMMA DirectoryMessageKept ==
    ASSUME TypeInv, UNCHANGED llcVars, handleMsgToDirectory
    PROVE  TypeInv'
<1> DEFINE m == Head(net[DirNode])
<1>1. m \in Messages /\ net[DirNode] # <<>> /\ sim[DirNode].pc = "idle"
      /\ DirAssertion(m) = "none"
  BY ReceivesType, ShmemAssumption DEF handleMsgToDirectory, TypeInv, CoreInv, Receives
<1> HIDE DEF m
<1>2. CASE m.type \in ReqTypes /\ handleReqFromL2Cache(m)
  BY <1>1, <1>2, ReqKept
<1>3. CASE m.type = "INV_REP" /\ processInvRepFromL2Cache(m)
  BY <1>1, <1>3, InvRepKept
<1>4. CASE m.type = "FLUSH_REP" /\ processFlushRepFromL2Cache(m)
  BY <1>1, <1>4, FlushRepKept
<1>5. CASE m.type = "WB_REP" /\ processWbRepFromL2Cache(m)
  BY <1>1, <1>5, WbRepKept
<1>6. CASE m.type = "DRAM_READ_REP" /\ processDRAMReply(m)
  BY <1>1, <1>6, DramReplyKept
<1> QED
  BY <1>2, <1>3, <1>4, <1>5, <1>6, Zenon DEF handleMsgToDirectory, m

LEMMA DramMessageKept ==
    ASSUME TypeInv, UNCHANGED llcVars, handleMsgFromTagDirectory
    PROVE  TypeInv'
<1> DEFINE m == Head(net[DramNode])
           out == IF m.type = "DRAM_READ_REQ"
                  THEN MailTo({DirNode}, Msg("DRAM_READ_REP", m.node, m.addr, TRUE))
                  ELSE NoMail
<1>1. m \in Messages /\ net[DramNode] # <<>>
  BY ReceivesType, ShmemAssumption, Zenon DEF handleMsgFromTagDirectory, TypeInv, CoreInv
<1>2. out \in Mails
  BY <1>1, MsgType, MailToType, NoMailType, Zenon DEF Messages, MsgTypes, ToDirTypes
<1>3. net' \in Mails
  BY <1>1, <1>2, PostFromType, ShmemAssumption, Zenon DEF handleMsgFromTagDirectory, TypeInv,
         CoreInv
<1>4. UNCHANGED <<sim, dirVars, llcVars>>
  BY DEF handleMsgFromTagDirectory
<1> QED
  BY <1>3, <1>4 DEF TypeInv, CoreInv, DirOK, HomeOK, LlcTypeOK, DirResumes, LlcResumes,
                    dirVars, llcVars

-----------------------------------------------------------------------------
(* Steps of the last-level caches and of the user threads.                  *)

LEMMA ToDirType ==
    ASSUME NEW type \in ToDirTypes, NEW c \in Nodes, NEW a \in Addresses, NEW d \in BOOLEAN
    PROVE  ToDir(type, c, a, d) \in Mails
BY MsgType, MailToType DEF ToDir, MsgTypes

LEMMA CachesAreNodes == Caches \subseteq Nodes
BY LlcAssumption DEF Caches

LEMMA InsertKept ==
    ASSUME TypeInv, NEW c \in Caches, NEW a \in Addresses, net[c] # <<>>,
           NEW s \in CStates, insertCacheBlock(c, a, s)
    PROVE  net' \in Mails /\ cstate' \in [Caches -> [Addresses -> CStates]]
<1>1. PICK v \in EvictionVictims(c) :
        /\ cstate' = [cstate EXCEPT ![c] =
                        [b \in Addresses |-> IF b = a THEN s
                                             ELSE IF b = v THEN "INVALID" ELSE @[b]]]
        /\ PostFrom(c, IF v = NoAddress THEN NoMail
                       ELSE IF cstate[c][v] = "MODIFIED"
                       THEN ToDir("FLUSH_REP", c, v, TRUE)
                       ELSE ToDir("INV_REP", c, v, FALSE))
  BY Zenon DEF insertCacheBlock
<1>2. cstate \in [Caches -> [Addresses -> CStates]]
  BY DEF TypeInv, CoreInv, LlcTypeOK
<1>3. [b \in Addresses |-> IF b = a THEN s ELSE IF b = v THEN "INVALID" ELSE cstate[c][b]]
        \in [Addresses -> CStates]
  BY <1>2 DEF CStates
<1>4. cstate' \in [Caches -> [Addresses -> CStates]]
  BY <1>1, <1>2, <1>3
<1>5. v # NoAddress => v \in Addresses
  BY DEF EvictionVictims, Resident
<1>6. (IF v = NoAddress THEN NoMail
       ELSE IF cstate[c][v] = "MODIFIED" THEN ToDir("FLUSH_REP", c, v, TRUE)
       ELSE ToDir("INV_REP", c, v, FALSE)) \in Mails
  BY <1>5, NoMailType, ToDirType, CachesAreNodes, Zenon DEF ToDirTypes, AckTypes
<1> QED
  BY <1>1, <1>4, <1>6, PostFromType, CachesAreNodes, Zenon DEF TypeInv, CoreInv

(* A cache step changes the sim thread of c only, and leaves it as s.       *)
LEMMA CacheStepKept ==
    ASSUME TypeInv, UNCHANGED dirVars, NEW c \in Caches, sim[c].pc # "serve",
           NEW s \in SimStates, sim' = [sim EXCEPT ![c] = s],
           s.pc # "serve",
           s.pc \in {"wake", "woken"} => s.addr \in Addresses,
           s.pc = "woken" => waiters'[c][s.addr] # <<>>,
           \A d \in Caches \ {c} : waiters'[d] = waiters[d],
           net' \in Mails, LlcTypeOK'
    PROVE  TypeInv'
<1>1. DirOK' /\ HomeOK' /\ reqs' = reqs
  BY DEF TypeInv, CoreInv, DirOK, HomeOK, dirVars
<1>2. sim \in [Nodes -> SimStates] /\ c \in Nodes
  BY CachesAreNodes DEF TypeInv, CoreInv
<1>3. sim' \in [Nodes -> SimStates] /\ \A n \in Nodes : sim'[n] = IF n = c THEN s ELSE sim[n]
  BY <1>2
<1>4. DirResumes'
  BY <1>1, <1>3 DEF TypeInv, CoreInv, DirResumes
<1>5. LlcResumes'
  BY <1>2, <1>3 DEF TypeInv, CoreInv, LlcResumes
<1> QED
  BY <1>1, <1>3, <1>4, <1>5 DEF TypeInv, CoreInv

LEMMA SimStatesType ==
    /\ Idle \in SimStates
    /\ \A a \in Addresses : Waking(a) \in SimStates /\ Woken(a) \in SimStates
BY DEF Idle, Waking, Woken, SimStates

LEMMA SetStateType ==
    ASSUME LlcTypeOK, NEW c \in Caches, NEW a \in Addresses, NEW s \in CStates,
           SetState(c, a, s)
    PROVE  cstate' \in [Caches -> [Addresses -> CStates]]
BY DEF SetState, LlcTypeOK

LEMMA ProbedKept ==
    ASSUME TypeInv, NEW c \in Caches, NEW a \in Addresses, net[c] # <<>>,
           NEW rep \in ToDirTypes, NEW s \in CStates, NEW d \in BOOLEAN,
           Probed(c, a, rep, s, d)
    PROVE  /\ net' \in Mails
           /\ cstate' \in [Caches -> [Addresses -> CStates]]
           /\ UNCHANGED sim
<1>1. LlcTypeOK /\ net \in Mails /\ c \in Nodes
  BY CachesAreNodes DEF TypeInv, CoreInv
<1>2. ToDir(rep, c, a, d) \in Mails
  BY <1>1, ToDirType
<1>3. net' \in Mails
  BY <1>1, <1>2, NoMailType, PostFromType DEF Probed
<1>4. cstate' \in [Caches -> [Addresses -> CStates]]
  BY <1>1, SetStateType, SMTT(30) DEF Probed, LlcTypeOK
<1> QED
  BY <1>3, <1>4 DEF Probed

LEMMA CacheMessageKept ==
    ASSUME TypeInv, UNCHANGED dirVars, NEW c \in Caches, handleMsgFromDramDirectory(c)
    PROVE  TypeInv'
<1> DEFINE m == Head(net[c])
           a == m.addr
<1>1. /\ c \in Nodes /\ m \in Messages /\ net[c] # <<>> /\ a \in Addresses
      /\ sim[c] \in SimStates /\ sim[c].pc = "idle"
  BY ReceivesType, CachesAreNodes, Zenon DEF handleMsgFromDramDirectory, TypeInv, CoreInv,
         Receives, Messages
<1>2. UNCHANGED waiters /\ LlcTypeOK
  BY DEF handleMsgFromDramDirectory, TypeInv, CoreInv
<1>3. CASE m.type = "EX_REP" /\ processExRepFromDramDirectory(c, a)
  <2>1. net' \in Mails /\ cstate' \in [Caches -> [Addresses -> CStates]]
    BY <1>1, <1>3, InsertKept DEF processExRepFromDramDirectory, CStates
  <2> QED
    BY <1>1, <1>2, <1>3, <2>1, CacheStepKept, SimStatesType
   , Zenon DEF processExRepFromDramDirectory, StartWaking, LlcTypeOK, Waking
<1>4. CASE m.type = "SH_REP" /\ processShRepFromDramDirectory(c, a)
  <2>1. net' \in Mails /\ cstate' \in [Caches -> [Addresses -> CStates]]
    BY <1>1, <1>4, InsertKept DEF processShRepFromDramDirectory, CStates
  <2> QED
    BY <1>1, <1>2, <1>4, <2>1, CacheStepKept, SimStatesType
   , Zenon DEF processShRepFromDramDirectory, StartWaking, LlcTypeOK, Waking
<1>5. CASE m.type = "UPGRADE_REP" /\ processUpgradeRepFromDramDirectory(c, a)
  <2>1. cstate' \in [Caches -> [Addresses -> CStates]]
    BY <1>1, <1>2, <1>5, SetStateType DEF processUpgradeRepFromDramDirectory, CStates
  <2>2. net' \in Mails
    BY <1>1, <1>5, NoMailType, PostFromType
    DEF processUpgradeRepFromDramDirectory, TypeInv, CoreInv
  <2> QED
    BY <1>1, <1>2, <1>5, <2>1, <2>2, CacheStepKept, SimStatesType
   , Zenon DEF processUpgradeRepFromDramDirectory, StartWaking, LlcTypeOK, Waking
<1>6. ASSUME NEW rep \in ToDirTypes, NEW s \in CStates, NEW d \in BOOLEAN, Probed(c, a, rep, s, d)
      PROVE  TypeInv'
  <2>1. net' \in Mails /\ cstate' \in [Caches -> [Addresses -> CStates]] /\ UNCHANGED sim
    BY <1>1, <1>6, ProbedKept
  <2>2. sim' = [sim EXCEPT ![c] = sim[c]]
    BY <2>1 DEF TypeInv, CoreInv
  <2> QED
    BY <1>1, <1>2, <2>1, <2>2, CacheStepKept, Zenon DEF LlcTypeOK
<1>7. CASE m.type = "INV_REQ" /\ processInvReqFromDramDirectory(c, a)
  BY <1>6, <1>7, Zenon DEF processInvReqFromDramDirectory, CStates, ToDirTypes, AckTypes
<1>8. CASE m.type = "FLUSH_REQ" /\ processFlushReqFromDramDirectory(c, a)
  BY <1>6, <1>8, Zenon DEF processFlushReqFromDramDirectory, CStates, ToDirTypes, AckTypes
<1>9. CASE m.type = "WB_REQ" /\ processWbReqFromDramDirectory(c, a)
  BY <1>6, <1>9, Zenon DEF processWbReqFromDramDirectory, CStates, ToDirTypes, AckTypes
<1> QED
  BY <1>3, <1>4, <1>5, <1>7, <1>8, <1>9 DEF handleMsgFromDramDirectory

LEMMA WakeUpKept ==
    ASSUME TypeInv, UNCHANGED dirVars, NEW c \in Caches, wakeUpWaiters(c)
    PROVE  TypeInv'
<1> DEFINE a == sim[c].addr
           q == waiters[c][a]
<1>1. c \in Nodes /\ a \in Addresses /\ sim[c].pc = "wake" /\ LlcTypeOK /\ net \in Mails
      /\ UNCHANGED waiters
  BY CachesAreNodes, Zenon DEF wakeUpWaiters, TypeInv, CoreInv, LlcResumes
<1>2. CASE q = <<>> /\ sim' = [sim EXCEPT ![c] = Idle] /\ UNCHANGED <<net, cstate>>
  BY <1>1, <1>2, CacheStepKept, SimStatesType, Zenon DEF Idle, LlcTypeOK
<1>3. CASE /\ SetState(c, a, "SHARED_UPGRADING")
           /\ Post(ToDir("UPGRADE_REQ", c, a, FALSE))
           /\ sim' = [sim EXCEPT ![c] = Idle]
  <2>1. net' \in Mails
    BY <1>1, <1>3, ToDirType, PostType, Zenon DEF ToDirTypes, ReqTypes
  <2>2. cstate' \in [Caches -> [Addresses -> CStates]]
    BY <1>1, <1>3, SetStateType DEF CStates
  <2> QED
    BY <1>1, <1>3, <2>1, <2>2, CacheStepKept, SimStatesType, Zenon DEF Idle, LlcTypeOK
<1>4. CASE q # <<>> /\ sim' = [sim EXCEPT ![c] = Woken(a)] /\ UNCHANGED <<net, cstate>>
  BY <1>1, <1>4, CacheStepKept, SimStatesType, Zenon DEF Woken, LlcTypeOK
<1> QED
  BY <1>2, <1>3, <1>4, Zenon DEF wakeUpWaiters

LEMMA DequeueKept ==
    ASSUME TypeInv, UNCHANGED dirVars, NEW c \in Caches, dequeueWaiter(c)
    PROVE  TypeInv'
<1> DEFINE a == sim[c].addr
           q == waiters[c][a]
<1>1. c \in Nodes /\ a \in Addresses /\ sim[c].pc = "woken" /\ q # <<>> /\ LlcTypeOK
      /\ net \in Mails /\ UNCHANGED <<net, cstate>>
  BY CachesAreNodes DEF dequeueWaiter, TypeInv, CoreInv, LlcResumes
<1>2. Tail(q) \in Seq(Waiters)
  BY <1>1 DEF LlcTypeOK
<1>3. waiters' = [waiters EXCEPT ![c][a] = Tail(q)] /\ sim' = [sim EXCEPT ![c] = Waking(a)]
  BY <1>1 DEF dequeueWaiter, LlcTypeOK, StartWaking
<1> HIDE DEF q
<1>4. LlcTypeOK' /\ \A d \in Caches \ {c} : waiters'[d] = waiters[d]
  BY <1>1, <1>2, <1>3 DEF LlcTypeOK
<1> QED
  BY <1>1, <1>3, <1>4, CacheStepKept, SimStatesType, Zenon DEF Waking

LEMMA MissKept ==
    ASSUME TypeInv, UNCHANGED dirVars, NEW k \in Cores, NEW a \in Addresses,
           NEW exclusive \in BOOLEAN, initiateDirectoryAccess(k, a, exclusive)
    PROVE  TypeInv'
<1> DEFINE c == LlcOf[k]
           w == [core |-> k, exclusive |-> exclusive]
           q == Append(waiters[c][a], w)
<1>1. c \in Caches /\ c \in Nodes /\ LlcTypeOK /\ net \in Mails
  BY LlcAssumption DEF Caches, TypeInv, CoreInv
<1>2. w \in Waiters
  BY DEF Waiters
<1>3. q \in Seq(Waiters) /\ q # <<>>
  BY <1>1, <1>2, AppendNonEmpty, Zenon DEF LlcTypeOK
<1>4. waiters' = [waiters EXCEPT ![c][a] = q]
  BY <1>1, Zenon DEF initiateDirectoryAccess, LlcTypeOK
<1> HIDE DEF q
<1>5. waiters' \in [Caches -> [Addresses -> Seq(Waiters)]]
  BY <1>1, <1>3, <1>4 DEF LlcTypeOK
<1>6. \A t \in ReqTypes : ToDir(t, c, a, FALSE) \in Mails
  BY <1>1, ToDirType, Zenon DEF ToDirTypes
<1>7. /\ net' \in Mails /\ cstate' \in [Caches -> [Addresses -> CStates]] /\ UNCHANGED sim
  <2>1. CASE UNCHANGED <<cstate, shmemVars>>
    BY <2>1, <1>1 DEF shmemVars, LlcTypeOK
  <2>2. CASE SetState(c, a, "SHARED_UPGRADING") /\ Post(ToDir("UPGRADE_REQ", c, a, FALSE))
             /\ UNCHANGED sim
    BY <2>2, <1>1, <1>6, PostType, SetStateType, Zenon DEF ReqTypes, CStates
  <2>3. CASE Post(ToDir("EX_REQ", c, a, FALSE)) /\ UNCHANGED <<cstate, sim>>
    BY <2>3, <1>1, <1>6, PostType, Zenon DEF ReqTypes, LlcTypeOK
  <2>4. CASE Post(ToDir("SH_REQ", c, a, FALSE)) /\ UNCHANGED <<cstate, sim>>
    BY <2>4, <1>1, <1>6, PostType, ZenonT(40) DEF ReqTypes, LlcTypeOK
  <2> QED
    BY <2>1, <2>2, <2>3, <2>4, Zenon DEF initiateDirectoryAccess
<1>8. LlcResumes'
  <2>1. ASSUME NEW n \in Nodes, sim[n].pc = "woken", n \in Caches, sim[n].addr \in Addresses,
               waiters[n][sim[n].addr] # <<>>
        PROVE  waiters'[n][sim[n].addr] # <<>>
    BY <1>1, <1>3, <1>4, <2>1 DEF LlcTypeOK
  <2> QED
    BY <1>7, <2>1, SMTT(30) DEF TypeInv, CoreInv, LlcResumes
<1> QED
  BY <1>5, <1>7, <1>8 DEF TypeInv, CoreInv, DirOK, HomeOK, LlcTypeOK, DirResumes, dirVars

-----------------------------------------------------------------------------
LEMMA NextTypeInv == TypeInv /\ [Next]_vars => TypeInv'
<1> SUFFICES ASSUME TypeInv, [Next]_vars PROVE TypeInv'
  OBVIOUS
<1>1. ASSUME NEW n \in Nodes, SimThread(n) PROVE TypeInv'
  BY <1>1, ServeKept, DirectoryMessageKept, DramMessageKept, CacheMessageKept, WakeUpKept,
     DequeueKept DEF SimThread
<1>2. ASSUME NEW k \in Cores, UserThread(k) PROVE TypeInv'
  BY <1>2, MissKept DEF UserThread
<1>3. CASE UNCHANGED vars
  BY <1>3 DEF vars, shmemVars, dirVars, llcVars, TypeInv, CoreInv, DirOK, HomeOK, LlcTypeOK,
              DirResumes, LlcResumes
<1> QED
  BY <1>1, <1>2, <1>3 DEF Next

LEMMA AlwaysTypeInv == Spec => []TypeInv
BY InitTypeInv, NextTypeInv, PTL DEF Spec

(* Every handler of the directory, the caches and the DRAM controller keeps *)
(* every variable within its type.                                          *)
THEOREM TypeCorrectness == Spec => []TypeOK
BY AlwaysTypeInv, TypeInvImplies, PTL

(* Whatever order requests, voluntary evictions and probe replies come in,  *)
(* a directory entry is UNCACHED exactly when it has no sharers and has its *)
(* owner as only sharer while it is EXCLUSIVE or MODIFIED.                  *)
THEOREM DirectoryConsistency == Spec => []DirectoryConsistent
BY AlwaysTypeInv, TypeInvImplies, PTL

-----------------------------------------------------------------------------
(* The capacity of the directory cache.  A line on the replaced list means  *)
(* that every way is taken, because ways are never freed.                   *)
CapacityInv ==
    /\ IsFiniteSet(slots)
    /\ DirectoryCapacity
    /\ replaced # {} => Cardinality(slots) = DirWays

LEMMA LookedCapacity ==
    ASSUME TypeInv, CapacityInv, NEW a \in Addresses
    PROVE  /\ IsFiniteSet(Looked(a))
           /\ Cardinality(Looked(a)) <= DirWays
           /\ Looked(a) \cap replaced = {}
           /\ replaced # {} => Cardinality(Looked(a)) = DirWays
           /\ slots \subseteq Looked(a)
<1>1. CASE a \notin slots /\ Cardinality(slots) < DirWays
  <2>1. Looked(a) = slots \cup {a} /\ replaced = {}
    BY <1>1, FS_CardinalityType, DirAssumption DEF Looked, CapacityInv
  <2>2. IsFiniteSet(slots \cup {a}) /\ Cardinality(slots \cup {a}) = Cardinality(slots) + 1
        /\ Cardinality(slots) \in Nat
    BY <1>1, FS_AddElement, FS_CardinalityType DEF CapacityInv
  <2> QED
    BY <1>1, <2>1, <2>2, DirAssumption
<1>2. CASE ~(a \notin slots /\ Cardinality(slots) < DirWays)
  BY <1>2 DEF Looked, CapacityInv, DirectoryCapacity
<1> QED
  BY <1>1, <1>2

(* A step that looks line a up and may rewrite its entry.                   *)
LEMMA LookedKept ==
    ASSUME TypeInv, CapacityInv, NEW a \in Addresses,
           slots' = Looked(a), replaced' = replaced,
           \/ entry' = entry
           \/ HasEntry(a) /\ \E e : entry' = [entry EXCEPT ![a] = e]
    PROVE  CapacityInv'
<1>1. \A b \in Addresses \ (slots' \cup replaced') : entry'[b] = entry[b] /\ b \notin slots
  BY LookedCapacity DEF HasEntry, TypeInv, CoreInv, DirOK
<1> QED
  BY <1>1, LookedCapacity DEF CapacityInv, DirectoryCapacity, TypeInv, CoreInv, DirOK

LEMMA HomesCapacity ==
    ASSUME TypeInv, CapacityInv, NEW a \in Addresses, reqs[a] # <<>>, NEW n \in Nodes,
           NEW h \in Homes(a, n), NEW e,
           slots' = h.slots, replaced' = h.replaced, entry' = [h.entry EXCEPT ![a] = e]
    PROVE  CapacityInv'
<1>1. CASE HasEntry(a)
  <2>1. h.slots = Looked(a) /\ h.replaced = replaced /\ h.entry = entry
    BY <1>1 DEF Homes
  <2> QED
    BY <1>1, <2>1, LookedKept, Zenon
<1>2. CASE ~HasEntry(a)
  <2>1. PICK v \in Victims : h = Replacement(a, v, n)
    BY <1>2 DEF Homes
  <2>2. v \in slots /\ a \notin slots /\ a \notin replaced /\ ~(Cardinality(slots) < DirWays)
    BY <1>2 DEF Victims, Candidates, HasEntry, Looked
  <2>3. Cardinality(slots) = DirWays /\ v \notin replaced /\ v \in Addresses
    BY <2>2, FS_CardinalityType, DirAssumption, SMTT(30)
       DEF CapacityInv, DirectoryCapacity, TypeInv, HomeOK
  <2>4. slots' = (slots \ {v}) \cup {a} /\ replaced' \in {replaced, replaced \cup {v}}
    BY <2>1 DEF Replacement
  <2>5. /\ IsFiniteSet(slots \ {v})
        /\ Cardinality(slots \ {v}) = Cardinality(slots) - 1
    BY <2>2, FS_RemoveElement DEF CapacityInv
  <2>6. IsFiniteSet(slots') /\ Cardinality(slots') = (Cardinality(slots) - 1) + 1
    <3>1. a \notin slots \ {v}
      BY <2>2
    <3>2. /\ IsFiniteSet((slots \ {v}) \cup {a})
          /\ Cardinality((slots \ {v}) \cup {a}) = Cardinality(slots \ {v}) + 1
      BY <2>5, <3>1, FS_AddElement
    <3> QED
      BY <2>4, <2>5, <3>2
  <2>7. Cardinality(slots') = DirWays
    BY <2>3, <2>6, DirAssumption
  <2>8. slots' \cap replaced' = {}
    BY <2>2, <2>4 DEF CapacityInv, DirectoryCapacity
  <2>9. \A b \in Addresses \ (slots' \cup replaced') : entry'[b] = FreshEntry
    <3>1. ASSUME NEW b \in Addresses \ (slots' \cup replaced'), b # v PROVE entry'[b] = FreshEntry
      <4>1. b # a /\ b \notin slots /\ b \notin replaced
        BY <2>4, <3>1
      <4>2. entry'[b] = entry[b]
        BY <2>1, <3>1, <4>1, Zenon DEF Replacement, TypeInv, CoreInv, DirOK
      <4> QED
        BY <4>1, <4>2 DEF CapacityInv, DirectoryCapacity
    <3>2. ASSUME v \in Addresses \ (slots' \cup replaced') PROVE entry'[v] = FreshEntry
      <4>1. entry[v].dstate = "UNCACHED"
        BY <2>1, <3>2, Zenon DEF Replacement
      <4> QED
        BY <2>1, <2>2, <2>3, <4>1, Zenon DEF Replacement, TypeInv, CoreInv, DirOK
    <3> QED
      BY <3>1, <3>2
  <2> QED
    BY <2>6, <2>7, <2>8, <2>9, DirAssumption DEF CapacityInv, DirectoryCapacity
<1> QED
  BY <1>1, <1>2

LEMMA ServeCapacity ==
    ASSUME TypeInv, CapacityInv, Serve
    PROVE  CapacityInv'
<1> DEFINE a == sim[DirNode].addr
           d == sim[DirNode].data
           r == Front(a)
<1>1. a \in Addresses /\ reqs[a] # <<>>
  BY ShmemAssumption, Zenon DEF Serve, TypeInv, CoreInv, DirResumes
<1>2. r.node \in Nodes
  BY <1>1, FrontRequest, Zenon DEF Front, TypeInv, CoreInv, DirOK, Requests
<1>3. CASE r.type = "NULLIFY_REQ" /\ processNullifyReq(a, r)
  <2>1. a \in replaced
    BY <1>3 DEF Serve, ServeAssertion
  <2>2. CASE entry[a].dstate = "UNCACHED"
    <3>1. /\ slots' = slots /\ replaced' = replaced \ {a}
          /\ entry' = [entry EXCEPT ![a] = FreshEntry]
      BY <1>3, <2>2 DEF processNullifyReq, Completed, Served
    <3> QED
      BY <1>1, <2>1, <3>1, SMTT(30) DEF CapacityInv, DirectoryCapacity, TypeInv, CoreInv, DirOK
  <2>3. CASE entry[a].dstate # "UNCACHED"
    <3>1. UNCHANGED <<slots, replaced>> /\ entry' = [entry EXCEPT ![a] = entry[a]]
      BY <1>3, <2>3 DEF processNullifyReq, Probing, Served
    <3>2. entry' = entry
      BY <3>1 DEF TypeInv, CoreInv, DirOK
    <3> QED
      BY <3>1, <3>2 DEF CapacityInv, DirectoryCapacity
  <2> QED
    BY <2>2, <2>3
<1>4. ASSUME NEW h \in Homes(a, r.node),
             \/ processExReqFromL2Cache(a, r, d, h)
             \/ processShReqFromL2Cache(a, r, d, h)
             \/ processUpgradeReqFromL2Cache(a, r, d, h),
             slots' = h.slots, replaced' = h.replaced
      PROVE  CapacityInv'
  <2> HIDE DEF a, d, r
  <2>1. \E e : entry' = [h.entry EXCEPT ![a] = e]
    BY <1>4, Zenon DEF processExReqFromL2Cache, processShReqFromL2Cache,
                processUpgradeReqFromL2Cache, retrieveDataAndSendToL2Cache, Completed, Probing,
                Served
  <2> QED
    BY <1>1, <1>2, <1>4, <2>1, HomesCapacity, Zenon
<1> QED
  BY <1>3, <1>4, Zenon DEF Serve

LEMMA DirectoryMessageCapacity ==
    ASSUME TypeInv, CapacityInv, handleMsgToDirectory
    PROVE  CapacityInv'
<1> DEFINE m == Head(net[DirNode])
           a == m.addr
<1>1. a \in Addresses /\ DirAssertion(m) = "none" /\ (m.type \notin ReqTypes => HasEntry(a))
  BY ReceivesType, ShmemAssumption
 , Zenon DEF handleMsgToDirectory, TypeInv, CoreInv, Messages, DirAssertion
<1> HIDE DEF m
<1>2. slots' = Looked(a) /\ replaced' = replaced
  BY ZenonT(40) DEF handleMsgToDirectory, handleReqFromL2Cache, processInvRepFromL2Cache,
         processFlushRepFromL2Cache, processWbRepFromL2Cache, processDRAMReply, m
<1>3. entry' = entry \/ (m.type \notin ReqTypes /\ \E e : entry' = [entry EXCEPT ![a] = e])
  <2>1. CASE m.type \in ReqTypes /\ handleReqFromL2Cache(m)
    BY <2>1 DEF handleReqFromL2Cache
  <2>2. CASE m.type = "INV_REP" /\ processInvRepFromL2Cache(m)
    BY <2>2, Zenon DEF processInvRepFromL2Cache, ReqTypes
  <2>3. CASE m.type = "FLUSH_REP" /\ processFlushRepFromL2Cache(m)
    BY <2>3, Zenon DEF processFlushRepFromL2Cache, ReqTypes
  <2>4. CASE m.type = "WB_REP" /\ processWbRepFromL2Cache(m)
    <3>1. entry' = [entry EXCEPT ![a] = [entry[a] EXCEPT !.owner = NoNode, !.dstate = "SHARED"]]
      BY <1>1, <2>4, Zenon DEF processWbRepFromL2Cache, TypeInv, CoreInv, DirOK
    <3> QED
      BY <2>4, <3>1, Zenon DEF ReqTypes
  <2>5. CASE m.type = "DRAM_READ_REP" /\ processDRAMReply(m)
    BY <2>5 DEF processDRAMReply
  <2> QED
    BY <2>1, <2>2, <2>3, <2>4, <2>5, Zenon DEF handleMsgToDirectory, m
<1> QED
  BY <1>1, <1>2, <1>3, LookedKept

LEMMA NextCapacity == TypeInv /\ CapacityInv /\ [Next]_vars => CapacityInv'
<1> SUFFICES ASSUME TypeInv, CapacityInv, [Next]_vars PROVE CapacityInv'
  OBVIOUS
<1>1. CASE UNCHANGED <<entry, slots, replaced>>
  BY <1>1 DEF CapacityInv, DirectoryCapacity
<1>2. ASSUME NEW n \in Nodes, SimThread(n) PROVE CapacityInv'
  BY <1>1, <1>2, ServeCapacity, DirectoryMessageCapacity
 , Zenon DEF SimThread, handleMsgFromTagDirectory, dirVars
<1>3. ASSUME NEW k \in Cores, UserThread(k) PROVE CapacityInv'
  BY <1>1, <1>3 DEF UserThread, dirVars
<1>4. CASE UNCHANGED vars
  BY <1>1, <1>4 DEF vars, dirVars
<1> QED
  BY <1>2, <1>3, <1>4 DEF Next

(* Allocation and replacement never give the directory more entries than    *)
(* ways, never leave a line both in the cache and on the replaced list, and *)
(* forget nothing about a line that keeps an entry.                         *)
THEOREM DirectoryCapacityBound == Spec => []DirectoryCapacity
<1>1. Init => CapacityInv
  BY FS_EmptySet, DirAssumption DEF Init, DirInit, CapacityInv, DirectoryCapacity
<1>2. CapacityInv => DirectoryCapacity
  BY DEF CapacityInv
<1> QED
  BY <1>1, <1>2, NextCapacity, AlwaysTypeInv, PTL DEF Spec
=============================================================================
