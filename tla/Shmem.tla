------------------------------- MODULE Shmem -------------------------------
(***************************************************************************)
(* The shared-memory messages of the memory subsystem and the network that  *)
(* carries them.  Every core has one receive queue.  SmNode::send appends   *)
(* to the queue of the receiving core, whichever component of that core the *)
(* message is for, and the core's simulation ("sim") thread takes the       *)
(* messages off one at a time, in order, and runs the handler to its end.   *)
(*                                                                         *)
(* What a line holds is left out: a message says whether it carries the     *)
(* line's data, which is all that any handler looks at.                     *)
(***************************************************************************)
EXTENDS Naturals, Sequences, FiniteSets

CONSTANTS
    Nodes,       \* the cores; each has a receive queue and a sim thread
    Addresses,   \* the cache lines, all in one directory set and one LLC set
    DirNode,     \* the core whose tag directory is home to the lines
    DramNode,    \* the core whose DRAM controller is home to the lines
    NoNode,      \* INVALID_CORE_ID
    NoAddress    \* INVALID_ADDRESS

ASSUME ShmemAssumption ==
    /\ DirNode \in Nodes
    /\ DramNode \in Nodes
    /\ NoNode \notin Nodes
    /\ NoAddress \notin Addresses
    /\ IsFiniteSet(Nodes)

VARIABLES
    net,      \* net[n]: the receive queue of core n
    sim       \* sim[n]: what the sim thread of core n is in the middle of

shmemVars == <<net, sim>>

(* ShmemMsg::msg_t, by receiver.                                           *)
ReqTypes  == {"EX_REQ", "SH_REQ", "UPGRADE_REQ"}
RepTypes  == {"EX_REP", "SH_REP", "UPGRADE_REP"}
AckTypes  == {"INV_REP", "FLUSH_REP", "WB_REP"}
ProbeTypes == {"INV_REQ", "FLUSH_REQ", "WB_REQ"}
ToDirTypes == ReqTypes \cup AckTypes \cup {"DRAM_READ_REP"}
ToLlcTypes == RepTypes \cup ProbeTypes
ToDramTypes == {"DRAM_READ_REQ", "DRAM_WRITE_REQ"}
MsgTypes == ToDirTypes \cup ToLlcTypes \cup ToDramTypes

(* "node" is the last-level cache the message is from, or about: the packet *)
(* sender of a reply to the directory, the requester of anything else.      *)
Messages == [type: MsgTypes, node: Nodes, addr: Addresses, data: BOOLEAN]

Msg(type, node, addr, data) ==
    [type |-> type, node |-> node, addr |-> addr, data |-> data]

(* Control states of a sim thread.  "serve": the directory is about to call *)
(* process<X>ReqFromL2Cache for the front request of addr, with data in     *)
(* hand if data is TRUE.      "wake" and "woken": the last-level cache is   *)
(* in the loop over the waiters of addr, before waking one and after.       *)
SimStates == [pc: {"idle", "serve", "wake", "woken"},
              addr: Addresses \cup {NoAddress}, data: BOOLEAN]

Idle == [pc |-> "idle", addr |-> NoAddress, data |-> FALSE]
Serving(a, d) == [pc |-> "serve", addr |-> a, data |-> d]
Waking(a) == [pc |-> "wake", addr |-> a, data |-> FALSE]
Woken(a) == [pc |-> "woken", addr |-> a, data |-> FALSE]

-----------------------------------------------------------------------------
(* Outgoing mail: a function from receivers to the messages sent to them.   *)
NoMail == [n \in Nodes |-> <<>>]
MailTo(S, m) == [n \in Nodes |-> IF n \in S THEN <<m>> ELSE <<>>]
Both(out1, out2) == [n \in Nodes |-> out1[n] \o out2[n]]

(* MemoryManager::sendMsg, from a thread that is not taking a message off.  *)
Post(out) == net' = [n \in Nodes |-> net[n] \o out[n]]

(* The sim thread of n takes its next message and sends out.                *)
PostFrom(n, out) ==
    net' = [k \in Nodes |->
              (IF k = n THEN Tail(net[k]) ELSE net[k]) \o out[k]]

(* The next message of core n, when its sim thread is free to take it.  A   *)
(* thread whose next step would fail an assert or LOG_ASSERT_ERROR takes no *)
(* further step: the operators <X>Assertion name the failing assertion.     *)
Receives(n, types) ==
    /\ sim[n].pc = "idle"
    /\ net[n] # <<>>
    /\ Head(net[n]).type \in types

ShmemInit ==
    /\ net = NoMail
    /\ sim = [n \in Nodes |-> Idle]

ShmemTypeOK ==
    /\ net \in [Nodes -> Seq(Messages)]
    /\ sim \in [Nodes -> SimStates]
=============================================================================
