----------------------------- MODULE GfTransport -----------------------------
(***************************************************************************)
(* The C++ transport: init and the event loop gf_rdma_cm_event_handler     *)
(* (src/Transport.cc), which all transports share, and gf_rdma_create_qp   *)
(* (src/Qp.cc).  The files call many functions that are not in the         *)
(* repository (gf_rdma_init, the gf_rdma_cm_handle_* handlers,             *)
(* __gf_rdma_destroy_qp): they are external, modelled from the way they    *)
(* are used.  Several threads may run init; one thread runs the loop.      *)
(***************************************************************************)
EXTENDS Naturals, Sequences

CONSTANTS
  Transports,  \* the rpc_transport_t's, each with one peer
  Devices,     \* the gf_rdma_device_t's
  MaxEvents    \* bound: events of one identifier that wait in the channel

None == "none"

ASSUME TransportsAssumption == None \notin Transports
ASSUME DevicesAssumption    == None \notin Devices
ASSUME EventsAssumption     == MaxEvents \in Nat

(* The cases of the loop's switch: "setup" for the address and the         *)
(* request, an identifier's first events, "progress" for the route, the    *)
(* established connection and the removal of a device, "ending" for the    *)
(* five errors and the disconnect, "other" for the default.                *)
Given   == {"setup", "progress"}  \* their handlers are given the event
Kinds   == Given \cup {"ending", "other"}
Events  == [kind : Kinds, id : Transports]
NoEvent == [kind |-> None, id |-> None]

VARIABLES
  \* init
  dl_handle,   \* external: the transports with a dl_handle
  pc,          \* where init is, for each transport
  private,     \* whether this->private is set
  lock,        \* rdma_ctx->lock: the transport whose init holds it, or None
  dlcount,     \* rdma_ctx->dlcount
  hooks,       \* the hooks of the iobuf pool that are set
  register_calls, \* how often the pool was given to the device to register
  \* the event loop
  loop,        \* where the loop is
  event,       \* its local event, NoEvent for NULL and for a freed event
  this,        \* its local this
  chan,        \* external: events waiting in the channel, by identifier
  unacked,     \* external: events of an identifier got and not acknowledged
  \* peers and queue pairs
  id,          \* external: peer->cm_id of a transport: none, new, used
  verbs,       \* external: the device peer->cm_id->verbs belongs to
  device,      \* priv->device
  qp,          \* device whose queues the queue pair of peer->cm_id uses
  peer_qp,     \* whether peer->qp is set
  peers        \* external: a device's table of the peers registered with it

initVars == <<dl_handle, pc, private, lock, dlcount, hooks, register_calls>>
loopVars == <<loop, event, this, chan, unacked>>
peerVars == <<id, verbs, device, qp, peer_qp, peers>>
vars     == <<initVars, loopVars, peerVars>>

InInit == {"calloc", "gf_rdma_init", "lock", "count", "registration", "deregistration",
           "register_pool", "unlock"}

TypeOK ==
  /\ dl_handle \subseteq Transports
  /\ pc \in [Transports -> InInit \cup {"start", "done", "failed"}]
  /\ private \in [Transports -> BOOLEAN]
  /\ lock \in Transports \cup {None}
  /\ dlcount \in Nat
  /\ hooks \subseteq {"registration", "deregistration"}
  /\ register_calls \in Nat
  /\ loop \in {"none", "get", "switch", "handled", "ack", "teardown", "destroy_id", "ended", "crashed"}
  /\ event \in Events \cup {NoEvent}
  /\ this \in Transports \cup {None}
  /\ chan \in [Transports -> Seq(Kinds)]
  /\ unacked \in [Transports -> Nat]
  /\ id \in [Transports -> {"none", "new", "used"}]
  /\ verbs \in [Transports -> Devices \cup {None}]
  /\ device \in [Transports -> Devices \cup {None}]
  /\ qp \in [Transports -> Devices \cup {None}]
  /\ peer_qp \in [Transports -> BOOLEAN]
  /\ peers \in [Devices -> SUBSET Transports]

Init ==
  /\ dl_handle \in SUBSET Transports
  /\ pc = [t \in Transports |-> "start"]
  /\ private = [t \in Transports |-> FALSE]
  /\ lock = None
  /\ dlcount = 0
  /\ hooks = {}
  /\ register_calls = 0
  /\ loop = "none"
  /\ event = NoEvent
  /\ this = None
  /\ chan = [t \in Transports |-> <<>>]
  /\ unacked = [t \in Transports |-> 0]
  /\ id = [t \in Transports |-> "none"]
  /\ verbs = [t \in Transports |-> None]
  /\ device = [t \in Transports |-> None]
  /\ qp = [t \in Transports |-> None]
  /\ peer_qp = [t \in Transports |-> FALSE]
  /\ peers = [d \in Devices |-> {}]

-----------------------------------------------------------------------------
(* init, run by one thread for each transport.                             *)

At(t, here, next) ==
  /\ pc[t] = here
  /\ pc' = [pc EXCEPT ![t] = next]
  /\ UNCHANGED dl_handle

CallInit(t) ==
  /\ At(t, "start", "calloc")
  /\ UNCHANGED <<private, lock, dlcount, hooks, register_calls, loopVars, peerVars>>

\* GF_CALLOC of priv, which may fail.
Calloc(t) ==
  /\ \/ At(t, "calloc", "gf_rdma_init") /\ private' = [private EXCEPT ![t] = TRUE]
     \/ At(t, "calloc", "failed") /\ UNCHANGED private
  /\ UNCHANGED <<lock, dlcount, hooks, register_calls, loopVars, peerVars>>

(* gf_rdma_init is external: the first time it succeeds, the context and   *)
(* its thread, which runs the event loop, are there.                       *)
GfRdmaInit(t) ==
  /\ \/ /\ At(t, "gf_rdma_init", "lock")
        /\ loop' = IF loop = "none" THEN "get" ELSE loop
        /\ UNCHANGED private
     \/ /\ At(t, "gf_rdma_init", "failed")
        /\ private' = [private EXCEPT ![t] = FALSE]
        /\ UNCHANGED loop
  /\ UNCHANGED <<lock, dlcount, hooks, register_calls, event, this, chan, unacked, peerVars>>

\* Mutant: the context is not locked.
LockIgnored(t) ==
  /\ At(t, "lock", "count")
  /\ lock' = t
  /\ UNCHANGED <<private, dlcount, hooks, register_calls, loopVars, peerVars>>

Lock(t) ==
  /\ At(t, "lock", "count")
  /\ lock = None
  /\ lock' = t
  /\ UNCHANGED <<private, dlcount, hooks, register_calls, loopVars, peerVars>>

\* if (this->dl_handle && (++(rdma_ctx->dlcount)) == 1)
Count(t) ==
  /\ \/ /\ t \in dl_handle
        /\ dlcount' = dlcount + 1
        /\ At(t, "count", IF dlcount' = 1 THEN "registration" ELSE "unlock")
     \/ t \notin dl_handle /\ At(t, "count", "unlock") /\ UNCHANGED dlcount
  /\ UNCHANGED <<private, lock, hooks, register_calls, loopVars, peerVars>>

SetHook(t) ==
  /\ \/ At(t, "registration", "deregistration") /\ hooks' = hooks \cup {"registration"}
     \/ At(t, "deregistration", "register_pool") /\ hooks' = hooks \cup {"deregistration"}
  /\ UNCHANGED <<private, lock, dlcount, register_calls, loopVars, peerVars>>

(* gf_rdma_register_iobuf_pool_with_device; init ignores its result, so    *)
(* that a registration that fails leaves no other trace than this call.    *)
RegisterPool(t) ==
  /\ At(t, "register_pool", "unlock")
  /\ register_calls' = register_calls + 1
  /\ UNCHANGED <<private, lock, dlcount, hooks, loopVars, peerVars>>

\* Mutant: init returns without unlocking when it is not the first.
UnlockFirst(t) ==
  /\ At(t, "unlock", "done")
  /\ lock' = IF dlcount = 1 THEN None ELSE lock
  /\ UNCHANGED <<private, dlcount, hooks, register_calls, loopVars, peerVars>>

Unlock(t) ==
  /\ At(t, "unlock", "done")
  /\ lock' = None
  /\ UNCHANGED <<private, dlcount, hooks, register_calls, loopVars, peerVars>>

InitStep(t) ==
  Calloc(t) \/ GfRdmaInit(t) \/ Lock(t) \/ Count(t) \/ SetHook(t) \/ RegisterPool(t) \/ Unlock(t)

-----------------------------------------------------------------------------
(* The connection manager and the users of the transports, external.       *)

\* An identifier is created for an initialized transport, or once more for a new attempt.
NewId(t) ==
  /\ pc[t] = "done" /\ id[t] = "none"
  /\ id' = [id EXCEPT ![t] = "new"]
  /\ UNCHANGED <<initVars, loopVars, verbs, device, qp, peer_qp, peers>>

(* An event is reported.  An identifier gets its device with its first     *)
(* event, the address or the request; an error may come at any time.       *)
Report(t, k) ==
  /\ id[t] # "none"
  /\ Len(chan[t]) < MaxEvents
  /\ \/ /\ k = "setup" /\ id[t] = "new"
        /\ id' = [id EXCEPT ![t] = "used"]
        /\ \E d \in Devices : verbs' = [verbs EXCEPT ![t] = d]
     \/ k \in {"progress", "other"} /\ id[t] = "used" /\ UNCHANGED <<id, verbs>>
     \/ k = "ending" /\ UNCHANGED <<id, verbs>>
  /\ chan' = [chan EXCEPT ![t] = Append(@, k)]
  /\ UNCHANGED <<initVars, loop, event, this, unacked, device, qp, peer_qp, peers>>

-----------------------------------------------------------------------------
(* gf_rdma_create_qp.                                                      *)

\* External: __gf_rdma_destroy_qp, which is called also when there is none.
DestroyQp(t) ==
  /\ qp' = [qp EXCEPT ![t] = None]
  /\ peer_qp' = [peer_qp EXCEPT ![t] = FALSE]
  /\ peers' = [d \in Devices |-> IF peer_qp[t] /\ qp[t] = d THEN peers[d] \ {t} ELSE peers[d]]

\* Mutant: the queue pair is registered with the device of the first attempt.
CreateQpOldDevice(t) ==
  \/ DestroyQp(t) /\ UNCHANGED device
  \/ /\ device' = [device EXCEPT ![t] = IF @ = None THEN verbs[t] ELSE @]
     /\ \/ DestroyQp(t)
        \/ /\ qp' = [qp EXCEPT ![t] = verbs[t]]
           /\ peer_qp' = [peer_qp EXCEPT ![t] = TRUE]
           /\ peers' = [peers EXCEPT ![device'[t]] = @ \cup {t}]

(* No device or no device name; rdma_create_qp fails; rdma_create_qp       *)
(* succeeds and gf_rdma_register_peer fails, so that the queue pair goes   *)
(* again; or all succeed.                                                  *)
CreateQp(t) ==
  \/ DestroyQp(t) /\ UNCHANGED device
  \/ /\ device' = [device EXCEPT ![t] = IF @ = None THEN verbs[t] ELSE @]
     /\ \/ DestroyQp(t)
        \/ /\ qp' = [qp EXCEPT ![t] = verbs[t]]
           /\ peer_qp' = [peer_qp EXCEPT ![t] = TRUE]
           /\ peers' = [peers EXCEPT ![verbs[t]] = @ \cup {t}]

-----------------------------------------------------------------------------
(* gf_rdma_cm_event_handler.                                               *)

GetEvent(t) ==
  /\ loop = "get"
  /\ chan[t] # <<>>
  /\ event' = [kind |-> Head(chan[t]), id |-> t]
  /\ chan' = [chan EXCEPT ![t] = Tail(@)]
  /\ unacked' = [unacked EXCEPT ![t] = @ + 1]
  /\ loop' = "switch"
  /\ UNCHANGED <<initVars, this, peerVars>>

\* rdma_get_cm_event fails: the loop and its thread end.
GetFails ==
  /\ loop = "get"
  /\ loop' = "ended"
  /\ UNCHANGED <<initVars, event, this, chan, unacked, peerVars>>

(* External: the handlers that are given the event.  Like their            *)
(* counterparts in src/c/transport.c, any of them may create the queue     *)
(* pair of an identifier that has none.                                    *)
HandleEvent ==
  /\ loop = "switch" /\ event.kind \in Given
  /\ \/ qp[event.id] = None /\ CreateQp(event.id)
     \/ UNCHANGED <<device, qp, peer_qp, peers>>
  /\ loop' = "handled"
  /\ UNCHANGED <<initVars, event, this, chan, unacked, id, verbs>>

(* External: then such a handler returns, or, when something failed,       *)
(* destroys the queue pair and the identifier as well.                     *)
HandlerEnds ==
  /\ loop = "handled"
  /\ \/ loop' = "ack" /\ UNCHANGED <<qp, peer_qp, peers>>
     \/ loop' = "destroy_id" /\ DestroyQp(event.id)
  /\ UNCHANGED <<initVars, event, this, chan, unacked, id, verbs, device>>

\* Any other event is only logged.
HandleOther ==
  /\ loop = "switch" /\ event.kind = "other"
  /\ loop' = "ack"
  /\ UNCHANGED <<initVars, event, this, chan, unacked, peerVars>>

\* rdma_ack_cm_event of a live event, or of NULL.
Ack(next) ==
  /\ loop' = IF event = NoEvent THEN "crashed" ELSE next
  /\ unacked' = [t \in Transports |-> IF event.id = t THEN unacked[t] - 1 ELSE unacked[t]]

\* Mutant: the handler of the end of a connection runs before the event is acknowledged.
AckEndingLate ==
  /\ loop = "switch" /\ event.kind = "ending"
  /\ this' = event.id
  /\ loop' = "teardown"
  /\ UNCHANGED <<initVars, event, chan, unacked, peerVars>>

\* Mutant: the event is acknowledged at once and falls through to the loop's last line.
AckEndingTwice ==
  /\ loop = "switch" /\ event.kind = "ending"
  /\ this' = event.id
  /\ Ack("ack")
  /\ UNCHANGED <<initVars, event, chan, peerVars>>

(* An error or a disconnect is acknowledged before it is handled: its      *)
(* handler gets the transport, not the event.                              *)
AckEnding ==
  /\ loop = "switch" /\ event.kind = "ending"
  /\ this' = event.id
  /\ Ack("teardown")
  /\ event' = NoEvent
  /\ UNCHANGED <<initVars, chan, peerVars>>

\* Mutant: break for continue, so that the loop's last line runs for this event too.
ContinueBreak == "ack"

\* "continue" after the handler of an error or of a disconnect.
Continue == "get"

(* External: the handlers of an error and of a disconnect leave the        *)
(* connection alone, or destroy its queue pair and its identifier.         *)
TearDown ==
  /\ loop = "teardown"
  /\ \/ loop' = Continue /\ UNCHANGED <<qp, peer_qp, peers>>
     \/ loop' = "destroy_id" /\ DestroyQp(this)
  /\ UNCHANGED <<initVars, event, this, chan, unacked, id, verbs, device>>

\* The transport whose identifier is destroyed: that of the event, or this when there is none.
Victim == IF event = NoEvent THEN this ELSE event.id

(* External: rdma_destroy_id waits until every event got for the           *)
(* identifier is acknowledged, for ever if the handler that called it was  *)
(* given one of them, and drops the events that wait in the channel.       *)
DestroyId ==
  /\ loop = "destroy_id"
  /\ unacked[Victim] = 0
  /\ id' = [id EXCEPT ![Victim] = "none"]
  /\ verbs' = [verbs EXCEPT ![Victim] = None]
  /\ chan' = [chan EXCEPT ![Victim] = <<>>]
  /\ loop' = Continue
  /\ UNCHANGED <<initVars, event, this, unacked, device, qp, peer_qp, peers>>

\* The loop's last line; the pointer left behind is overwritten by the next event.
AckEvent ==
  /\ loop = "ack"
  /\ Ack("get")
  /\ event' = NoEvent
  /\ UNCHANGED <<initVars, this, chan, peerVars>>

LoopStep ==
  \/ \E t \in Transports : GetEvent(t)
  \/ HandleEvent \/ HandlerEnds \/ HandleOther \/ AckEnding \/ TearDown \/ DestroyId \/ AckEvent

Next ==
  \/ \E t \in Transports : CallInit(t) \/ InitStep(t) \/ NewId(t) \/ (\E k \in Kinds : Report(t, k))
  \/ LoopStep
  \/ GetFails

Spec == Init /\ [][Next]_vars

\* Threads go on; rdma_get_cm_event returns when an event is there.
FairSpec == Spec /\ WF_vars(LoopStep) /\ \A t \in Transports : WF_vars(InitStep(t))

-----------------------------------------------------------------------------
(* When init has returned 0 for a transport with a dl_handle, the iobuf    *)
(* pool has both hooks and was given to the device to register, whichever  *)
(* of the transports did it and however their threads interleaved; it is   *)
(* never given twice.                                                      *)
PoolReady ==
  /\ register_calls <= 1
  /\ \A t \in dl_handle : pc[t] = "done" =>
       register_calls = 1 /\ hooks = {"registration", "deregistration"}

(* Every event the loop gets is acknowledged exactly once: while its       *)
(* handler is given the event it is not yet, afterwards it is, NULL is     *)
(* never acknowledged, and no event is left behind when the next is got.   *)
AckedOnce ==
  /\ loop # "crashed"
  /\ \A t \in Transports :
       unacked[t] = IF loop \in {"switch", "handled", "destroy_id", "ack"} /\ event.id = t
                    THEN 1 ELSE 0

(* A completion on a device's queues finds its peer in that device's       *)
(* table: a transport is in the table of exactly the device its queue pair *)
(* uses, over failed set-ups, tear-downs and new attempts on other         *)
(* devices; peer->qp is the identifier's, and goes before it.              *)
PeerFound ==
  \A t \in Transports :
    /\ \A d \in Devices : t \in peers[d] <=> qp[t] = d
    /\ peer_qp[t] <=> qp[t] # None
    /\ id[t] = "none" => qp[t] = None

(* The loop, which serves every transport, comes back for the next event   *)
(* after every error and disconnect, also when their handlers destroy the  *)
(* identifier.  Where it stops for ever, it stops in a handler that was    *)
(* given an event not yet acknowledged and destroys its identifier.        *)
LoopReturns ==
  loop \in {"switch", "handled", "teardown", "destroy_id", "ack"} ~>
    loop = "get" \/ (loop = "destroy_id" /\ event.kind \in Given)

\* init returns for every transport, the lock notwithstanding.
InitReturns == \A t \in Transports : pc[t] \in InInit ~> pc[t] \in {"done", "failed"}

=============================================================================
