-------------------------- MODULE GfTransport_proof --------------------------
(***************************************************************************)
(* Proofs about GfTransport for any number of transports and devices: the  *)
(* iobuf pool is registered once and before any init returns, every event  *)
(* is acknowledged exactly once, and every queue pair is registered with   *)
(* its own device.                                                         *)
(***************************************************************************)
EXTENDS GfTransport, TLAPS

LEMMA InitType == Init => TypeOK
BY EventsAssumption DEF Init, TypeOK, InInit

(* A queue pair is destroyed and a new one is created within the types.    *)
LEMMA QpType ==
  ASSUME TypeOK, NEW t \in Transports, DestroyQp(t) \/ CreateQp(t)
  PROVE  /\ qp' \in [Transports -> Devices \cup {None}]
         /\ peer_qp' \in [Transports -> BOOLEAN]
         /\ peers' \in [Devices -> SUBSET Transports]
<1>1. CASE DestroyQp(t)
  BY <1>1 DEF TypeOK, DestroyQp
<1>2. CASE ~DestroyQp(t)
  <2>1. /\ qp' = [qp EXCEPT ![t] = verbs[t]]
        /\ peer_qp' = [peer_qp EXCEPT ![t] = TRUE]
        /\ peers' = [peers EXCEPT ![verbs[t]] = @ \cup {t}]
    BY <1>2 DEF CreateQp
  <2> QED  BY <2>1 DEF TypeOK
<1> QED  BY <1>1, <1>2

-----------------------------------------------------------------------------
(* The pool.                                                               *)

Critical == {"count", "registration", "deregistration", "register_pool", "unlock"}
Both     == {"registration", "deregistration"}

\* Either no init has come to the pool yet, or one has gone all the way.
Settled ==
  \/ dlcount = 0 /\ register_calls = 0 /\ hooks = {}
  \/ dlcount > 0 /\ register_calls = 1 /\ hooks = Both

(* Only the holder of the lock is in the critical section, and outside the *)
(* first init's own passage through it the pool is settled.                *)
PoolInv ==
  /\ \A t \in Transports : pc[t] \in Critical => lock = t
  /\ lock # None => pc[lock] \in Critical
  /\ lock = None => Settled
  /\ \A t \in Transports :
       /\ pc[t] \in {"count", "unlock"} => Settled
       /\ pc[t] = "registration" => dlcount > 0 /\ register_calls = 0 /\ hooks = {}
       /\ pc[t] = "deregistration" => dlcount > 0 /\ register_calls = 0 /\ hooks = {"registration"}
       /\ pc[t] = "register_pool" => dlcount > 0 /\ register_calls = 0 /\ hooks = Both
       /\ t \in dl_handle /\ pc[t] \in {"unlock", "done"} =>
            dlcount > 0 /\ register_calls = 1 /\ hooks = Both

PoolType ==
  /\ dl_handle \subseteq Transports
  /\ pc \in [Transports -> InInit \cup {"start", "done", "failed"}]
  /\ lock \in Transports \cup {None}
  /\ dlcount \in Nat
  /\ register_calls \in Nat

LEMMA PoolInit == Init => PoolType /\ PoolInv
BY DEF Init, PoolType, PoolInv, Settled, Critical, InInit

LEMMA PoolNext ==
  ASSUME PoolType, PoolInv, [Next]_vars
  PROVE  (PoolType /\ PoolInv)'
<1> USE TransportsAssumption DEF PoolType, PoolInv, Settled, Critical, Both, InInit, At
<1>1. CASE UNCHANGED initVars
  BY <1>1 DEF initVars
<1>2. ASSUME NEW t \in Transports, CallInit(t)
      PROVE  (PoolType /\ PoolInv)'
  BY <1>2 DEF CallInit
<1>3. ASSUME NEW t \in Transports, Calloc(t)
      PROVE  (PoolType /\ PoolInv)'
  BY <1>3 DEF Calloc
<1>4. ASSUME NEW t \in Transports, GfRdmaInit(t)
      PROVE  (PoolType /\ PoolInv)'
  BY <1>4 DEF GfRdmaInit
<1>5. ASSUME NEW t \in Transports, Lock(t)
      PROVE  (PoolType /\ PoolInv)'
  BY <1>5 DEF Lock
<1>6. ASSUME NEW t \in Transports, Count(t)
      PROVE  (PoolType /\ PoolInv)'
  BY <1>6 DEF Count
<1>7. ASSUME NEW t \in Transports, SetHook(t)
      PROVE  (PoolType /\ PoolInv)'
  BY <1>7 DEF SetHook
<1>8. ASSUME NEW t \in Transports, RegisterPool(t)
      PROVE  (PoolType /\ PoolInv)'
  BY <1>8 DEF RegisterPool
<1>9. ASSUME NEW t \in Transports, Unlock(t)
      PROVE  (PoolType /\ PoolInv)'
  BY <1>9 DEF Unlock
<1>10. \/ UNCHANGED initVars
       \/ \E t \in Transports : CallInit(t) \/ InitStep(t)
  BY DEF Next, vars, LoopStep, NewId, Report, GetEvent, GetFails, HandleEvent, HandlerEnds, HandleOther,
         AckEnding, TearDown, DestroyId, AckEvent
<1> QED  BY <1>1, <1>2, <1>3, <1>4, <1>5, <1>6, <1>7, <1>8, <1>9, <1>10 DEF InitStep

(* However the threads that run init interleave, the iobuf pool is ready   *)
(* when init has returned for a transport with a dl_handle, and it is      *)
(* registered once.                                                        *)
THEOREM PoolRegisteredOnce == Spec => []PoolReady
<1>1. PoolType /\ PoolInv => PoolReady
  <2> SUFFICES ASSUME PoolType, PoolInv PROVE PoolReady
    OBVIOUS
  <2>1. register_calls <= 1
    BY DEF PoolType, PoolInv, Settled, Critical, Both
  <2> QED  BY <2>1 DEF PoolType, PoolInv, PoolReady, Both
<1>2. PoolType /\ PoolInv /\ [Next]_vars => (PoolType /\ PoolInv)'
  BY PoolNext
<1> QED  BY PoolInit, <1>1, <1>2, PTL DEF Spec

-----------------------------------------------------------------------------
(* The event loop.                                                         *)

\* The loop holds an event while it handles one, and a transport while it tears one down.
LoopInv ==
  /\ TypeOK
  /\ AckedOnce
  /\ loop \in {"switch", "handled", "ack"} => event \in Events
  /\ loop = "teardown" => event = NoEvent /\ this \in Transports
  /\ loop = "destroy_id" => event \in Events \/ (event = NoEvent /\ this \in Transports)

LEMMA LoopInit == Init => LoopInv
BY InitType DEF Init, LoopInv, AckedOnce

(* rdma_destroy_id is for a transport, and it returns only when the        *)
(* handler that called it was given no event.                              *)
LEMMA VictimKnown ==
  ASSUME LoopInv, loop = "destroy_id"
  PROVE  /\ Victim \in Transports
         /\ unacked[Victim] = 0 => event = NoEvent /\ Victim = this
<1>1. CASE event \in Events
  <2>1. event # NoEvent /\ event.id \in Transports
    BY <1>1, TransportsAssumption DEF Events, NoEvent
  <2>2. Victim = event.id
    BY <2>1 DEF Victim
  <2>3. unacked[Victim] = 1
    BY <2>1, <2>2 DEF LoopInv, AckedOnce
  <2> QED  BY <2>1, <2>2, <2>3
<1>2. CASE event = NoEvent /\ this \in Transports
  BY <1>2 DEF Victim
<1> QED  BY <1>1, <1>2 DEF LoopInv

(* The event that the loop holds is acknowledged once.                     *)
LEMMA AckStep ==
  ASSUME LoopInv, loop \in {"switch", "ack"}, NEW next, Ack(next)
  PROVE  /\ loop' = next
         /\ unacked' = [t \in Transports |-> 0]
<1>1. event \in Events /\ event # NoEvent /\ event.id \in Transports
  BY TransportsAssumption DEF LoopInv, Events, NoEvent
<1>2. ASSUME NEW t \in Transports
      PROVE  (IF event.id = t THEN unacked[t] - 1 ELSE unacked[t]) = 0
  BY DEF LoopInv, AckedOnce
<1> QED  BY <1>1, <1>2 DEF Ack

LEMMA LoopNext ==
  ASSUME LoopInv, [Next]_vars
  PROVE  LoopInv'
<1>0. TypeOK /\ AckedOnce
  BY DEF LoopInv
<1>1. ASSUME NEW t \in Transports, CallInit(t) \/ InitStep(t)
      PROVE  LoopInv'
  <2>1. UNCHANGED <<event, this, chan, unacked, id, verbs, device, qp, peer_qp, peers>>
    BY <1>1 DEF CallInit, InitStep, Calloc, GfRdmaInit, Lock, Count, SetHook, RegisterPool, Unlock,
                loopVars, peerVars
  <2>2. loop' = loop \/ (loop = "none" /\ loop' = "get")
    BY <1>1 DEF CallInit, InitStep, Calloc, GfRdmaInit, Lock, Count, SetHook, RegisterPool, Unlock,
                loopVars, peerVars
  <2>3. /\ dl_handle' \subseteq Transports
        /\ pc' \in [Transports -> InInit \cup {"start", "done", "failed"}]
        /\ private' \in [Transports -> BOOLEAN]
        /\ lock' \in Transports \cup {None}
        /\ dlcount' \in Nat
        /\ hooks' \subseteq {"registration", "deregistration"}
        /\ register_calls' \in Nat
    <3>0. \A where \in InInit \cup {"start", "done", "failed"} :
            [pc EXCEPT ![t] = where] \in [Transports -> InInit \cup {"start", "done", "failed"}]
      BY <1>0 DEF TypeOK
    <3>1. CASE CallInit(t)
      <4>1. \E where \in {"calloc"} : pc' = [pc EXCEPT ![t] = where]
        BY <3>1 DEF CallInit, At
      <4>2. UNCHANGED <<dl_handle, private, lock, dlcount, hooks, register_calls>>
        BY <3>1 DEF CallInit, At
      <4>3. pc' \in [Transports -> InInit \cup {"start", "done", "failed"}]
        BY <3>0, <4>1 DEF InInit
      <4> QED  BY <1>0, <4>2, <4>3 DEF TypeOK
    <3>2. CASE Calloc(t)
      <4>1. \E where \in {"gf_rdma_init", "failed"} : pc' = [pc EXCEPT ![t] = where]
        BY <3>2 DEF Calloc, At
      <4>2. UNCHANGED <<dl_handle, lock, dlcount, hooks, register_calls>>
        BY <3>2 DEF Calloc, At
      <4>3. pc' \in [Transports -> InInit \cup {"start", "done", "failed"}]
        BY <3>0, <4>1 DEF InInit
      <4>4. private' = private \/ private' = [private EXCEPT ![t] = TRUE]
        BY <3>2 DEF Calloc, At
      <4>5. private' \in [Transports -> BOOLEAN]
        BY <1>0, <4>4 DEF TypeOK
      <4> QED  BY <1>0, <4>2, <4>3, <4>5 DEF TypeOK
    <3>3. CASE GfRdmaInit(t)
      <4>1. \E where \in {"lock", "failed"} : pc' = [pc EXCEPT ![t] = where]
        BY <3>3 DEF GfRdmaInit, At
      <4>2. UNCHANGED <<dl_handle, lock, dlcount, hooks, register_calls>>
        BY <3>3 DEF GfRdmaInit, At
      <4>3. pc' \in [Transports -> InInit \cup {"start", "done", "failed"}]
        BY <3>0, <4>1 DEF InInit
      <4>4. private' = private \/ private' = [private EXCEPT ![t] = FALSE]
        BY <3>3 DEF GfRdmaInit, At
      <4>5. private' \in [Transports -> BOOLEAN]
        BY <1>0, <4>4 DEF TypeOK
      <4> QED  BY <1>0, <4>2, <4>3, <4>5 DEF TypeOK
    <3>4. CASE Lock(t)
      <4>1. \E where \in {"count"} : pc' = [pc EXCEPT ![t] = where]
        BY <3>4 DEF Lock, At
      <4>2. UNCHANGED <<dl_handle, private, dlcount, hooks, register_calls>>
        BY <3>4 DEF Lock, At
      <4>3. pc' \in [Transports -> InInit \cup {"start", "done", "failed"}]
        BY <3>0, <4>1 DEF InInit
      <4>4. lock' = t
        BY <3>4 DEF Lock, At
      <4> QED  BY <1>0, <4>2, <4>3, <4>4 DEF TypeOK
    <3>5. CASE Count(t)
      <4>1. \E where \in {"registration", "unlock"} : pc' = [pc EXCEPT ![t] = where]
        BY <3>5 DEF Count, At
      <4>2. UNCHANGED <<dl_handle, private, lock, hooks, register_calls>>
        BY <3>5 DEF Count, At
      <4>3. pc' \in [Transports -> InInit \cup {"start", "done", "failed"}]
        BY <3>0, <4>1 DEF InInit
      <4>4. dlcount' = dlcount \/ dlcount' = dlcount + 1
        BY <3>5 DEF Count, At
      <4>5. dlcount' \in Nat
        BY <1>0, <4>4 DEF TypeOK
      <4> QED  BY <1>0, <4>2, <4>3, <4>5 DEF TypeOK
    <3>6. CASE SetHook(t)
      <4>1. \E where \in {"deregistration", "register_pool"} : pc' = [pc EXCEPT ![t] = where]
        BY <3>6 DEF SetHook, At
      <4>2. UNCHANGED <<dl_handle, private, lock, dlcount, register_calls>>
        BY <3>6 DEF SetHook, At
      <4>3. pc' \in [Transports -> InInit \cup {"start", "done", "failed"}]
        BY <3>0, <4>1 DEF InInit
      <4>4. hooks' = hooks \cup {"registration"} \/ hooks' = hooks \cup {"deregistration"}
        BY <3>6 DEF SetHook, At
      <4>5. hooks' \subseteq {"registration", "deregistration"}
        BY <1>0, <4>4 DEF TypeOK
      <4> QED  BY <1>0, <4>2, <4>3, <4>5 DEF TypeOK
    <3>7. CASE RegisterPool(t)
      <4>1. \E where \in {"unlock"} : pc' = [pc EXCEPT ![t] = where]
        BY <3>7 DEF RegisterPool, At
      <4>2. UNCHANGED <<dl_handle, private, lock, dlcount, hooks>>
        BY <3>7 DEF RegisterPool, At
      <4>3. pc' \in [Transports -> InInit \cup {"start", "done", "failed"}]
        BY <3>0, <4>1 DEF InInit
      <4>4. register_calls' = register_calls + 1
        BY <3>7 DEF RegisterPool, At
      <4>5. register_calls' \in Nat
        BY <1>0, <4>4 DEF TypeOK
      <4> QED  BY <1>0, <4>2, <4>3, <4>5 DEF TypeOK
    <3>8. CASE Unlock(t)
      <4>1. \E where \in {"done"} : pc' = [pc EXCEPT ![t] = where]
        BY <3>8 DEF Unlock, At
      <4>2. UNCHANGED <<dl_handle, private, dlcount, hooks, register_calls>>
        BY <3>8 DEF Unlock, At
      <4>3. pc' \in [Transports -> InInit \cup {"start", "done", "failed"}]
        BY <3>0, <4>1 DEF InInit
      <4>4. lock' = None
        BY <3>8 DEF Unlock, At
      <4> QED  BY <1>0, <4>2, <4>3, <4>4 DEF TypeOK
    <3> QED  BY <1>1, <3>1, <3>2, <3>3, <3>4, <3>5, <3>6, <3>7, <3>8 DEF InitStep
  <2>4. TypeOK'
    BY <1>0, <2>1, <2>2, <2>3 DEF TypeOK
  <2> QED  BY <2>1, <2>2, <2>4 DEF LoopInv, AckedOnce
<1>2. ASSUME NEW t \in Transports, NewId(t) \/ (\E k \in Kinds : Report(t, k))
      PROVE  LoopInv'
  <2>1. UNCHANGED <<initVars, loop, event, this, unacked, device, qp, peer_qp, peers>>
    BY <1>2 DEF NewId, Report, loopVars
  <2>2. /\ id' \in [Transports -> {"none", "new", "used"}]
        /\ verbs' \in [Transports -> Devices \cup {None}]
    <3>1. CASE NewId(t)
      BY <1>0, <3>1 DEF NewId, TypeOK
    <3>2. ASSUME NEW k \in Kinds, Report(t, k)
          PROVE  /\ id' \in [Transports -> {"none", "new", "used"}]
                 /\ verbs' \in [Transports -> Devices \cup {None}]
      <4>1. CASE UNCHANGED <<id, verbs>>
        BY <1>0, <4>1 DEF TypeOK
      <4>2. CASE id' = [id EXCEPT ![t] = "used"] /\ (\E d \in Devices : verbs' = [verbs EXCEPT ![t] = d])
        BY <1>0, <4>2 DEF TypeOK
      <4> QED  BY <3>2, <4>1, <4>2 DEF Report
    <3> QED  BY <1>2, <3>1, <3>2
  <2>3. chan' \in [Transports -> Seq(Kinds)]
    <3>1. CASE NewId(t)
      BY <1>0, <3>1 DEF NewId, loopVars, TypeOK
    <3>2. ASSUME NEW k \in Kinds, Report(t, k)
          PROVE  chan' \in [Transports -> Seq(Kinds)]
      <4>1. Append(chan[t], k) \in Seq(Kinds)
        BY <1>0 DEF TypeOK
      <4>2. chan' = [chan EXCEPT ![t] = Append(chan[t], k)]
        BY <3>2 DEF Report
      <4> QED  BY <1>0, <4>1, <4>2 DEF TypeOK
    <3> QED  BY <1>2, <3>1, <3>2
  <2>4. TypeOK'
    BY <1>0, <2>1, <2>2, <2>3 DEF TypeOK, initVars
  <2> QED  BY <2>1, <2>4 DEF LoopInv, AckedOnce
<1>3. ASSUME NEW t \in Transports, GetEvent(t)
      PROVE  LoopInv'
  <2>1. chan[t] \in Seq(Kinds) /\ chan[t] # <<>>
    BY <1>0, <1>3 DEF TypeOK, GetEvent
  <2>2. Head(chan[t]) \in Kinds /\ Tail(chan[t]) \in Seq(Kinds)
    BY <2>1
  <2>3. event' \in Events /\ event'.id = t
    BY <1>3, <2>2 DEF GetEvent, Events
  <2>4. chan' \in [Transports -> Seq(Kinds)]
    BY <1>0, <1>3, <2>2 DEF TypeOK, GetEvent
  <2>5. unacked' = [unacked EXCEPT ![t] = unacked[t] + 1] /\ (\A u \in Transports : unacked[u] = 0)
    BY <1>0, <1>3 DEF GetEvent, AckedOnce
  <2>6. loop' = "switch" /\ UNCHANGED <<initVars, this, peerVars>>
    BY <1>3 DEF GetEvent
  <2>7. TypeOK'
    BY <1>0, <2>3, <2>4, <2>5, <2>6 DEF TypeOK, initVars, peerVars
  <2>8. AckedOnce'
    BY <1>0, <2>3, <2>5, <2>6 DEF AckedOnce, TypeOK
  <2> QED  BY <2>3, <2>6, <2>7, <2>8 DEF LoopInv
<1>4. CASE GetFails
  BY <1>4, <1>0 DEF GetFails, LoopInv, TypeOK, AckedOnce, initVars, peerVars
<1>5. CASE HandleEvent
  <2>1. event \in Events /\ event.id \in Transports
    BY <1>5 DEF HandleEvent, LoopInv, Events
  <2>2. /\ qp' \in [Transports -> Devices \cup {None}]
        /\ peer_qp' \in [Transports -> BOOLEAN]
        /\ peers' \in [Devices -> SUBSET Transports]
    <3>1. CASE CreateQp(event.id)
      BY <1>0, <2>1, <3>1, QpType
    <3>2. CASE UNCHANGED <<device, qp, peer_qp, peers>>
      BY <1>0, <3>2 DEF TypeOK
    <3> QED  BY <1>5, <3>1, <3>2 DEF HandleEvent
  <2>3. device' \in [Transports -> Devices \cup {None}]
    BY <1>0, <1>5, <2>1 DEF HandleEvent, CreateQp, TypeOK
  <2>4. TypeOK'
    BY <1>0, <1>5, <2>2, <2>3 DEF TypeOK, HandleEvent, initVars
  <2> QED  BY <1>5, <2>1, <2>4 DEF LoopInv, AckedOnce, HandleEvent
<1>12. CASE HandlerEnds
  <2>1. event \in Events /\ event.id \in Transports /\ loop = "handled" /\ loop' \in {"ack", "destroy_id"}
    BY <1>12 DEF HandlerEnds, LoopInv, Events
  <2>2. /\ qp' \in [Transports -> Devices \cup {None}]
        /\ peer_qp' \in [Transports -> BOOLEAN]
        /\ peers' \in [Devices -> SUBSET Transports]
    <3>1. CASE DestroyQp(event.id)
      BY <1>0, <2>1, <3>1, QpType
    <3>2. CASE UNCHANGED <<qp, peer_qp, peers>>
      BY <1>0, <3>2 DEF TypeOK
    <3> QED  BY <1>12, <3>1, <3>2 DEF HandlerEnds
  <2>3. TypeOK'
    BY <1>0, <1>12, <2>1, <2>2 DEF TypeOK, HandlerEnds, initVars
  <2> QED  BY <1>12, <2>1, <2>3 DEF LoopInv, AckedOnce, HandlerEnds
<1>6. CASE HandleOther
  BY <1>6, <1>0 DEF HandleOther, LoopInv, TypeOK, AckedOnce, initVars, peerVars
<1>7. CASE AckEnding
  <2>1. /\ loop' = "teardown" /\ unacked' = [t \in Transports |-> 0]
        /\ this' = event.id /\ event' = NoEvent /\ UNCHANGED <<initVars, chan, peerVars>>
    BY <1>7, AckStep DEF AckEnding
  <2>2. event.id \in Transports
    BY <1>7 DEF AckEnding, LoopInv, Events
  <2>3. TypeOK'
    BY <1>0, <2>1, <2>2 DEF TypeOK, initVars, peerVars
  <2> QED  BY <2>1, <2>2, <2>3 DEF LoopInv, AckedOnce
<1>8. CASE TearDown
  <2>1. this \in Transports /\ event = NoEvent /\ loop' \in {"get", "destroy_id"}
    BY <1>8 DEF TearDown, LoopInv, Continue
  <2>2. /\ qp' \in [Transports -> Devices \cup {None}]
        /\ peer_qp' \in [Transports -> BOOLEAN]
        /\ peers' \in [Devices -> SUBSET Transports]
    <3>1. CASE DestroyQp(this)
      BY <1>0, <2>1, <3>1, QpType
    <3>2. CASE UNCHANGED <<qp, peer_qp, peers>>
      BY <1>0, <3>2 DEF TypeOK
    <3> QED  BY <1>8, <3>1, <3>2 DEF TearDown
  <2>3. TypeOK'
    BY <1>0, <1>8, <2>1, <2>2 DEF TypeOK, TearDown, initVars
  <2>4. event.id \notin Transports
    BY <2>1, TransportsAssumption DEF NoEvent
  <2> QED  BY <1>8, <2>1, <2>3, <2>4 DEF LoopInv, AckedOnce, TearDown
<1>9. CASE DestroyId
  <2>1. Victim \in Transports /\ event = NoEvent /\ loop' = "get"
    BY <1>9, VictimKnown DEF DestroyId, Continue
  <2>2. TypeOK'
    BY <1>0, <1>9, <2>1 DEF TypeOK, DestroyId, initVars
  <2>3. event.id \notin Transports
    BY <2>1, TransportsAssumption DEF NoEvent
  <2> QED  BY <1>9, <2>1, <2>2, <2>3 DEF LoopInv, AckedOnce, DestroyId
<1>10. CASE AckEvent
  <2>1. /\ loop' = "get" /\ unacked' = [t \in Transports |-> 0] /\ event' = NoEvent
        /\ UNCHANGED <<initVars, this, chan, peerVars>>
    BY <1>10, AckStep DEF AckEvent
  <2>2. TypeOK'
    BY <1>0, <2>1 DEF TypeOK, initVars, peerVars
  <2> QED  BY <2>1, <2>2 DEF LoopInv, AckedOnce
<1>11. CASE UNCHANGED vars
  BY <1>0, <1>11 DEF vars, initVars, loopVars, peerVars, LoopInv, TypeOK, AckedOnce
<1> QED  BY <1>1, <1>2, <1>3, <1>4, <1>5, <1>6, <1>7, <1>8, <1>9, <1>10, <1>11, <1>12 DEF Next, LoopStep

(* Every variable keeps its type; no counter of unacknowledged events      *)
(* falls below zero.                                                       *)
THEOREM TypeCorrect == Spec => []TypeOK
<1>1. LoopInv => TypeOK
  BY DEF LoopInv
<1>2. LoopInv /\ [Next]_vars => LoopInv'
  BY LoopNext
<1> QED  BY LoopInit, <1>1, <1>2, PTL DEF Spec

(* The loop acknowledges every event exactly once, and never NULL.         *)
THEOREM EventsAckedOnce == Spec => []AckedOnce
<1>1. LoopInv => AckedOnce
  BY DEF LoopInv
<1>2. LoopInv /\ [Next]_vars => LoopInv'
  BY LoopNext
<1> QED  BY LoopInit, <1>1, <1>2, PTL DEF Spec

-----------------------------------------------------------------------------
(* The queue pairs.                                                        *)

(* A queue pair is created only for an identifier that has its device, and *)
(* is gone when its identifier goes.                                       *)
PeerInv ==
  /\ PeerFound
  /\ \A t \in Transports :
       /\ id[t] = "used" => verbs[t] \in Devices
       /\ id[t] = "none" => chan[t] = <<>>
       /\ \A i \in 1..Len(chan[t]) : chan[t][i] \in Given => id[t] = "used"
  /\ loop = "switch" /\ event.kind \in Given => id[event.id] = "used"
  /\ loop = "destroy_id" => qp[Victim] = None

LEMMA PeerInit == Init => PeerInv
BY DevicesAssumption DEF Init, PeerInv, PeerFound

(* Destroying or creating a queue pair keeps the tables right.             *)
LEMMA QpStep ==
  ASSUME TypeOK, PeerFound, NEW t \in Transports, id[t] = "used" => verbs[t] \in Devices,
         id' = id, DestroyQp(t) \/ (CreateQp(t) /\ id[t] = "used" /\ qp[t] = None)
  PROVE  PeerFound'
<1>1. CASE DestroyQp(t)
  <2>1. \A u \in Transports : u # t => qp'[u] = qp[u] /\ peer_qp'[u] = peer_qp[u]
    BY <1>1 DEF DestroyQp, TypeOK
  <2>2. qp'[t] = None /\ peer_qp'[t] = FALSE
    BY <1>1 DEF DestroyQp, TypeOK
  <2>3. ASSUME NEW d \in Devices
        PROVE  /\ t \notin peers'[d]
               /\ \A u \in Transports : u # t => (u \in peers'[d] <=> u \in peers[d])
    <3>1. CASE peer_qp[t] /\ qp[t] = d
      <4>1. peers'[d] = peers[d] \ {t}
        BY <1>1, <3>1 DEF DestroyQp
      <4> QED  BY <4>1
    <3>2. CASE ~(peer_qp[t] /\ qp[t] = d)
      <4>1. peers'[d] = peers[d]
        BY <1>1, <3>2 DEF DestroyQp
      <4>2. t \in peers[d] => qp[t] = d
        BY DEF PeerFound
      <4>3. qp[t] = d => peer_qp[t]
        BY DevicesAssumption DEF PeerFound
      <4> QED  BY <3>2, <4>1, <4>2, <4>3
    <3> QED  BY <3>1, <3>2
  <2>4. ASSUME NEW u \in Transports
        PROVE  /\ \A d \in Devices : u \in peers'[d] <=> qp'[u] = d
               /\ peer_qp'[u] <=> qp'[u] # None
               /\ id'[u] = "none" => qp'[u] = None
    <3>1. CASE u = t
      BY <2>2, <2>3, <3>1, DevicesAssumption
    <3>2. CASE u # t
      BY <2>1, <2>3, <3>2, id' = id DEF PeerFound
    <3> QED  BY <3>1, <3>2
  <2> QED  BY <2>4 DEF PeerFound
<1>2. CASE ~DestroyQp(t)
  <2>1. /\ qp[t] = None /\ id[t] = "used"
        /\ qp' = [qp EXCEPT ![t] = verbs[t]]
        /\ peer_qp' = [peer_qp EXCEPT ![t] = TRUE]
        /\ peers' = [peers EXCEPT ![verbs[t]] = @ \cup {t}]
    BY <1>2 DEF CreateQp
  <2>2. verbs[t] \in Devices
    BY <2>1
  <2>3. \A d \in Devices, u \in Transports :
          u \in peers'[d] <=> (u \in peers[d] \/ (u = t /\ d = verbs[t]))
    BY <2>1, <2>2 DEF TypeOK
  <2>4. /\ qp'[t] = verbs[t] /\ peer_qp'[t] = TRUE
        /\ \A u \in Transports : u # t => qp'[u] = qp[u] /\ peer_qp'[u] = peer_qp[u]
    BY <2>1 DEF TypeOK
  <2>5. ASSUME NEW u \in Transports
        PROVE  /\ \A d \in Devices : u \in peers'[d] <=> qp'[u] = d
               /\ peer_qp'[u] <=> qp'[u] # None
               /\ id'[u] = "none" => qp'[u] = None
    <3>1. CASE u = t
      <4>1. \A d \in Devices : t \notin peers[d]
        BY <2>1, DevicesAssumption DEF PeerFound
      <4> QED  BY <2>1, <2>2, <2>3, <2>4, <3>1, <4>1, DevicesAssumption, id' = id
    <3>2. CASE u # t
      BY <2>3, <2>4, <3>2, id' = id DEF PeerFound
    <3> QED  BY <3>1, <3>2
  <2> QED  BY <2>5 DEF PeerFound
<1> QED  BY <1>1, <1>2

LEMMA PeerNext ==
  ASSUME LoopInv, PeerInv, [Next]_vars
  PROVE  PeerInv'
<1>0. TypeOK
  BY DEF LoopInv
<1>1. ASSUME NEW t \in Transports, CallInit(t) \/ InitStep(t)
      PROVE  PeerInv'
  <2>1. UNCHANGED <<event, this, chan, unacked, id, verbs, device, qp, peer_qp, peers>>
    BY <1>1 DEF CallInit, InitStep, Calloc, GfRdmaInit, Lock, Count, SetHook, RegisterPool, Unlock,
                loopVars, peerVars
  <2>2. loop' = loop \/ (loop = "none" /\ loop' = "get")
    BY <1>1 DEF CallInit, InitStep, Calloc, GfRdmaInit, Lock, Count, SetHook, RegisterPool, Unlock,
                loopVars, peerVars
  <2> QED  BY <2>1, <2>2 DEF PeerInv, PeerFound, Victim
<1>2. ASSUME NEW t \in Transports, NewId(t)
      PROVE  PeerInv'
  BY <1>0, <1>2 DEF NewId, PeerInv, PeerFound, Victim, TypeOK, initVars, loopVars
<1>3. ASSUME NEW t \in Transports, NEW k \in Kinds, Report(t, k)
      PROVE  PeerInv'
  <2>1. /\ UNCHANGED <<loop, event, this, qp, peer_qp, peers>>
        /\ chan' = [chan EXCEPT ![t] = Append(chan[t], k)]
        /\ id[t] # "none"
    BY <1>3 DEF Report
  <2>2. \A u \in Transports : /\ id'[u] = id[u] \/ (u = t /\ id'[u] = "used")
                              /\ id'[u] = "used" => verbs'[u] \in Devices
    BY <1>0, <1>3 DEF Report, TypeOK, PeerInv
  <2>3. k \in Given => id'[t] = "used"
    BY <1>0, <1>3 DEF Report, TypeOK, Given
  <2>4. \A u \in Transports : \A i \in 1..Len(chan'[u]) : chan'[u][i] \in Given => id'[u] = "used"
    <3>1. ASSUME NEW u \in Transports, u # t
          PROVE  \A i \in 1..Len(chan'[u]) : chan'[u][i] \in Given => id'[u] = "used"
      BY <1>0, <2>1, <2>2, <3>1 DEF PeerInv, TypeOK
    <3>2. chan[t] \in Seq(Kinds) /\ chan'[t] = Append(chan[t], k)
      BY <1>0, <2>1 DEF TypeOK
    <3>3. \A i \in 1..Len(chan'[t]) : (i \in 1..Len(chan[t]) /\ chan'[t][i] = chan[t][i]) \/ chan'[t][i] = k
      BY <3>2
    <3>4. \A i \in 1..Len(chan'[t]) : chan'[t][i] \in Given => id'[t] = "used"
      BY <2>2, <2>3, <3>3 DEF PeerInv
    <3> QED  BY <3>1, <3>4
  <2>5. PeerFound'
    BY <2>1, <2>2 DEF PeerInv, PeerFound
  <2>6. \A u \in Transports : id'[u] = "none" => chan'[u] = <<>>
    <3>1. id'[t] # "none"
      BY <2>1, <2>2
    <3>2. \A u \in Transports : u # t => id'[u] = id[u] /\ chan'[u] = chan[u]
      BY <1>0, <2>1, <2>2 DEF TypeOK
    <3> QED  BY <3>1, <3>2 DEF PeerInv
  <2>7. loop = "switch" /\ event.kind \in Given => id'[event.id] = "used"
    BY <2>2 DEF PeerInv, LoopInv, Events
  <2> QED  BY <2>1, <2>2, <2>4, <2>5, <2>6, <2>7 DEF PeerInv, Victim
<1>4. ASSUME NEW t \in Transports, GetEvent(t)
      PROVE  PeerInv'
  <2>1. /\ loop' = "switch" /\ event' = [kind |-> Head(chan[t]), id |-> t]
        /\ chan' = [chan EXCEPT ![t] = Tail(chan[t])] /\ chan[t] # <<>>
        /\ UNCHANGED <<id, verbs, device, qp, peer_qp, peers>>
    BY <1>4 DEF GetEvent, peerVars
  <2>2. chan[t] \in Seq(Kinds) /\ Len(chan[t]) >= 1 /\ chan'[t] = Tail(chan[t])
    BY <1>0, <2>1 DEF TypeOK
  <2>3. Head(chan[t]) \in Given => id[t] = "used"
    BY <2>2 DEF PeerInv
  <2>4. \A i \in 1..Len(chan'[t]) : i + 1 \in 1..Len(chan[t]) /\ chan'[t][i] = chan[t][i + 1]
    BY <2>2
  <2>5. \A u \in Transports : \A i \in 1..Len(chan'[u]) : chan'[u][i] \in Given => id'[u] = "used"
    <3>1. \A u \in Transports : u # t => chan'[u] = chan[u]
      BY <1>0, <2>1 DEF TypeOK
    <3>2. \A i \in 1..Len(chan'[t]) : chan'[t][i] \in Given => id[t] = "used"
      BY <2>4 DEF PeerInv
    <3> QED  BY <2>1, <3>1, <3>2 DEF PeerInv
  <2>6. \A u \in Transports : id'[u] = "none" => chan'[u] = <<>>
    <3>1. id[t] # "none"
      BY <2>1 DEF PeerInv
    <3> QED  BY <1>0, <2>1, <3>1 DEF PeerInv, TypeOK
  <2>7. event'.kind \in Given => id'[event'.id] = "used"
    BY <2>1, <2>3
  <2>8. PeerFound'
    BY <2>1 DEF PeerInv, PeerFound
  <2> QED  BY <2>1, <2>5, <2>6, <2>7, <2>8 DEF PeerInv
<1>5. CASE HandleEvent
  <2>1. event.id \in Transports /\ id[event.id] = "used" /\ verbs[event.id] \in Devices
    BY <1>5 DEF HandleEvent, LoopInv, Events, PeerInv
  <2>2. PeerFound'
    <3>1. CASE qp[event.id] = None /\ CreateQp(event.id)
      <4>1. id' = id
        BY <1>5 DEF HandleEvent
      <4> QED  BY <1>0, <2>1, <3>1, <4>1, QpStep DEF PeerInv
    <3>2. CASE UNCHANGED <<device, qp, peer_qp, peers>>
      BY <1>5, <3>2 DEF HandleEvent, PeerInv, PeerFound
    <3> QED  BY <1>5, <3>1, <3>2 DEF HandleEvent
  <2> QED  BY <1>5, <2>2 DEF HandleEvent, PeerInv
<1>10. CASE HandlerEnds
  <2>1. /\ event \in Events /\ event.id \in Transports /\ event # NoEvent
        /\ UNCHANGED <<event, this, chan, id, verbs, device>>
    BY <1>10, TransportsAssumption DEF HandlerEnds, LoopInv, Events, NoEvent
  <2>2. CASE loop' = "ack" /\ UNCHANGED <<qp, peer_qp, peers>>
    BY <2>1, <2>2 DEF PeerInv, PeerFound
  <2>3. CASE loop' = "destroy_id" /\ DestroyQp(event.id)
    <3>1. PeerFound'
      BY <1>0, <2>1, <2>3, QpStep DEF PeerInv
    <3>2. qp'[event.id] = None /\ Victim' = event.id
      BY <1>0, <2>1, <2>3 DEF DestroyQp, TypeOK, Victim
    <3> QED  BY <2>1, <2>3, <3>1, <3>2 DEF PeerInv
  <2> QED  BY <1>10, <2>2, <2>3 DEF HandlerEnds
<1>6. CASE HandleOther \/ GetFails \/ AckEnding \/ AckEvent
  <2>1. UNCHANGED <<id, verbs, device, qp, peer_qp, peers, chan>>
    BY <1>6 DEF HandleOther, GetFails, AckEnding, AckEvent, peerVars
  <2>2. loop' \in {"ack", "ended", "teardown", "get", "crashed"}
    BY <1>6 DEF HandleOther, GetFails, AckEnding, AckEvent, Ack
  <2> QED  BY <2>1, <2>2 DEF PeerInv, PeerFound
<1>7. CASE TearDown
  <2>1. this \in Transports /\ event = NoEvent /\ loop' \in {"get", "destroy_id"}
        /\ UNCHANGED <<event, this, chan, id, verbs, device>>
    BY <1>7 DEF TearDown, LoopInv, Continue
  <2>2. CASE loop' = "get" /\ UNCHANGED <<qp, peer_qp, peers>>
    BY <2>1, <2>2 DEF PeerInv, PeerFound
  <2>3. CASE loop' = "destroy_id" /\ DestroyQp(this)
    <3>1. PeerFound'
      BY <1>0, <2>1, <2>3, QpStep DEF PeerInv
    <3>2. qp'[this] = None /\ Victim' = this
      BY <1>0, <2>1, <2>3 DEF DestroyQp, TypeOK, Victim
    <3> QED  BY <2>1, <2>3, <3>1, <3>2 DEF PeerInv
  <2> QED  BY <1>7, <2>2, <2>3 DEF TearDown, Continue
<1>8. CASE DestroyId
  <2>1. /\ this \in Transports /\ loop' = "get" /\ qp[this] = None
        /\ id' = [id EXCEPT ![this] = "none"] /\ verbs' = [verbs EXCEPT ![this] = None]
        /\ chan' = [chan EXCEPT ![this] = <<>>] /\ UNCHANGED <<qp, peer_qp, peers>>
    BY <1>8, VictimKnown DEF DestroyId, Continue, PeerInv
  <2>2. \A u \in Transports : /\ u # this => id'[u] = id[u] /\ verbs'[u] = verbs[u] /\ chan'[u] = chan[u]
                              /\ u = this => id'[u] = "none" /\ chan'[u] = <<>>
    BY <1>0, <2>1 DEF TypeOK
  <2>3. PeerFound'
    BY <2>1, <2>2 DEF PeerInv, PeerFound
  <2> QED  BY <2>1, <2>2, <2>3 DEF PeerInv
<1>9. CASE UNCHANGED vars
  BY <1>9 DEF vars, loopVars, peerVars, PeerInv, PeerFound, Victim
<1> QED  BY <1>1, <1>2, <1>3, <1>4, <1>5, <1>6, <1>7, <1>8, <1>9, <1>10 DEF Next, LoopStep

(* Over any sequence of set-ups, failures, tear-downs and new attempts, a  *)
(* peer is registered with exactly the device that its queue pair uses.    *)
THEOREM PeersRegistered == Spec => []PeerFound
<1>1. LoopInv /\ PeerInv => PeerFound
  BY DEF PeerInv
<1>2. LoopInv /\ PeerInv /\ [Next]_vars => (LoopInv /\ PeerInv)'
  BY LoopNext, PeerNext
<1> QED  BY LoopInit, PeerInit, <1>1, <1>2, PTL DEF Spec

=============================================================================
