---------------------------- MODULE CmReads_proof ----------------------------
(***************************************************************************)
(* Proofs about CmReads, for any number of identifiers, queue pairs,       *)
(* posts, chunks and calls: the context is an environment as RdmaReads     *)
(* assumes it, and reads of a served connection find their queue pair.     *)
(***************************************************************************)
EXTENDS CmReads, CmContext_proof

USE NoIdAssumption, QpCountAssumption, ConfigAssumption, CqAssumption, MaxCtxAssumption

(* A context right after fs_rdma_create_ctx satisfies the invariant of the *)
(* context.                                                                *)
LEMMA SysInitCtx ==
  ASSUME SysInit
  PROVE  CtxInv
<1>1. res = [ptr   |-> [f \in Fields |-> IF f \in Arrays THEN "live" ELSE "junk"],
             n     |-> [a \in Arrays |-> 0],
             on_id |-> FALSE]
  BY DEF SysInit
<1>2. /\ res.ptr = [f \in Fields |-> IF f \in Arrays THEN "live" ELSE "junk"]
      /\ res.n = [a \in Arrays |-> 0] /\ res.on_id = FALSE
      /\ res = [ptr |-> res.ptr, n |-> res.n, on_id |-> res.on_id]
  BY <1>1
<1>3. res \in Resources
  <2>1. res.ptr \in [Fields -> PtrState]
    BY <1>2, SMT DEF PtrState
  <2>2. res.n \in [Arrays -> 0..QpCount]
    BY <1>2, SMT
  <2>3. res.on_id \in BOOLEAN
    BY <1>2, Zenon
  <2> QED
    BY <1>2, <2>1, <2>2, <2>3, SMT DEF Resources
<1>4. (\A a \in Arrays : res.ptr[a] = "live") /\ {"qp", "buf"} \subseteq Arrays
  BY <1>2, SMT DEF Fields, Arrays
<1>5. Owned(res, stage)
  <2>1. \A f \in Fields : res.ptr[f] # "dead"
    BY <1>2, SMT
  <2>2. res.ptr["qp"] = "live" /\ res.ptr["buf"] = "live"
    BY <1>4
  <2>3. stage \in Allocated
    BY SMT DEF SysInit, Allocated
  <2> QED
    BY <1>2, <2>1, <2>2, <2>3 DEF Owned
<1>6. Whole(res)
  BY <1>2, <1>4, Zenon DEF Whole
<1>7. PICK s \in {"idle", "addr_query"} : cm = [i \in CmIds |-> IF i = cm_id THEN s ELSE "unused"]
  BY DEF SysInit
<1>8. /\ cm_id \in CmIds /\ cm_id # NoId /\ chan = [i \in CmIds |-> i]
      /\ loop = [i \in CmIds |-> IF i = cm_id THEN "null" ELSE "none"]
      /\ unacked = {} /\ status = "up" /\ orphans = {} /\ up = NoId /\ connected \in BOOLEAN
      /\ app = "idle" /\ stage = "ready" /\ ctxs = 1 /\ cm_channel = cm_id
  BY DEF SysInit
<1>9. TypeOK
  <2>1. cm \in [CmIds -> CmStates] /\ loop \in [CmIds -> LoopStates] /\ chan \in [CmIds -> CmIds]
    BY <1>7, <1>8, SMT DEF CmStates, LoopStates, Waiting
  <2>2. app \in Places /\ stage \in Stages /\ ctxs \in 0..MaxCtx
    BY <1>8, SMT DEF Places, Stages
  <2> QED
    BY <1>3, <1>8, <2>1, <2>2, Zenon DEF TypeOK
<1>10. LoopInv
  BY <1>7, <1>8, SMT DEF LoopInv, AckedFirst, ErrorEvents
<1>11. Making
  <2>1. cm[cm_id] # "unused"
    BY <1>7, <1>8
  <2> QED
    BY <1>8, <2>1 DEF Making
<1>12. CurrentId /\ Unacked
  <2>1. cm[cm_id] \in {"idle", "addr_query"} /\ "idle" \notin Creating \cup {"resolve"}
    BY <1>7, <1>8, SMT DEF Creating
  <2> QED
    BY <1>8, <2>1 DEF CurrentId, Unacked
<1>13. ConnectedHasResources /\ EstablishedIsServed /\ DestroyedIdUnused /\ CleanupTouchesOwned
  <2>1. cm[cm_id] # "established"
    BY <1>7, <1>8
  <2> QED
    BY <1>8, <2>1, Zenon
      DEF ConnectedHasResources, EstablishedIsServed, DestroyedIdUnused, CleanupTouchesOwned
<1> QED
  BY <1>5, <1>6, <1>9, <1>10, <1>11, <1>12, <1>13 DEF CtxInv, Inv

(* A reader's step does not touch the context.                             *)
LEMMA ReadStepCtx ==
  ASSUME NEW p \in Posts, ReadStep(p), UNCHANGED ctxVars
  PROVE  UNCHANGED vars /\ UNCHANGED connected
<1>1. UNCHANGED connected
  BY DEF ReadStep, Reads!DoReads, Reads!CallStep, Reads!CheckConnected, Reads!RegisterChunk,
         Reads!PostSend, Reads!Unref, Reads!Complete, Reads!Release
<1> QED
  BY <1>1 DEF ctxVars, vars, appVars

(* Every step of the whole program keeps the invariant of the context.     *)
LEMMA SysNextCtx == CtxInv /\ [SysNext]_sysVars => CtxInv'
<1> SUFFICES ASSUME CtxInv, [SysNext]_sysVars PROVE CtxInv'
  OBVIOUS
<1>1. CASE ContextStep
  BY <1>1, NextCtx DEF ContextStep, Next, Application
<1>2. ASSUME NEW p \in Posts, ReadStep(p), UNCHANGED ctxVars PROVE CtxInv'
  BY <1>2, ReadStepCtx, NextCtx
<1>3. CASE UNCHANGED sysVars
  BY <1>3, NextCtx DEF sysVars, ctxVars, vars, appVars
<1> QED
  BY <1>1, <1>2, <1>3 DEF SysNext

(* A step of the context is one of RdmaReads' event loop or invisible.     *)
LEMMA ContextStepReads ==
  ASSUME TypeKnown, CtxInv, CtxInv', post_status = "up", ContextStep, UNCHANGED readVars
  PROVE  Reads!EventLoop \/ UNCHANGED <<connected, QpState, readVars>>
<1>1. LifeStep
  BY CallsLife, HandleLife, ConnectRequestLife, GetCmEventFailsLife DEF ContextStep
<1> QED
  BY <1>1 DEF LifeStep, Life!CreateQp, Life!Establish, Life!DestroyQp, readVars,
    Reads!EventLoop, Reads!Life!CreateQp, Reads!Life!Establish, Reads!Life!DestroyQp

(* With the event loop of the context in the place of RdmaReads' own, and  *)
(* for a known connection type, the calls of fs_rdma_do_reads still behave *)
(* as RdmaReads says.                                                      *)
THEOREM ReadsInContext ==
  ASSUME TypeKnown
  PROVE  SysSpec => ImplementsReads
<1>1. SysInit => Reads!Init
  BY DEF SysInit
<1>2. CtxInv /\ CtxInv' /\ [SysNext]_sysVars => [Reads!Next]_(Reads!vars)
  <2> SUFFICES ASSUME CtxInv, CtxInv', [SysNext]_sysVars PROVE Reads!Next \/ UNCHANGED Reads!vars
    OBVIOUS
  <2>1. CASE post_status = "up" /\ ContextStep /\ UNCHANGED readVars
    BY <2>1, ContextStepReads DEF Reads!Next, Reads!vars, readVars
  <2>2. ASSUME NEW p \in Posts, ReadStep(p) PROVE Reads!Next
    BY <2>2 DEF ReadStep, Reads!Next
  <2>3. CASE UNCHANGED sysVars
    BY <2>3 DEF sysVars, ctxVars, appVars, readVars, Reads!vars, QpState
  <2> QED
    BY <2>1, <2>2, <2>3 DEF SysNext
<1>3. SysInit => CtxInv
  BY SysInitCtx
<1> QED
  BY <1>1, <1>2, <1>3, SysNextCtx, PTL DEF SysSpec, ImplementsReads, Reads!Spec

(* In every execution with a known connection type a read of a served      *)
(* connection finds its queue pair.                                        *)
THEOREM ServedReadsSafe ==
  ASSUME TypeKnown
  PROVE  SysSpec => []ServedReadsFindQp
<1>1. SysInit => CtxInv /\ ServedReadsFindQp
  BY SysInitCtx DEF SysInit, ServedReadsFindQp, Reads!Init
<1>2. CtxInv /\ ServedReadsFindQp /\ [SysNext]_sysVars => ServedReadsFindQp'
  <2> SUFFICES ASSUME CtxInv, ServedReadsFindQp, [SysNext]_sysVars PROVE ServedReadsFindQp'
    OBVIOUS
  <2>1. CASE post_status = "up" /\ UNCHANGED readVars
    BY <2>1 DEF readVars, ServedReadsFindQp
  <2>2. ASSUME status = "up", UNCHANGED ctxVars, NEW p \in Posts, ReadStep(p)
        PROVE  ServedReadsFindQp'
    <3>1. up' = up
      BY <2>2 DEF ctxVars
    <3>2. CASE post_status' = post_status
      BY <3>1, <3>2 DEF ServedReadsFindQp
    <3>3. CASE Reads!PostSend(p) /\ QpState # "alive"
      <4>1. ASSUME up # NoId PROVE FALSE
        <5>1. res.on_id
          BY <4>1 DEF CtxInv, ConnectedHasResources
        <5> QED
          BY <3>3, <5>1 DEF QpState
      <4> QED
        BY <3>1, <4>1 DEF ServedReadsFindQp
    <3> QED
      BY <2>2, <3>2, <3>3
        DEF ReadStep, Reads!DoReads, Reads!CallStep, Reads!CheckConnected, Reads!RegisterChunk,
            Reads!PostSend, Reads!Unref, Reads!Complete, Reads!Release
  <2>3. CASE UNCHANGED sysVars
    BY <2>3 DEF sysVars, ctxVars, readVars, ServedReadsFindQp
  <2> QED
    BY <2>1, <2>2, <2>3 DEF SysNext
<1> QED
  BY <1>1, <1>2, SysNextCtx, PTL DEF SysSpec

-----------------------------------------------------------------------------
(* The posts.                                                              *)

(* What the references of a post rest on: how many a call answers for at   *)
(* each of its steps, and that the caller holds its own while it runs.     *)
PostInv ==
  /\ Reads!TypeOK
  /\ Reads!RefBalance
  /\ \A p \in Posts :
       /\ pc[p] \in {"idle", "ready"} => total_ref[p] = 0
       /\ pc[p] \in {"ready", "fill", "post"} => reads[p] > 0
       /\ pc[p] = "fill" => total_ref[p] < reads[p]
       /\ pc[p] = "post" => total_ref[p] = reads[p]
       /\ pc[p] # "idle" => held[p]

(* The state that the posts depend on, of the context only by its types.   *)
LEMMA ReadsTypes ==
  ASSUME CtxInv
  PROVE  QpState \in Reads!Life!QpStates /\ connected \in BOOLEAN
BY DEF CtxInv, Inv, TypeOK, QpState, Reads!Life!QpStates

(* A step of a reader keeps the references of the posts in balance.        *)
LEMMA ReadStepPost ==
  ASSUME PostInv, UNCHANGED <<QpState, connected>>, NEW q \in Posts, ReadStep(q)
  PROVE  PostInv'
<1> USE ReadsAssumption
    DEF PostInv, Reads!TypeOK, Reads!RefBalance, Reads!Owners, Reads!Places, Reads!At, Reads!Goto
<1>1. CASE Reads!DoReads(q)
  BY <1>1, SMT DEF Reads!DoReads
<1>2. CASE Reads!CheckConnected(q)
  BY <1>2, SMT DEF Reads!CheckConnected
<1>3. CASE Reads!RegisterChunk(q)
  BY <1>3, SMT DEF Reads!RegisterChunk
<1>4. CASE Reads!PostSend(q) /\ QpState # "alive"
  BY <1>4, SMT DEF Reads!PostSend
<1>5. CASE Reads!PostSend(q) /\ Reads!PostSendSucceeds(q)
  BY <1>5, SMT DEF Reads!PostSend, Reads!PostSendSucceeds
<1>6. CASE Reads!PostSend(q) /\ Reads!PostSendFails(q)
  BY <1>6, SMT DEF Reads!PostSend, Reads!PostSendFails
<1>7. CASE Reads!Unref(q)
  BY <1>7, SMT DEF Reads!Unref
<1>8. CASE Reads!Complete(q)
  BY <1>8, SMT DEF Reads!Complete
<1>9. CASE Reads!Release(q)
  BY <1>9, SMT DEF Reads!Release
<1>10. Reads!PostSend(q) => QpState # "alive" \/ Reads!PostSendSucceeds(q) \/ Reads!PostSendFails(q)
  BY DEF Reads!PostSend
<1> QED
  BY <1>1, <1>2, <1>3, <1>4, <1>5, <1>6, <1>7, <1>8, <1>9, <1>10 DEF ReadStep, Reads!CallStep

(* In the whole program, with the real event loop beside the calls, every  *)
(* reference of a post is accounted for at every moment, and no post is    *)
(* freed under a call of fs_rdma_do_reads or under a work request.         *)
THEOREM PostsSafeInContext == SysSpec => [](Reads!RefBalance /\ Reads!PostOutlivesReads)
<1>1. SysInit => CtxInv /\ PostInv
  <2> SUFFICES ASSUME SysInit PROVE CtxInv /\ PostInv
    OBVIOUS
  <2>1. CtxInv /\ Reads!Init
    BY SysInitCtx DEF SysInit
  <2>2. QpState \in Reads!Life!QpStates /\ connected \in BOOLEAN
    BY <2>1, ReadsTypes
  <2>3. PostInv
    BY <2>1, <2>2, ReadsAssumption, SMT
      DEF Reads!Init, PostInv, Reads!TypeOK, Reads!RefBalance, Reads!Owners, Reads!Places
  <2> QED
    BY <2>1, <2>3
<1>2. CtxInv /\ CtxInv' /\ PostInv /\ [SysNext]_sysVars => PostInv'
  <2> SUFFICES ASSUME CtxInv, CtxInv', PostInv, [SysNext]_sysVars PROVE PostInv'
    OBVIOUS
  <2>1. ASSUME UNCHANGED readVars PROVE PostInv'
    <3>1. QpState' \in Reads!Life!QpStates /\ connected' \in BOOLEAN
      BY DEF CtxInv, Inv, TypeOK, QpState, Reads!Life!QpStates
    <3> QED
      BY <2>1, <3>1 DEF readVars, PostInv, Reads!TypeOK, Reads!RefBalance, Reads!Owners
  <2>2. ASSUME UNCHANGED ctxVars, NEW p \in Posts, ReadStep(p) PROVE PostInv'
    <3>1. UNCHANGED <<QpState, connected>>
      BY <2>2, ReadStepCtx DEF ctxVars, appVars, QpState
    <3> QED
      BY <2>2, <3>1, ReadStepPost
  <2> QED
    BY <2>1, <2>2 DEF SysNext, sysVars
<1>3. PostInv => Reads!RefBalance /\ Reads!PostOutlivesReads
  BY SMT DEF PostInv, Reads!TypeOK, Reads!RefBalance, Reads!Owners, Reads!PostOutlivesReads
<1> QED
  BY <1>1, <1>2, <1>3, SysNextCtx, PTL DEF SysSpec

=============================================================================
