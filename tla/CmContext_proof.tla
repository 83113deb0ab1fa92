--------------------------- MODULE CmContext_proof ---------------------------
(***************************************************************************)
(* More about CmTransport, for any number of identifiers, queue pairs and  *)
(* contexts and for every configuration: what a connected context owns,    *)
(* that an established connection is served, which identifiers librdmacm   *)
(* is given, and that the context keeps the promise of QueuePairLife.      *)
(***************************************************************************)
EXTENDS CmTransport_proof

USE NoIdAssumption, QpCountAssumption, ConfigAssumption, CqAssumption, MaxCtxAssumption

(* All that fs_rdma_create_resources makes and tests for is there.         *)
Full(r) ==
  /\ \A f \in {"context", "pd", "send_cq"} : r.ptr[f] = "live"
  /\ TypeKnown => r.on_id /\ \A a \in Arrays : r.ptr[a] = "live" /\ r.n[a] = QpCount

\* No queue pair outlives the qp array.
Whole(r) == r.on_id => r.ptr["qp"] = "live"

(* rdma_ctx->cm_id, when it is an identifier, is one in use; when its loop *)
(* can still hear the answer to its connect request, the resources are     *)
(* complete; only fs_rdma_destroy_ctx leaves a destroyed one; nothing      *)
(* happens to it while the application is still making the context.        *)
CurrentId ==
  cm_id \in CmIds =>
    /\ cm[cm_id] # "unused"
    /\ cm[cm_id] = "connect_sent" /\ loop[chan[cm_id]] \in Waiting => Full(res)
    /\ cm[cm_id] = "destroyed" => app \in {"destroy", "done"}
    /\ app \in Creating \cup {"resolve"} => cm[cm_id] = "idle"

(* An event that stays unacknowledged belongs to an identifier whose loop  *)
(* hangs, so that the identifier does not become established.              *)
Unacked ==
  \A i \in unacked :
    cm[i] \notin {"unused", "established"} /\ loop[chan[i]] \notin Waiting \cup {"none"}

CtxInv ==
  /\ Inv
  /\ Whole(res)
  /\ CurrentId
  /\ Unacked
  /\ ConnectedHasResources
  /\ EstablishedIsServed
  /\ DestroyedIdUnused

(* The channels of identifiers in use stay; only id may get another one.   *)
Rechan(id) ==
  \A i \in CmIds : i # id \/ cm[i] # "unused" => chan'[i] = chan[i]

-----------------------------------------------------------------------------
(* The resources.                                                          *)

(* A run of fs_rdma_create_resources that meets no fault stores only into  *)
(* arrays that are allocated.                                              *)
LEMMA CreateNoFault ==
  ASSUME NEW r, NEW p, NEW i, "none" \in CreateFaults(r, p, i)
  PROVE  /\ QpStored(p, i) => r.ptr["qp"] \notin {"null", "junk"}
         /\ Rank[p] > Rank["create_qp"] => \A a \in {"buf", "mr"} : r.ptr[a] \notin {"null", "junk"}
         /\ Rank[p] >= Rank["bad_type"] => CmIdFaults = {}
         /\ stage # "null"
<1>1. "none" \notin CreateMay(r, p) /\ "none" \notin CmIdFaults
  BY Zenon DEF CreateMay, CmIdFaults
<1>2. \A x : "none" \notin StoreFaults(x)
  BY Zenon DEF StoreFaults
<1>3. "none" \notin CreateMust(r, p, i)
  BY <1>1, <1>2, Zenon DEF CreateMust
<1>4. CreateMust(r, p, i) = {}
  BY <1>1, <1>3, Zenon DEF CreateFaults
<1>5. \A x : StoreFaults(x) = {} => x \notin {"null", "junk"}
  BY SMT DEF StoreFaults
<1>6. /\ QpStored(p, i) => StoreFaults(r.ptr["qp"]) = {}
      /\ Rank[p] > Rank["create_qp"] => StoreFaults(r.ptr["buf"]) = {} /\ StoreFaults(r.ptr["mr"]) = {}
      /\ Rank[p] >= Rank["bad_type"] => CmIdFaults = {}
      /\ stage # "null"
  BY <1>4 DEF CreateMust
<1> QED
  BY <1>5, <1>6

(* Such a run stores queue pairs only into a qp array that is there.       *)
LEMMA CreatedWhole ==
  ASSUME NEW r \in Resources, Owned(r, stage), Whole(r), NEW p \in Ends, NEW i \in 0..(QpCount - 1),
         NEW recv \in BOOLEAN, "none" \in CreateFaults(r, p, i)
  PROVE  Whole(Created(r, p, i, recv))
<1> DEFINE s == Created(r, p, i, recv)
<1>1. s.ptr["qp"] = r.ptr["qp"]
  <2>1. "qp" \in Fields /\ "qp" \notin Assigned(p)
    BY SMT DEF Fields, Arrays, Objects, Assigned
  <2> QED
    BY <2>1, SMT DEF Created
<1>2. s.on_id = (r.on_id \/ QpStored(p, i))
  BY DEF Created
<1>3. QpStored(p, i) => r.ptr["qp"] = "live"
  <2>1. r.ptr["qp"] \in PtrState /\ r.ptr["qp"] # "dead"
    BY SMT DEF Resources, Fields, Arrays, Owned
  <2> QED
    BY <2>1, CreateNoFault, SMT DEF PtrState
<1> QED
  BY <1>1, <1>2, <1>3, Zenon DEF Whole

(* A complete run leaves everything in place.                              *)
LEMMA CreatedFull ==
  ASSUME NEW r \in Resources, Owned(r, stage), NEW recv \in BOOLEAN, "none" \in CreateFaults(r, Done, 0)
  PROVE  Full(Created(r, Done, 0, recv))
<1> DEFINE s == Created(r, Done, 0, recv)
<1>1. Rank[Done] >= 10 /\ Rank["create_qp"] = 11 /\ (TypeKnown => Done = "none" /\ Rank[Done] = 13)
  BY SMT DEF Rank, Done
<1>2. \A f \in {"context", "pd", "send_cq"} : s.ptr[f] = "live"
  <2>1. \A f \in {"context", "pd", "send_cq"} :
          f \in Fields /\ f \in Objects \ Skipped /\ Step[f] # Done /\ f # "recv_cq"
    BY SMT DEF Fields, Objects, Skipped, Step, Done
  <2>2. Rank[Step["context"]] = 2 /\ Rank[Step["pd"]] = 4 /\ Rank[Step["send_cq"]] = 7
    BY SMT DEF Rank, Step
  <2>3. Rank[Done] \in Nat
    BY SMT DEF Rank, Done
  <2>4. {"context", "pd", "send_cq"} \subseteq Assigned(Done)
    BY <1>1, <2>1, <2>2, <2>3, SMT DEF Assigned
  <2> QED
    BY <2>1, <2>4, SMT DEF Created
<1>3. ASSUME TypeKnown PROVE s.on_id /\ \A a \in Arrays : s.ptr[a] = "live" /\ s.n[a] = QpCount
  <2>1. QpStored(Done, 0) /\ Rank[Done] > Rank["create_qp"] /\ Done = "none"
    BY <1>1, <1>3, SMT DEF QpStored
  <2>2. \A a \in Arrays : r.ptr[a] \notin {"null", "junk"}
    BY <2>1, CreateNoFault DEF Arrays
  <2>3. \A a \in Arrays : r.ptr[a] = "live"
    BY <2>2, SMT DEF Resources, PtrState, Fields, Owned
  <2>4. \A a \in Arrays : a \in Fields /\ a \notin Assigned(Done)
    BY SMT DEF Fields, Arrays, Objects, Assigned
  <2>5. \A a \in Arrays : s.ptr[a] = "live"
    BY <2>3, <2>4, SMT DEF Created
  <2>6. \A a \in Arrays : s.n[a] = QpCount
    <3>1. r.n \in [Arrays -> 0..QpCount]
      BY SMT DEF Resources
    <3> QED
      BY <2>1, <3>1, SMT DEF Created, AtLeast, Arrays
  <2>7. s.on_id
    BY <2>1 DEF Created
  <2> QED
    BY <2>5, <2>6, <2>7
<1> QED
  BY <1>2, <1>3 DEF Full

(* The release sequence drops the qp array and the queue pair together.    *)
LEMMA ReleasedWhole ==
  ASSUME NEW r \in Resources, Whole(r)
  PROVE  /\ Whole(Released(r)) /\ Whole(CreateExit(r))
         /\ Released(r).ptr["qp"] = "null" /\ ~Released(r).on_id
<1>1. Released(r).ptr["qp"] = "null"
  BY SMT DEF Released, Fields, Arrays
<1>2. ~Released(r).on_id
  BY Zenon DEF Released, Whole
<1>3. CreateExit(r).on_id = Released(r).on_id
  BY SMT DEF CreateExit, Released
<1> QED
  BY <1>1, <1>2, <1>3, Zenon DEF Whole

-----------------------------------------------------------------------------
(* The event loops.                                                        *)

(* The same loops exist and the same ones wait.                            *)
SameWaits ==
  \A x \in CmIds : /\ loop'[x] \in Waiting <=> loop[x] \in Waiting
                   /\ loop'[x] = "none" <=> loop[x] = "none"

(* A loop that goes on to the next event leaves this as it is.             *)
LEMMA ResumeWaits ==
  ASSUME CtxInv, NEW ch \in CmIds, loop[ch] \in Waiting, NEW held, loop' = Resume(ch, held)
  PROVE  SameWaits
<1>1. PICK l \in Waiting : loop' = [loop EXCEPT ![ch] = l]
  BY DEF Resume, Waiting
<1>2. l # "none" /\ loop[ch] # "none"
  BY SMT DEF Waiting
<1>3. \A x \in CmIds : loop'[x] = IF x = ch THEN l ELSE loop[x]
  BY <1>1, SMT DEF CtxInv, Inv, TypeOK
<1> QED
  BY <1>2, <1>3, Zenon DEF SameWaits

(* A step that ends the process keeps the invariant, if it uses a          *)
(* destroyed identifier only when rdma_ctx->cm_id is one.                  *)
LEMMA CrashCtx ==
  ASSUME CtxInv, Inv', NEW f, f # "up", f = "dead_id" => IdDead,
         Crash(f), UNCHANGED appVars, NEW id, Rechan(id)
  PROVE  CtxInv'
<1>1. /\ UNCHANGED <<cm_id, res, connected, cm, loop, unacked, orphans, up>> /\ status' = f
      /\ UNCHANGED <<app, ctxs>>
  BY DEF Crash, appVars
<1>2. \A i \in CmIds : cm[i] # "unused" => chan'[i] = chan[i]
  BY DEF Rechan
<1>3. CurrentId'
  BY <1>1, <1>2 DEF CtxInv, Inv, TypeOK, CurrentId
<1>4. Unacked'
  BY <1>1, <1>2 DEF CtxInv, Inv, TypeOK, Unacked
<1>5. IdDead => app \in {"destroy", "done"}
  BY DEF CtxInv, CurrentId, IdDead
<1>6. DestroyedIdUnused'
  BY <1>1, <1>5 DEF DestroyedIdUnused
<1> QED
  BY <1>1, <1>3, <1>4, <1>6 DEF CtxInv, ConnectedHasResources, EstablishedIsServed

(* The clean-up passes a destroyed identifier on only if cm_id is one.     *)
LEMMA ReleaseDead ==
  ASSUME CtxInv, NEW ch \in CmIds, loop[ch] \in Waiting, NEW r \in Resources, Owned(r, stage),
         NEW f \in ReleaseFaults(r)
  PROVE  f # "up" /\ (f = "dead_id" => IdDead)
<1>1. f \in Admissible \cup {"none"}
  BY ReleaseSafe DEF CtxInv
<1>2. "up" \notin Admissible
  BY SMT DEF Admissible, Faults
<1>3. f = "dead_id" => IdDead
  BY Zenon DEF ReleaseFaults
<1> QED
  BY <1>1, <1>2, <1>3

(* fs_rdma_teardown keeps the invariant.  The handled event moves          *)
(* identifier id to state st; held is the identifier whose event is still  *)
(* unacknowledged, if any.                                                 *)
LEMMA TearDownCtx ==
  ASSUME CtxInv, Inv', status = "up", UNCHANGED appVars, NEW ch \in CmIds, loop[ch] \in Waiting,
         NEW e \in AckedFirst \cup Roots, NEW held \in CmIds \cup {NoId},
         NEW id \in CmIds, id \notin unacked, cm[id] # "idle",
         NEW st \in CmStates \ {"unused", "established", "destroyed"},
         NEW c, c = [cm EXCEPT ![id] = st], Rechan(id),
         held # NoId => chan[held] = ch /\ cm[held] # "unused" /\ c[held] # "established",
         NEW r \in Resources, Owned(r, stage), Whole(r), NEW o, TearDown(ch, e, held, r, o, c)
  PROVE  CtxInv'
<1>1. PICK f \in TearDownFaults(r) :
        \/ f # "none" /\ Crash(f)
        \/ /\ f = "none" /\ res' = Released(r) /\ orphans' = o \cup Lost(r) /\ up' = NoId
           /\ DestroyId(ch, e, held, c) /\ UNCHANGED <<connected, status>>
  BY DEF TearDown
<1>2. CASE f # "none"
  <2>1. f \in ReleaseFaults(r) \/ f \in {"null_deref", "wild_use"} \/ (f = "dead_id" /\ IdDead)
    BY Zenon DEF TearDownFaults
  <2>2. f # "up" /\ (f = "dead_id" => IdDead)
    BY <2>1, ReleaseDead, SMT
  <2> QED
    BY <1>1, <1>2, <2>2, CrashCtx
<1>3. CASE f = "none"
  <2>1. res' = Released(r) /\ up' = NoId /\ DestroyId(ch, e, held, c) /\ status' = "up"
    BY <1>1, <1>3
  <2>2. Whole(res)'
    BY <2>1, ReleasedWhole, Zenon
  <2>3. \A i \in CmIds : c[i] = IF i = id THEN st ELSE cm[i]
    BY SMT DEF CtxInv, Inv, TypeOK
  <2>4. \A i \in CmIds : cm[i] # "unused" => chan'[i] = chan[i]
    BY DEF Rechan
  <2>5. ConnectedHasResources' /\ DestroyedIdUnused'
    BY <2>1, SMT DEF ConnectedHasResources, DestroyedIdUnused
  <2>6. unacked \subseteq CmIds /\ app' = app /\ NoId \notin CmIds
    BY DEF CtxInv, Inv, TypeOK, appVars
  <2>7. CASE cm_id \in (unacked \cup {held}) \ {NoId}
    <3>1. /\ loop' = [loop EXCEPT ![ch] = e] /\ cm' = c /\ cm_id' = cm_id
          /\ unacked' = unacked \cup ({held} \ {NoId})
      BY <2>1, <2>7 DEF DestroyId
    <3>2. e \notin Waiting \cup {"none"} /\ loop[ch] # "none"
      BY SMT DEF Waiting, Roots, HandledFirst, AckedFirst, ErrorEvents
    <3>3. \A x \in CmIds : loop'[x] = IF x = ch THEN e ELSE loop[x]
      BY <3>1, SMT DEF CtxInv, Inv, TypeOK
    <3>4. Unacked'
      <4>1. ASSUME NEW i \in unacked
            PROVE  /\ cm'[i] \notin {"unused", "established"}
                   /\ loop'[chan'[i]] \notin Waiting \cup {"none"}
        <5>1. i \in CmIds /\ i # id
          BY <2>6
        <5>2. cm'[i] = cm[i] /\ cm[i] \notin {"unused", "established"}
          BY <5>1, <2>3, <3>1 DEF CtxInv, Unacked
        <5>3. chan'[i] = chan[i] /\ chan[i] \in CmIds
          BY <5>1, <5>2, <2>4, SMT DEF CtxInv, Inv, TypeOK
        <5>4. loop[chan[i]] \notin Waiting \cup {"none"}
          BY DEF CtxInv, Unacked
        <5> QED
          BY <5>2, <5>3, <5>4, <3>2, <3>3
      <4>2. ASSUME held # NoId
            PROVE  /\ cm'[held] \notin {"unused", "established"}
                   /\ loop'[chan'[held]] \notin Waiting \cup {"none"}
        <5>1. held \in CmIds /\ chan'[held] = ch
          BY <4>2, <2>4
        <5>2. cm'[held] \notin {"unused", "established"}
          BY <4>2, <5>1, <2>3, <3>1
        <5> QED
          BY <5>1, <5>2, <3>2, <3>3
      <4> QED
        BY <3>1, <4>1, <4>2 DEF Unacked
    <3>5. cm_id \in unacked' /\ cm_id \in CmIds
      BY <2>6, <2>7, <3>1
    <3>6. CurrentId' /\ EstablishedIsServed'
      <4>1. cm'[cm_id] \notin {"unused", "established"} /\ loop'[chan'[cm_id]] \notin Waiting
        BY <3>4, <3>5 DEF Unacked
      <4>2. cm'[cm_id] = IF cm_id = id THEN st ELSE cm[cm_id]
        BY <2>3, <3>1, <3>5
      <4>3. cm'[cm_id] = "destroyed" => app \in {"destroy", "done"}
        BY <3>5, <4>2 DEF CtxInv, CurrentId
      <4>4. app \in Creating \cup {"resolve"} => cm'[cm_id] = "idle"
        BY <3>5, <4>2 DEF CtxInv, CurrentId
      <4> QED
        BY <2>6, <3>1, <4>1, <4>3, <4>4 DEF CurrentId, EstablishedIsServed
    <3> QED
      BY <2>2, <2>5, <3>4, <3>6 DEF CtxInv
  <2>8. CASE cm_id \notin (unacked \cup {held}) \ {NoId}
    <3>1. /\ loop' = Resume(ch, held) /\ cm_id' = NoId /\ unacked' = unacked
          /\ cm' = IF cm_id \in CmIds THEN [c EXCEPT ![cm_id] = "destroyed"] ELSE c
      BY <2>1, <2>8 DEF DestroyId
    <3>2. SameWaits
      BY <3>1, ResumeWaits
    <3>3. \A i \in CmIds : cm'[i] = IF i = cm_id THEN "destroyed" ELSE c[i]
      BY <2>6, <3>1, SMT DEF CtxInv, Inv, TypeOK
    <3>4. Unacked'
      <4>1. ASSUME NEW i \in unacked
            PROVE  /\ cm'[i] \notin {"unused", "established"}
                   /\ loop'[chan'[i]] \notin Waiting \cup {"none"}
        <5>1. i \in CmIds /\ i # id
          BY <2>6
        <5>2. cm[i] \notin {"unused", "established"} /\ loop[chan[i]] \notin Waiting \cup {"none"}
          BY DEF CtxInv, Unacked
        <5>3. cm'[i] \notin {"unused", "established"}
          BY <5>1, <5>2, <2>3, <3>3, SMT
        <5>4. chan'[i] = chan[i] /\ chan[i] \in CmIds
          BY <5>1, <5>2, <2>4, SMT DEF CtxInv, Inv, TypeOK
        <5> QED
          BY <5>2, <5>3, <5>4, <3>2 DEF SameWaits
      <4> QED
        BY <3>1, <4>1 DEF Unacked
    <3>5. CurrentId' /\ EstablishedIsServed'
      BY <2>6, <3>1 DEF CurrentId, EstablishedIsServed
    <3> QED
      BY <2>2, <2>5, <3>4, <3>5 DEF CtxInv
  <2> QED
    BY <2>7, <2>8
<1> QED
  BY <1>2, <1>3

(* What is wrong with rdma_ctx->cm_id when it is passed to librdmacm.      *)
LEMMA IdFaults ==
  ASSUME CtxInv, NEW f \in CmIdFaults
  PROVE  f \in {"null_deref", "wild_use", "dead_id"} /\ (f = "dead_id" => IdDead)
<1>1. cm_id \in CmIds \cup {NoId, JunkId}
  BY DEF CtxInv, Inv, TypeOK
<1> QED
  BY <1>1, SMT DEF CmIdFaults, IdDead

(* A fault of fs_rdma_create_resources keeps the invariant.                *)
LEMMA CreateCrashCtx ==
  ASSUME CtxInv, Inv', status = "up", UNCHANGED appVars, NEW ch \in CmIds, loop[ch] \in Waiting,
         NEW p, NEW i, NEW f \in CreateFaults(res, p, i), f # "none", Crash(f),
         NEW id \in CmIds, Rechan(id)
  PROVE  CtxInv'
<1>1. f # "up"
  BY CreateFaultsHarmless, SMT DEF Admissible, Faults
<1>2. \A x : "dead_id" \notin StoreFaults(x)
  BY Zenon DEF StoreFaults
<1>3. f = "dead_id" => f \in CmIdFaults
  BY <1>2, Zenon DEF CreateFaults, CreateMay, CreateMust
<1>4. "dead_id" \in CmIdFaults => IdDead
  BY IdFaults
<1> QED
  BY <1>1, <1>3, <1>4, CrashCtx

(* So does a failing fs_rdma_create_resources with the teardown after it.  *)
LEMMA CreateFailsCtx ==
  ASSUME CtxInv, Inv', status = "up", UNCHANGED appVars, NEW ch \in CmIds, loop[ch] \in Waiting,
         NEW e \in Roots, NEW held \in CmIds,
         NEW id \in CmIds, id \notin unacked, cm[id] # "idle",
         NEW st \in CmStates \ {"unused", "established", "destroyed"},
         NEW c, c = [cm EXCEPT ![id] = st], Rechan(id),
         chan[held] = ch, cm[held] # "unused", c[held] # "established",
         CreateFails(ch, e, held, c)
  PROVE  CtxInv'
<1>1. PICK p \in FailPoints, i \in 0..(QpCount - 1), recv \in BOOLEAN :
        \E f \in CreateFaults(res, p, i) :
          \/ f # "none" /\ Crash(f)
          \/ /\ f = "none"
             /\ \E g \in ReleaseFaults(Created(res, p, i, recv)) :
                  \/ g # "none" /\ Crash(g)
                  \/ TearDown(ch, e, held, CreateExit(Created(res, p, i, recv)),
                       orphans \cup Overwritten(res, p, i) \cup Lost(Created(res, p, i, recv)), c)
  BY DEF CreateFails
<1> DEFINE r == Created(res, p, i, recv)
<1>2. r \in Resources /\ Owned(r, stage) /\ CreateExit(r) \in Resources /\ Owned(CreateExit(r), stage)
  BY CreatedOwned, ReleasedOwned DEF CtxInv, Inv, TypeOK, Ends
<1>3. ASSUME NEW f \in CreateFaults(res, p, i), f # "none", Crash(f) PROVE CtxInv'
  BY <1>3, CreateCrashCtx
<1>4. ASSUME NEW g \in ReleaseFaults(r), g # "none", Crash(g) PROVE CtxInv'
  <2>1. g # "up" /\ (g = "dead_id" => IdDead)
    BY <1>2, <1>4, ReleaseDead
  <2> QED
    BY <1>4, <2>1, CrashCtx
<1>5. ASSUME "none" \in CreateFaults(res, p, i), NEW o, TearDown(ch, e, held, CreateExit(r), o, c)
      PROVE  CtxInv'
  <2>1. Whole(CreateExit(r))
    BY <1>2, <1>5, CreatedWhole, ReleasedWhole DEF CtxInv, Inv, TypeOK, Ends
  <2> QED
    BY <1>2, <1>5, <2>1, TearDownCtx
<1> QED
  BY <1>1, <1>3, <1>4, <1>5

(* The resources and the owned fields after a complete run.                *)
LEMMA CreateAll ==
  ASSUME CtxInv, NEW recv \in BOOLEAN, "none" \in CreateFaults(res, Done, 0)
  PROVE  /\ Created(res, Done, 0, recv) \in Resources
         /\ Owned(Created(res, Done, 0, recv), stage)
         /\ Whole(Created(res, Done, 0, recv))
         /\ Full(Created(res, Done, 0, recv))
         /\ cm_id \in CmIds /\ cm[cm_id] # "destroyed"
<1>1. Done \in Ends /\ 0 \in 0..(QpCount - 1)
  BY SMT DEF Ends
<1>2. Rank[Done] >= Rank["bad_type"]
  BY SMT DEF Rank, Done
<1>3. CmIdFaults = {}
  BY <1>2, CreateNoFault
<1>4. cm_id \in CmIds /\ cm[cm_id] # "destroyed"
  BY <1>3, UsableId DEF CtxInv
<1>5. res \in Resources /\ Owned(res, stage) /\ Whole(res)
  BY DEF CtxInv, Inv, TypeOK
<1> QED
  BY <1>1, <1>4, <1>5, CreatedOwned, CreatedWhole, CreatedFull

(* fs_rdma_cm_handle_connect_init keeps the invariant: id is the current   *)
(* identifier that gets its ESTABLISHED event, or another one; the         *)
(* resources of the caller are at least as complete as before.             *)
LEMMA ConnectInitCtx ==
  ASSUME CtxInv, Inv', status = "up", UNCHANGED appVars, NEW ch \in CmIds, loop[ch] \in Waiting,
         NEW id \in CmIds, id \notin unacked, NEW st \in CmStates \ {"unused", "connect_sent", "destroyed"},
         NEW c, c = [cm EXCEPT ![id] = st], Rechan(id), cm_id \in CmIds,
         cm[id] \in {"unused", "connect_sent"},
         id = cm_id => st = "established" /\ Full(res)',
         Whole(res)', Full(res) => Full(res)', ConnectInit(ch, id, c)
  PROVE  CtxInv'
<1>1. loop' = Resume(ch, id) /\ unacked' = unacked /\ status' = "up" /\ cm_id' = cm_id
  BY DEF ConnectInit
<1>2. app' = app
  BY DEF appVars
<1>4. SameWaits
  BY <1>1, ResumeWaits
<1>5. \A i \in CmIds : c[i] = IF i = id THEN st ELSE cm[i]
  BY SMT DEF CtxInv, Inv, TypeOK
<1>6. \A i \in CmIds : cm[i] # "unused" => chan'[i] = chan[i] /\ chan[i] \in CmIds
  BY SMT DEF Rechan, CtxInv, Inv, TypeOK
<1>7. cm[cm_id] # "unused"
  BY DEF CtxInv, CurrentId
<1>8. \A i \in CmIds :
        cm'[i] = c[i] \/ (i = cm_id /\ c[i] = "established" /\ cm'[i] = "disconnecting")
  BY SMT DEF ConnectInit, CtxInv, Inv, TypeOK
<1>9. Unacked'
  <2>1. ASSUME NEW i \in unacked
        PROVE  /\ cm'[i] \notin {"unused", "established"}
               /\ loop'[chan'[i]] \notin Waiting \cup {"none"}
    <3>1. i \in CmIds /\ i # id
      BY DEF CtxInv, Inv, TypeOK
    <3>2. cm[i] \notin {"unused", "established"} /\ loop[chan[i]] \notin Waiting \cup {"none"}
      BY DEF CtxInv, Unacked
    <3>3. cm'[i] = cm[i]
      BY <1>5, <1>8, <3>1, <3>2
    <3> QED
      BY <1>4, <1>6, <3>1, <3>2, <3>3 DEF SameWaits
  <2> QED
    BY <1>1, <2>1 DEF Unacked
<1>11. CurrentId'
  <2>1. cm'[cm_id] # "unused"
    BY <1>5, <1>7, <1>8, SMT
  <2>2. cm'[cm_id] \in {"connect_sent", "destroyed"} => cm'[cm_id] = cm[cm_id]
    BY <1>5, <1>8, SMT
  <2>3. loop'[chan'[cm_id]] \in Waiting <=> loop[chan[cm_id]] \in Waiting
    BY <1>4, <1>6, <1>7 DEF SameWaits
  <2>4. cm[cm_id] = "idle" => cm'[cm_id] = "idle"
    BY <1>5, <1>8, SMT
  <2>5. /\ cm[cm_id] = "connect_sent" /\ loop[chan[cm_id]] \in Waiting => Full(res)'
        /\ cm[cm_id] = "destroyed" => app \in {"destroy", "done"}
        /\ app \in Creating \cup {"resolve"} => cm[cm_id] = "idle"
    BY DEF CtxInv, CurrentId
  <2> QED
    BY <1>1, <1>2, <2>1, <2>2, <2>3, <2>4, <2>5 DEF CurrentId
<1>12. ConnectedHasResources' /\ EstablishedIsServed'
  <2>1. CASE connected \/ id # cm_id
    <3>1. /\ cm' = [c EXCEPT ![cm_id] = IF @ = "established" THEN "disconnecting" ELSE @]
          /\ UNCHANGED <<connected, up>>
      BY <2>1 DEF ConnectInit
    <3>2. cm'[cm_id] = IF c[cm_id] = "established" THEN "disconnecting" ELSE c[cm_id]
      BY <3>1, SMT DEF CtxInv, Inv, TypeOK
    <3>3. ASSUME up # NoId
          PROVE  /\ cm_id = up /\ cm'[up] \in {"established", "disconnecting", "destroyed"}
                 /\ connected /\ Full(res)'
      <4>1. /\ cm_id = up /\ cm[up] \in {"established", "disconnecting", "destroyed"}
            /\ connected /\ Full(res)
        BY <3>3 DEF CtxInv, ConnectedHasResources, Full
      <4>2. id # up
        BY <4>1, SMT
      <4> QED
        BY <1>5, <3>2, <4>1, <4>2, SMT
    <3> QED
      BY <1>1, <3>1, <3>2, <3>3 DEF ConnectedHasResources, EstablishedIsServed, Full
  <2>2. CASE ~connected /\ id = cm_id
    <3>1. connected' = TRUE /\ up' = id /\ cm' = c
      BY <2>2 DEF ConnectInit
    <3>2. cm'[id] = "established"
      BY <1>5, <2>2, <3>1
    <3> QED
      BY <1>1, <2>2, <3>1, <3>2 DEF ConnectedHasResources, EstablishedIsServed, Full
  <2> QED
    BY <2>1, <2>2
<1>13. DestroyedIdUnused'
  BY <1>1, SMT DEF DestroyedIdUnused
<1> QED
  BY <1>9, <1>11, <1>12, <1>13 DEF CtxInv

(* An event that moves identifier id without touching the context keeps    *)
(* the invariant, as does a call that does so.                             *)
LEMMA MoveCtx ==
  ASSUME CtxInv, Inv', status = "up", NEW id \in CmIds,
         NEW st \in CmStates \ {"unused", "established", "connect_sent", "destroyed"},
         cm[id] \notin {"established", "disconnecting", "destroyed"}, cm[id] # "unused",
         cm' = [cm EXCEPT ![id] = st], SameWaits,
         (app' = app /\ cm[id] # "idle") \/ (app' = "idle" /\ id = cm_id),
         UNCHANGED <<cm_id, res, connected, chan, unacked, status, up>>
  PROVE  CtxInv'
<1>1. \A i \in CmIds : cm'[i] = IF i = id THEN st ELSE cm[i]
  BY SMT DEF CtxInv, Inv, TypeOK
<1>2. unacked \subseteq CmIds /\ chan \in [CmIds -> CmIds]
  BY DEF CtxInv, Inv, TypeOK
<1>3. Unacked'
  BY <1>1, <1>2 DEF CtxInv, Unacked, SameWaits
<1>4. CurrentId'
  <2>1. "idle" \notin Creating \cup {"resolve"}
    BY SMT DEF Creating
  <2> SUFFICES ASSUME cm_id \in CmIds
               PROVE  /\ cm'[cm_id] # "unused"
                      /\ cm'[cm_id] = "connect_sent" /\ loop'[chan[cm_id]] \in Waiting => Full(res)
                      /\ cm'[cm_id] = "destroyed" => app' \in {"destroy", "done"}
                      /\ app' \in Creating \cup {"resolve"} => cm'[cm_id] = "idle"
    BY DEF CurrentId, Full
  <2>2. /\ cm[cm_id] # "unused"
        /\ cm[cm_id] = "connect_sent" /\ loop[chan[cm_id]] \in Waiting => Full(res)
        /\ cm[cm_id] = "destroyed" => app \in {"destroy", "done"}
        /\ app \in Creating \cup {"resolve"} => cm[cm_id] = "idle"
    BY DEF CtxInv, CurrentId
  <2>3. CASE id = cm_id
    BY <1>1, <2>1, <2>2, <2>3, Zenon
  <2>4. CASE id # cm_id
    <3>1. cm'[cm_id] = cm[cm_id] /\ app' = app
      BY <1>1, <2>4
    <3>2. loop'[chan[cm_id]] \in Waiting <=> loop[chan[cm_id]] \in Waiting
      BY <1>2 DEF SameWaits
    <3> QED
      BY <2>2, <3>1, <3>2
  <2> QED
    BY <2>3, <2>4
<1>5. ConnectedHasResources'
  BY <1>1, <1>2 DEF CtxInv, ConnectedHasResources
<1>6. EstablishedIsServed'
  BY <1>1, <1>2 DEF CtxInv, EstablishedIsServed
<1>7. DestroyedIdUnused' /\ Whole(res)'
  BY DEF CtxInv, DestroyedIdUnused, Whole
<1> QED
  BY <1>3, <1>4, <1>5, <1>6, <1>7 DEF CtxInv

(* rdma_connect succeeds for rdma_ctx->cm_id, in the handler of identifier *)
(* id: the invariant is kept since the resources are complete.             *)
LEMMA ConnectSentCtx ==
  ASSUME CtxInv, Inv', status = "up", UNCHANGED appVars, NEW ch \in CmIds, loop[ch] \in Waiting, NEW id \in CmIds,
         cm[id] = "route_query", NEW c, c = [cm EXCEPT ![id] = "route_ok"],
         cm_id \in CmIds, c[cm_id] = "route_ok", cm' = [c EXCEPT ![cm_id] = "connect_sent"],
         Whole(res)', Full(res)', loop' = Resume(ch, id),
         UNCHANGED <<cm_id, connected, chan, unacked, status, up>>
  PROVE  CtxInv'
<1>1. SameWaits /\ app' = app
  BY ResumeWaits DEF appVars
<1>2. \A i \in CmIds : c[i] = IF i = id THEN "route_ok" ELSE cm[i]
  BY SMT DEF CtxInv, Inv, TypeOK
<1>3. \A i \in CmIds : cm'[i] = IF i = cm_id THEN "connect_sent" ELSE c[i]
  BY SMT DEF CtxInv, Inv, TypeOK
<1>4. unacked \subseteq CmIds /\ chan \in [CmIds -> CmIds]
  BY DEF CtxInv, Inv, TypeOK
<1>5. Unacked'
  <2>1. ASSUME NEW i \in unacked
        PROVE  /\ cm'[i] \notin {"unused", "established"}
               /\ loop'[chan[i]] \notin Waiting \cup {"none"}
    <3>1. /\ i \in CmIds /\ chan[i] \in CmIds
          /\ cm[i] \notin {"unused", "established"} /\ loop[chan[i]] \notin Waiting \cup {"none"}
      BY <1>4 DEF CtxInv, Unacked
    <3>2. cm'[i] \notin {"unused", "established"}
      <4>1. cm'[i] = "connect_sent" \/ cm'[i] = "route_ok" \/ cm'[i] = cm[i]
        BY <1>2, <1>3, <3>1, Zenon
      <4> QED
        BY <3>1, <4>1
    <3> QED
      BY <1>1, <3>1, <3>2 DEF SameWaits
  <2> QED
    BY <2>1 DEF Unacked
<1>7. CurrentId'
  <2>1. cm'[cm_id] = "connect_sent" /\ cm[cm_id] # "idle"
    BY <1>2, <1>3
  <2>2. app \notin Creating \cup {"resolve"}
    BY <2>1 DEF CtxInv, CurrentId
  <2> QED
    BY <1>1, <2>1, <2>2 DEF CurrentId
<1>8. up = NoId
  BY <1>2, SMT DEF CtxInv, ConnectedHasResources
<1>9. ConnectedHasResources' /\ EstablishedIsServed' /\ DestroyedIdUnused'
  <2>1. cm'[cm_id'] # "established" /\ status' # "dead_id" /\ up' = NoId
    BY <1>3, <1>8
  <2> QED
    BY <2>1 DEF ConnectedHasResources, EstablishedIsServed, DestroyedIdUnused
<1> QED
  BY <1>5, <1>7, <1>9 DEF CtxInv

-----------------------------------------------------------------------------
(* The steps of the program.                                               *)

(* In which state an identifier is when librdmacm reports an event.        *)
LEMMA ReportsOf ==
  ASSUME NEW s
  PROVE  /\ <<"ADDR_RESOLVED", "addr_ok">> \in Reports(s) => s = "addr_query"
         /\ <<"ROUTE_RESOLVED", "route_ok">> \in Reports(s) => s = "route_query"
         /\ <<"ESTABLISHED", "established">> \in Reports(s) => s = "connect_sent"
         /\ <<"TIMEWAIT_EXIT", "closed">> \in Reports(s) => s = "timewait"
         /\ \A e, t : <<e, t>> \in Reports(s) => s \notin {"unused", "idle"}
BY SMT DEF Reports

(* The handled identifier is in use, its event was not left behind, and no *)
(* channel changes.                                                        *)
LEMMA HandledId ==
  ASSUME CtxInv, NEW id \in CmIds, NEW e, NEW s, GetCmEvent(id, e, s)
  PROVE  /\ status = "up" /\ chan[id] \in CmIds /\ loop[chan[id]] \in Waiting
         /\ id \notin unacked /\ cm[id] \notin {"unused", "idle"}
<1>1. status = "up" /\ loop[chan[id]] \in Waiting /\ <<e, s>> \in Reports(cm[id])
  BY DEF GetCmEvent
<1>2. cm[id] \notin {"unused", "idle"}
  BY <1>1, ReportsOf
<1>3. id \notin unacked
  BY <1>1 DEF CtxInv, Unacked
<1>4. chan[id] \in CmIds
  BY DEF CtxInv, Inv, TypeOK
<1> QED
  BY <1>1, <1>2, <1>3, <1>4

(* The initial states satisfy the invariant.                               *)
LEMMA InitCtx == Init => CtxInv
<1> SUFFICES ASSUME Init PROVE CtxInv
  OBVIOUS
<1>1. Whole(res)
  <2>1. res.on_id = FALSE
    BY DEF Init, NoResources
  <2> QED
    BY <2>1, Zenon DEF Whole
<1>2. CurrentId /\ Unacked
  BY DEF Init, CurrentId, Unacked
<1>3. ConnectedHasResources /\ EstablishedIsServed /\ DestroyedIdUnused
  BY Zenon DEF Init, ConnectedHasResources, EstablishedIsServed, DestroyedIdUnused
<1> QED
  BY <1>1, <1>2, <1>3, InitInv DEF CtxInv

(* While a context is being made no connection of it is served.            *)
LEMMA CreatingNotUp ==
  ASSUME CtxInv, app \in Creating \cup {"resolve"}
  PROVE  up = NoId
<1> SUFFICES ASSUME up # NoId PROVE FALSE
  OBVIOUS
<1>1. up \in CmIds /\ cm_id = up /\ cm[up] \in {"established", "disconnecting", "destroyed"}
  BY DEF CtxInv, Inv, TypeOK, ConnectedHasResources
<1>2. cm[up] = "idle"
  BY <1>1 DEF CtxInv, CurrentId
<1> QED
  BY <1>1, <1>2

(* A step of fs_rdma_create_ctx after its malloc keeps the invariant.      *)
LEMMA MakeCtx ==
  ASSUME CtxInv, Inv', status = "up", app \in Creating, app' \in Creating \cup {"resolve", "idle"},
         UNCHANGED <<chan, unacked, status, up>>, Whole(res)',
         \A i \in CmIds : cm'[i] = cm[i] \/ (cm[i] = "unused" /\ cm'[i] = "idle"),
         \A x \in CmIds : loop'[x] = loop[x] \/ loop[x] = "none",
         cm_id' = cm_id \/ (cm_id' \in CmIds /\ cm'[cm_id'] = "idle")
  PROVE  CtxInv'
<1>1. up' = NoId
  BY CreatingNotUp
<1>2. Unacked'
  <2>1. unacked \subseteq CmIds /\ chan \in [CmIds -> CmIds]
    BY DEF CtxInv, Inv, TypeOK
  <2>2. ASSUME NEW i \in unacked
        PROVE  /\ cm'[i] \notin {"unused", "established"}
               /\ loop'[chan[i]] \notin Waiting \cup {"none"}
    <3>1. /\ i \in CmIds /\ chan[i] \in CmIds
          /\ cm[i] \notin {"unused", "established"} /\ loop[chan[i]] \notin Waiting \cup {"none"}
      BY <2>1 DEF CtxInv, Unacked
    <3> QED
      BY <3>1
  <2> QED
    BY <2>2 DEF Unacked
<1>3. cm_id' \in CmIds => cm'[cm_id'] = "idle"
  <2>1. cm_id \in CmIds => cm[cm_id] = "idle"
    BY DEF CtxInv, CurrentId
  <2> QED
    BY <2>1
<1>4. CurrentId' /\ EstablishedIsServed'
  BY <1>3 DEF CurrentId, EstablishedIsServed
<1>5. ConnectedHasResources' /\ DestroyedIdUnused'
  BY <1>1 DEF ConnectedHasResources, DestroyedIdUnused
<1> QED
  BY <1>2, <1>4, <1>5 DEF CtxInv

(* rdma_ctx = malloc(...) keeps the invariant.                             *)
LEMMA NewCtxCtx ==
  ASSUME CtxInv, Inv', status = "up", NewCtx, UNCHANGED <<chan, unacked>>
  PROVE  CtxInv' /\ res'.on_id = FALSE
<1>1. res'.on_id = FALSE /\ cm_id' \in {NoId, JunkId}
  <2>1. NoResources.on_id = FALSE /\ JunkResources.on_id = FALSE
    BY DEF NoResources, JunkResources
  <2> QED
    BY <2>1 DEF NewCtx
<1>2. up' = NoId /\ status' = "up" /\ UNCHANGED <<cm, loop>>
  BY DEF NewCtx
<1>3. Whole(res)'
  BY <1>1, Zenon DEF Whole
<1>4. Unacked'
  BY <1>2 DEF CtxInv, Unacked
<1>5. CurrentId' /\ EstablishedIsServed' /\ ConnectedHasResources' /\ DestroyedIdUnused'
  BY <1>1, <1>2 DEF CurrentId, EstablishedIsServed, ConnectedHasResources, DestroyedIdUnused
<1> QED
  BY <1>1, <1>3, <1>4, <1>5 DEF CtxInv

(* So do rdma_create_event_channel and rdma_create_id.                     *)
LEMMA NewIdCtx ==
  ASSUME CtxInv, Inv', status = "up", app \in Creating, NewChannel \/ NewId, UNCHANGED <<chan, unacked>>
  PROVE  CtxInv'
<1>1. app' \in Creating \cup {"resolve", "idle"}
  BY SMT DEF NewChannel, NewId, Returned
<1>2. UNCHANGED <<res, loop, status, up>>
  BY DEF NewChannel, NewId
<1>3. Whole(res)'
  BY <1>2 DEF CtxInv
<1>4. CASE cm' = cm /\ cm_id' = cm_id
  BY <1>1, <1>2, <1>3, <1>4, MakeCtx
<1>5. ASSUME NEW id \in CmIds, cm[id] = "unused", cm' = [cm EXCEPT ![id] = "idle"], cm_id' = id
      PROVE  CtxInv'
  <2>1. \A i \in CmIds : cm'[i] = IF i = id THEN "idle" ELSE cm[i]
    BY <1>5, SMT DEF CtxInv, Inv, TypeOK
  <2> QED
    BY <1>1, <1>2, <1>3, <1>5, <2>1, MakeCtx
<1> QED
  BY <1>4, <1>5 DEF NewChannel, NewId

(* The resources after an array was allocated.                             *)
LEMMA AllocatedArray ==
  ASSUME CtxInv, NEW a \in Arrays, res' = [res EXCEPT !.ptr[a] = "live"]
  PROVE  /\ res'.ptr["qp"] = IF a = "qp" THEN "live" ELSE res.ptr["qp"]
         /\ res'.on_id = res.on_id /\ Whole(res)'
<1>1. res \in Resources /\ Whole(res) /\ "qp" \in Fields /\ a \in Fields
  BY SMT DEF CtxInv, Inv, TypeOK, Fields, Arrays
<1>2. res'.ptr["qp"] = IF a = "qp" THEN "live" ELSE res.ptr["qp"]
  BY <1>1, SMT DEF Resources
<1>3. res'.on_id = res.on_id
  BY <1>1, SMT DEF Resources
<1> QED
  BY <1>1, <1>2, <1>3, Zenon DEF Whole

(* So does allocating an array; no event is left unacknowledged on the     *)
(* channel whose loop starts then.                                         *)
LEMMA AllocateCtx ==
  ASSUME CtxInv, Inv', status = "up", app \in Creating, UNCHANGED <<chan, unacked>>,
         NEW a \in Arrays, NEW from \in {"id", "qp", "mr"}, NEW to, Allocate(a, from, to)
  PROVE  CtxInv'
<1>1. CASE Crash("exited") /\ UNCHANGED appVars
  <2>1. Rechan(NoId)
    BY DEF Rechan
  <2> QED
    BY <1>1, <2>1, CrashCtx
<1>2. CASE /\ res' = [res EXCEPT !.ptr[a] = "live"]
           /\ app' = IF to = "ready" THEN Returned(app) ELSE app
           /\ loop' = IF to = "ready" THEN [loop EXCEPT ![cm_channel] = "null"] ELSE loop
           /\ UNCHANGED <<cm_id, cm, status, up>>
  <2>1. app' \in Creating \cup {"resolve", "idle"}
    BY <1>2, SMT DEF Returned
  <2>2. Whole(res)'
    BY <1>2, AllocatedArray
  <2>3. cm_channel \in CmIds /\ loop[cm_channel] = "none"
    <3>1. stage \in Allocated \cup {"id"} /\ stage # "ready"
      BY SMT DEF Allocate, Allocated
    <3> QED
      BY <3>1 DEF CtxInv, Inv, Making
  <2>4. \A x \in CmIds : loop'[x] = loop[x] \/ loop[x] = "none"
    BY <1>2, <2>3, SMT DEF CtxInv, Inv, TypeOK
  <2> QED
    BY <1>2, <2>1, <2>2, <2>4, MakeCtx
<1> QED
  BY <1>1, <1>2 DEF Allocate

(* rdma_destroy_id in fs_rdma_destroy_ctx keeps the invariant.             *)
LEMMA DestroyIdCtx ==
  ASSUME CtxInv, Inv', status = "up", cm_id \in CmIds, cm_id \notin unacked,
         cm' = [cm EXCEPT ![cm_id] = "destroyed"], app' = "destroy",
         UNCHANGED <<chan, cm_id, res, connected, loop, unacked, status, up>>
  PROVE  CtxInv'
<1>1. \A i \in CmIds : cm'[i] = IF i = cm_id THEN "destroyed" ELSE cm[i]
  BY SMT DEF CtxInv, Inv, TypeOK
<1>2. Unacked'
  BY <1>1 DEF CtxInv, Inv, TypeOK, Unacked
<1>3. "destroy" \notin Creating \cup {"resolve"}
  BY SMT DEF Creating
<1>4. CurrentId' /\ EstablishedIsServed'
  BY <1>1, <1>3 DEF CurrentId, EstablishedIsServed
<1>5. ConnectedHasResources'
  BY <1>1 DEF CtxInv, ConnectedHasResources
<1>6. DestroyedIdUnused' /\ Whole(res)'
  BY DEF CtxInv, DestroyedIdUnused
<1> QED
  BY <1>2, <1>4, <1>5, <1>6 DEF CtxInv

(* Loops that stop, and the application going on after its call, keep the  *)
(* invariant.                                                              *)
LEMMA StopCtx ==
  ASSUME CtxInv, Inv', status = "up",
         \A x \in CmIds : loop'[x] = loop[x] \/ loop'[x] \notin Waiting \cup {"none"},
         app' = app \/ (app = "destroy" /\ app' = "done"),
         UNCHANGED <<cm_id, res, connected, cm, chan, unacked, status, up>>
  PROVE  CtxInv'
<1>1. unacked \subseteq CmIds /\ chan \in [CmIds -> CmIds]
  BY DEF CtxInv, Inv, TypeOK
<1>2. Unacked'
  BY <1>1 DEF CtxInv, Unacked
<1>3. "done" \notin Creating \cup {"resolve"}
  BY SMT DEF Creating
<1>4. ASSUME cm_id \in CmIds
      PROVE  /\ cm[cm_id] # "unused"
             /\ cm[cm_id] = "connect_sent" /\ loop'[chan[cm_id]] \in Waiting => Full(res)
             /\ cm[cm_id] = "destroyed" => app' \in {"destroy", "done"}
             /\ app' \in Creating \cup {"resolve"} => cm[cm_id] = "idle"
  <2>1. /\ cm[cm_id] # "unused"
        /\ cm[cm_id] = "connect_sent" /\ loop[chan[cm_id]] \in Waiting => Full(res)
        /\ cm[cm_id] = "destroyed" => app \in {"destroy", "done"}
        /\ app \in Creating \cup {"resolve"} => cm[cm_id] = "idle"
    BY <1>4 DEF CtxInv, CurrentId
  <2>2. chan[cm_id] \in CmIds
    BY <1>1, <1>4
  <2> QED
    BY <1>3, <2>1, <2>2
<1>5. CurrentId'
  BY <1>4 DEF CurrentId
<1>6. ConnectedHasResources' /\ EstablishedIsServed' /\ DestroyedIdUnused' /\ Whole(res)'
  BY DEF CtxInv, ConnectedHasResources, EstablishedIsServed, DestroyedIdUnused
<1> QED
  BY <1>2, <1>5, <1>6 DEF CtxInv

(* The application's calls keep the invariant.                             *)
LEMMA ApplicationCtx ==
  ASSUME CtxInv, Inv', Application
  PROVE  CtxInv'
<1>1. CASE FsRdmaCreateCtx
  <2>1. status = "up" /\ UNCHANGED <<chan, unacked>>
    BY <1>1 DEF FsRdmaCreateCtx
  <2>2. {"qp", "mr", "buf"} \subseteq Arrays
    BY DEF Arrays
  <2>3. ASSUME app \in Creating, NEW a \in Arrays, NEW from \in {"id", "qp", "mr"}, NEW to,
               Allocate(a, from, to)
        PROVE  CtxInv'
    BY <2>1, <2>3, AllocateCtx
  <2> QED
    BY <1>1, <2>1, <2>2, <2>3, NewCtxCtx, NewIdCtx DEF FsRdmaCreateCtx
<1>2. ASSUME NEW f \in CmIdFaults \cup {"wild_use"}, Crash(f), UNCHANGED appVars, UNCHANGED chan
      PROVE  CtxInv'
  <2>1. f # "up" /\ (f = "dead_id" => IdDead)
    BY <1>2, IdFaults
  <2>2. Rechan(NoId)
    BY <1>2 DEF Rechan
  <2> QED
    BY <1>2, <2>1, <2>2, CrashCtx
<1>3. CmIdFaults = {} => cm_id \in CmIds
  BY UsableId DEF CtxInv
<1>4. ASSUME cm_id \in CmIds, cm[cm_id] = "idle", status = "up",
             NEW st \in {"addr_query", "idle", "listening"}, cm' = [cm EXCEPT ![cm_id] = st], app' = "idle",
             UNCHANGED <<cm_id, res, connected, chan, loop, unacked, status, up>>
      PROVE  CtxInv'
  <2>1. SameWaits
    BY <1>4 DEF SameWaits
  <2>2. st \in CmStates \ {"unused", "established", "connect_sent", "destroyed"}
    BY SMT DEF CmStates
  <2> QED
    BY <1>4, <2>1, <2>2, MoveCtx
<1>5. CASE FsRdmaConnect
  <2>1. status = "up" /\ app = "resolve" /\ UNCHANGED <<stage, ctxs, cm_channel, chan>>
    BY <1>5 DEF FsRdmaConnect
  <2>2. cm_id \in CmIds => cm[cm_id] = "idle"
    BY <2>1 DEF CtxInv, CurrentId
  <2> QED
    BY <1>2, <1>3, <1>4, <1>5, <2>1, <2>2 DEF FsRdmaConnect, appVars
<1>6. CASE FsRdmaListen
  <2>1. status = "up" /\ app = "idle" /\ UNCHANGED <<appVars, chan>>
    BY <1>6 DEF FsRdmaListen
  <2>2. app' = "idle"
    BY <2>1 DEF appVars
  <2> QED
    BY <1>2, <1>3, <1>4, <1>6, <2>1, <2>2 DEF FsRdmaListen
<1>7. CASE FsRdmaDestroyCtx /\ DestroyCtxId
  <2>1. status = "up" /\ UNCHANGED <<stage, ctxs, cm_channel, chan>>
    BY <1>7 DEF FsRdmaDestroyCtx
  <2>2. ASSUME NEW f \in CmIdFaults, Crash(f), UNCHANGED app PROVE CtxInv'
    BY <1>2, <2>1, <2>2 DEF appVars
  <2> QED
    BY <1>3, <1>7, <2>1, <2>2, DestroyIdCtx DEF DestroyCtxId
<1>8. CASE FsRdmaDestroyCtx /\ DestroyCtxChannel
  <2>1. /\ status = "up" /\ app = "destroy" /\ app' = "done"
        /\ loop' = [loop EXCEPT ![cm_channel] = IF @ \in Waiting THEN "closed" ELSE @]
        /\ UNCHANGED <<cm_id, res, connected, cm, chan, unacked, status, up>>
    BY <1>8 DEF FsRdmaDestroyCtx, DestroyCtxChannel
  <2>2. "closed" \notin Waiting \cup {"none"}
    BY SMT DEF Waiting
  <2>3. \A x \in CmIds : loop'[x] = loop[x] \/ loop'[x] = "closed"
    BY <2>1, SMT DEF CtxInv, Inv, TypeOK
  <2> QED
    BY <2>1, <2>2, <2>3, StopCtx
<1> QED
  BY <1>1, <1>5, <1>6, <1>7, <1>8 DEF Application, FsRdmaDestroyCtx

(* The cases of the event loop's switch keep the invariant.                *)
LEMMA HandleCtx ==
  ASSUME CtxInv, Inv', NEW id \in CmIds, Handle(id)
  PROVE  CtxInv'
<1> DEFINE ch == chan[id]
           Moved(st) == [cm EXCEPT ![id] = st]
<1>1. /\ status = "up" /\ ch \in CmIds /\ loop[ch] \in Waiting /\ id \notin unacked
      /\ cm[id] # "unused" /\ cm[id] # "idle" /\ UNCHANGED chan /\ UNCHANGED appVars
  BY HandledId, Zenon DEF Handle, HandleAddrResolved, HandleRouteResolved, HandleEstablished, HandleEventError,
         HandleDisconnected, HandleUnknown
<1>2. Rechan(id)
  BY <1>1 DEF Rechan
<1>3. res \in Resources /\ Owned(res, stage) /\ Whole(res)
  BY DEF CtxInv, Inv, TypeOK
<1>4. \A st \in CmStates : Moved(st)[id] = st
  BY SMT DEF CtxInv, Inv, TypeOK
<1>5. {"ADDR_RESOLVED", "ROUTE_RESOLVED"} \subseteq Roots
  BY SMT DEF Roots, HandledFirst
<1>6. {"addr_ok", "route_ok", "closed", "timewait"}
        \subseteq CmStates \ {"unused", "established", "destroyed"}
  BY SMT DEF CmStates
<1>7. ASSUME NEW st \in CmStates \ {"unused", "established", "destroyed"}, NEW e \in AckedFirst \cup Roots,
             NEW held \in {id, NoId}, NEW r \in Resources, Owned(r, stage), Whole(r), NEW o,
             TearDown(ch, e, held, r, o, Moved(st))
      PROVE  CtxInv'
  <2>1. held # NoId => chan[held] = ch /\ cm[held] # "unused" /\ Moved(st)[held] # "established"
    BY <1>1, <1>4
  <2> QED
    BY <1>1, <1>2, <1>7, <2>1, TearDownCtx
<1>8. ASSUME NEW st \in {"route_query", "closed"}, cm[id] \in {"addr_query", "timewait"},
             cm' = Moved(st), loop' = Resume(ch, id),
             UNCHANGED <<cm_id, res, connected, unacked, status, up>>
      PROVE  CtxInv'
  <2>1. SameWaits /\ app' = app
    BY <1>1, <1>8, ResumeWaits DEF appVars
  <2>2. st \in CmStates \ {"unused", "established", "connect_sent", "destroyed"}
    BY SMT DEF CmStates
  <2>3. cm[id] \notin {"established", "disconnecting", "destroyed"}
    BY <1>8
  <2> QED
    BY <1>1, <1>8, <2>1, <2>2, <2>3, MoveCtx
<1>9. CASE HandleAddrResolved(id)
  <2>1. cm[id] = "addr_query"
    BY <1>9, ReportsOf DEF HandleAddrResolved, GetCmEvent
  <2>2. CASE /\ cm' = Moved("route_query") /\ loop' = Resume(ch, id)
             /\ UNCHANGED <<cm_id, res, connected, unacked, status, orphans, up>>
    BY <1>8, <2>1, <2>2
  <2>3. CASE TearDown(ch, "ADDR_RESOLVED", id, res, orphans, Moved("addr_ok"))
    BY <1>3, <1>5, <1>6, <1>7, <2>3
  <2> QED
    BY <1>9, <2>2, <2>3 DEF HandleAddrResolved
<1>10. CASE HandleRouteResolved(id)
  <2> DEFINE c == Moved("route_ok")
  <2>1. cm[id] = "route_query"
    BY <1>10, ReportsOf DEF HandleRouteResolved, GetCmEvent
  <2>2. CASE CreateFails(ch, "ROUTE_RESOLVED", id, c)
    <3>1. c[id] # "established"
      BY <1>4, <1>6
    <3> QED
      BY <1>1, <1>2, <1>5, <1>6, <2>2, <3>1, CreateFailsCtx
  <2>3. ASSUME NEW f \in CreateFaults(res, Done, 0), f # "none", Crash(f) PROVE CtxInv'
    BY <1>1, <1>2, <2>3, CreateCrashCtx
  <2>4. ASSUME NEW recv \in BOOLEAN, "none" \in CreateFaults(res, Done, 0), NEW o,
               TearDown(ch, "ROUTE_RESOLVED", id, Created(res, Done, 0, recv), o, c)
        PROVE  CtxInv'
    BY <1>5, <1>6, <1>7, <2>4, CreateAll
  <2>5. ASSUME NEW recv \in BOOLEAN, "none" \in CreateFaults(res, Done, 0),
               c[cm_id] = "route_ok", cm' = [c EXCEPT ![cm_id] = "connect_sent"],
               res' = Created(res, Done, 0, recv), loop' = Resume(ch, id),
               UNCHANGED <<cm_id, connected, unacked, status, up>>
        PROVE  CtxInv'
    <3>1. cm_id \in CmIds /\ Whole(res)' /\ Full(res)'
      BY <2>5, CreateAll, Zenon
    <3> QED
      BY <1>1, <2>1, <2>5, <3>1, ConnectSentCtx
  <2> QED
    BY <1>10, <2>2, <2>3, <2>4, <2>5 DEF HandleRouteResolved
<1>11. CASE HandleEstablished(id)
  <2>1. cm[id] = "connect_sent"
    BY <1>11, ReportsOf DEF HandleEstablished, GetCmEvent
  <2>2. ASSUME NEW f \in CmIdFaults, Crash(f) PROVE CtxInv'
    <3>1. f # "up" /\ (f = "dead_id" => IdDead)
      BY <2>2, IdFaults
    <3> QED
      BY <1>1, <1>2, <2>2, <3>1, CrashCtx
  <2>3. CASE /\ CmIdFaults = {}
             /\ ConnectInit(ch, id, Moved("established"))
             /\ UNCHANGED <<res, orphans>>
    <3>1. cm_id \in CmIds
      BY <2>3, UsableId DEF CtxInv
    <3>2. Whole(res)' /\ (Full(res) => Full(res)')
      BY <1>3, <2>3, Zenon DEF Whole, Full
    <3>3. id = cm_id => Full(res)'
      BY <1>1, <2>1, <3>1, <3>2 DEF CtxInv, CurrentId
    <3>4. "established" \in CmStates \ {"unused", "connect_sent", "destroyed"}
      BY SMT DEF CmStates
    <3> QED
      BY <1>1, <1>2, <2>1, <2>3, <3>1, <3>2, <3>3, <3>4, ConnectInitCtx
  <2> QED
    BY <1>11, <2>2, <2>3 DEF HandleEstablished
<1>12. CASE HandleEventError(id)
  <2>1. PICK e \in ErrorEvents : TearDown(ch, e, NoId, res, orphans, Moved("closed"))
    BY <1>12 DEF HandleEventError
  <2>2. e \in AckedFirst
    BY DEF AckedFirst
  <2> QED
    BY <1>3, <1>6, <1>7, <2>1, <2>2
<1>13. CASE HandleDisconnected(id)
  <2>1. TearDown(ch, "DISCONNECTED", NoId, res, orphans, Moved("timewait"))
    BY <1>13 DEF HandleDisconnected
  <2>2. "DISCONNECTED" \in AckedFirst
    BY DEF AckedFirst
  <2> QED
    BY <1>3, <1>6, <1>7, <2>1, <2>2
<1>14. CASE HandleUnknown(id)
  <2>1. cm[id] = "timewait"
    BY <1>14, ReportsOf DEF HandleUnknown, GetCmEvent
  <2> QED
    BY <1>8, <1>14, <2>1 DEF HandleUnknown
<1> QED
  BY <1>9, <1>10, <1>11, <1>12, <1>13, <1>14 DEF Handle

(* The handler of a connection request keeps the invariant.                *)
LEMMA ConnectRequestCtx ==
  ASSUME CtxInv, Inv', NEW l \in CmIds, NEW new \in CmIds, HandleConnectRequest(l, new)
  PROVE  CtxInv'
<1> DEFINE ch == chan[l]
           c == [cm EXCEPT ![new] = "requested"]
<1>1. /\ status = "up" /\ loop[ch] \in Waiting /\ cm[l] = "listening" /\ cm[new] = "unused"
      /\ chan' = [chan EXCEPT ![new] = chan[l]] /\ UNCHANGED appVars
  BY DEF HandleConnectRequest
<1>2. chan \in [CmIds -> CmIds] /\ ch \in CmIds
  BY DEF CtxInv, Inv, TypeOK
<1>3. Rechan(new)
  BY <1>1, <1>2, SMT DEF Rechan
<1>4. new \notin unacked
  BY <1>1 DEF CtxInv, Unacked
<1>5. l # new /\ cm[l] # "unused" /\ c[l] # "established"
  BY <1>1, SMT DEF CtxInv, Inv, TypeOK
<1>6. "requested" \in CmStates \ {"unused", "established", "connect_sent", "destroyed"}
  BY SMT DEF CmStates
<1>7. "CONNECT_REQUEST" \in Roots
  BY SMT DEF Roots, HandledFirst
<1>8. CASE CreateFails(ch, "CONNECT_REQUEST", l, c)
  BY <1>1, <1>2, <1>3, <1>4, <1>5, <1>6, <1>7, <1>8, CreateFailsCtx
<1>9. ASSUME NEW f \in CreateFaults(res, Done, 0), f # "none", Crash(f) PROVE CtxInv'
  BY <1>1, <1>2, <1>3, <1>9, CreateCrashCtx
<1>10. ASSUME NEW recv \in BOOLEAN, "none" \in CreateFaults(res, Done, 0), NEW o,
              TearDown(ch, "CONNECT_REQUEST", l, Created(res, Done, 0, recv), o, c)
       PROVE  CtxInv'
  BY <1>1, <1>2, <1>3, <1>4, <1>5, <1>6, <1>7, <1>10, CreateAll, TearDownCtx
<1>11. ASSUME NEW recv \in BOOLEAN, "none" \in CreateFaults(res, Done, 0),
              ConnectInit(ch, new, c), res' = Created(res, Done, 0, recv)
       PROVE  CtxInv'
  <2>1. cm_id \in CmIds /\ Whole(res)' /\ Full(res)'
    BY <1>11, CreateAll, Zenon
  <2>2. cm_id # new
    BY <1>1, <2>1 DEF CtxInv, CurrentId
  <2> QED
    BY <1>1, <1>2, <1>3, <1>4, <1>6, <1>11, <2>1, <2>2, ConnectInitCtx
<1> QED
  BY <1>8, <1>9, <1>10, <1>11 DEF HandleConnectRequest

(* A failing rdma_get_cm_event keeps the invariant.                        *)
LEMMA GetCmEventFailsCtx ==
  ASSUME CtxInv, Inv', NEW ch \in CmIds, GetCmEventFails(ch)
  PROVE  CtxInv'
<1>1. status = "up" /\ UNCHANGED chan /\ Rechan(ch) /\ UNCHANGED appVars
  BY DEF GetCmEventFails, Rechan
<1>2. ASSUME NEW f \in {"null_deref", "wild_use"}, Crash(f) PROVE CtxInv'
  <2>1. f # "up" /\ f # "dead_id"
    OBVIOUS
  <2> QED
    BY <1>1, <1>2, <2>1, CrashCtx
<1>3. CASE /\ loop' = [loop EXCEPT ![ch] = "ended"]
           /\ UNCHANGED <<cm_id, res, connected, cm, unacked, status, orphans, up>>
  <2>1. \A x \in CmIds : loop'[x] = loop[x] \/ loop'[x] = "ended"
    BY <1>3, SMT DEF CtxInv, Inv, TypeOK
  <2>2. "ended" \notin Waiting \cup {"none"}
    BY SMT DEF Waiting
  <2>3. app' = app
    BY <1>1 DEF appVars
  <2> QED
    BY <1>1, <1>3, <2>1, <2>2, <2>3, StopCtx
<1> QED
  BY <1>2, <1>3 DEF GetCmEventFails

(* Every step of the program keeps the invariant.                          *)
LEMMA NextCtx == CtxInv /\ [Next]_vars => CtxInv'
<1> SUFFICES ASSUME CtxInv, [Next]_vars PROVE CtxInv'
  OBVIOUS
<1>1. Inv'
  BY NextInv DEF CtxInv
<1>2. CASE UNCHANGED vars
  <2>1. UNCHANGED <<app, ctxs, cm_id, res, connected, cm, chan, loop, unacked, status, up>>
    BY <1>2 DEF vars, appVars
  <2>2. CurrentId' /\ Unacked' /\ Whole(res)'
    BY <2>1, Zenon DEF CtxInv, CurrentId, Unacked
  <2>3. ConnectedHasResources' /\ EstablishedIsServed' /\ DestroyedIdUnused'
    BY <2>1, Zenon DEF CtxInv, ConnectedHasResources, EstablishedIsServed, DestroyedIdUnused
  <2> QED
    BY <1>1, <2>2, <2>3 DEF CtxInv
<1> QED
  BY <1>1, <1>2, ApplicationCtx, HandleCtx, ConnectRequestCtx, GetCmEventFailsCtx DEF Next

(* In every execution, with any number of overlapping connections, the     *)
(* context behind an ESTABLISHED connection has all the queue pairs, MRs   *)
(* and buffers of fs_rdma_create_resources, until a teardown.              *)
THEOREM ConnectedComplete == Spec => []ConnectedHasResources
<1>1. CtxInv => ConnectedHasResources
  BY DEF CtxInv
<1> QED
  BY InitCtx, NextCtx, <1>1, PTL DEF Spec

(* In every execution the current context's connection is served or being  *)
(* disconnected once it is established.                                    *)
THEOREM EstablishedServed == Spec => []EstablishedIsServed
<1>1. CtxInv => EstablishedIsServed
  BY DEF CtxInv
<1> QED
  BY InitCtx, NextCtx, <1>1, PTL DEF Spec

(* In every execution an only context that the application has not         *)
(* destroyed never hands librdmacm an identifier that was destroyed.       *)
THEOREM OnlyContextSafe == Spec => []DestroyedIdUnused
<1>1. CtxInv => DestroyedIdUnused
  BY DEF CtxInv
<1> QED
  BY InitCtx, NextCtx, <1>1, PTL DEF Spec

-----------------------------------------------------------------------------
(* The refinement of QueuePairLife.                                        *)

(* What a step may do to the queue pair and the flag within a context.     *)
LifeStep ==
  Life!CreateQp \/ Life!Establish \/ Life!DestroyQp \/ UNCHANGED <<ctxs, connected, QpState>>

(* A step that changes neither the resources, nor the flag, nor the        *)
(* context is invisible.                                                   *)
LEMMA SameLife ==
  ASSUME UNCHANGED <<ctxs, stage, res, connected>>
  PROVE  LifeStep
BY DEF LifeStep, QpState

(* The end of the process is invisible.                                    *)
LEMMA CrashLife ==
  ASSUME NEW f, Crash(f), UNCHANGED appVars
  PROVE  LifeStep
BY SameLife DEF Crash, appVars

(* A context whose qp array is not yet allocated has no queue pair.        *)
LEMMA UnallocatedQp ==
  ASSUME CtxInv, stage \notin Allocated
  PROVE  res.on_id = FALSE /\ QpState = "none"
<1>1. res.on_id = FALSE
  <2>1. res.on_id \in BOOLEAN
    BY SMT DEF CtxInv, Inv, TypeOK, Resources
  <2>2. res.on_id => FALSE
    BY DEF CtxInv, Inv, Owned, Whole
  <2> QED
    BY <2>1, <2>2, Zenon
<1> QED
  BY <1>1, Zenon DEF QpState

(* A teardown destroys the queue pair, or there was none left.             *)
LEMMA TearDownLife ==
  ASSUME CtxInv, UNCHANGED appVars, NEW ch, NEW e, NEW held,
         NEW r \in Resources, Whole(r), NEW o, NEW c, TearDown(ch, e, held, r, o, c)
  PROVE  LifeStep
<1>1. PICK f \in TearDownFaults(r) :
        \/ f # "none" /\ Crash(f)
        \/ /\ f = "none" /\ res' = Released(r)
           /\ DestroyId(ch, e, held, c) /\ UNCHANGED <<connected, status>>
  BY DEF TearDown
<1>2. CASE f # "none"
  BY <1>1, <1>2, CrashLife
<1>3. CASE f = "none"
  <2>1. res' = Released(r) /\ connected' = connected /\ UNCHANGED <<ctxs, stage>>
    BY <1>1, <1>3 DEF appVars
  <2>2. res'.ptr["qp"] = "null" /\ ~res'.on_id
    BY <2>1, ReleasedWhole
  <2>3. CASE stage \in Allocated
    <3>1. QpState' = "destroyed"
      BY <2>1, <2>2, <2>3 DEF QpState
    <3> QED
      BY <2>1, <3>1 DEF LifeStep, Life!DestroyQp
  <2>4. CASE stage \notin Allocated
    <3>1. QpState' = "none"
      BY <2>1, <2>2, <2>4 DEF QpState
    <3> QED
      BY <2>1, <2>4, <3>1, UnallocatedQp DEF LifeStep
  <2> QED
    BY <2>3, <2>4
<1> QED
  BY <1>2, <1>3

(* A failing fs_rdma_create_resources ends in a teardown.                  *)
LEMMA CreateFailsLife ==
  ASSUME CtxInv, UNCHANGED appVars, NEW ch, NEW e, NEW held, NEW c, CreateFails(ch, e, held, c)
  PROVE  LifeStep
<1>1. PICK p \in FailPoints, i \in 0..(QpCount - 1), recv \in BOOLEAN :
        \/ \E f : Crash(f)
        \/ /\ "none" \in CreateFaults(res, p, i)
           /\ \E o : TearDown(ch, e, held, CreateExit(Created(res, p, i, recv)), o, c)
  BY DEF CreateFails
<1> DEFINE r == Created(res, p, i, recv)
<1>2. r \in Resources /\ CreateExit(r) \in Resources
  BY CreatedOwned, ReleasedOwned DEF CtxInv, Inv, TypeOK, Ends
<1>3. ASSUME "none" \in CreateFaults(res, p, i), NEW o, TearDown(ch, e, held, CreateExit(r), o, c)
      PROVE  LifeStep
  <2>1. Whole(CreateExit(r))
    BY <1>2, <1>3, CreatedWhole, ReleasedWhole DEF CtxInv, Inv, TypeOK, Ends
  <2> QED
    BY <1>2, <1>3, <2>1, TearDownLife
<1> QED
  BY <1>1, <1>3, CrashLife

(* A complete fs_rdma_create_resources makes the queue pair, or a second   *)
(* one of a context that has one.                                          *)
LEMMA CreateAllLife ==
  ASSUME TypeKnown, CtxInv, UNCHANGED appVars,
         NEW recv \in BOOLEAN, "none" \in CreateFaults(res, Done, 0),
         res' = Created(res, Done, 0, recv), connected' = connected
  PROVE  LifeStep
<1>1. UNCHANGED <<ctxs, stage>>
  BY DEF appVars
<1>2. res'.on_id
  BY CreateAll DEF Full
<1>3. QpState' = "alive"
  BY <1>2 DEF QpState
<1>4. QpStored(Done, 0)
  BY SMT DEF QpStored, Rank, Done
<1>5. res.ptr["qp"] # "null"
  BY <1>4, CreateNoFault
<1>6. QpState \in {"none", "alive"}
  BY <1>5 DEF QpState
<1> QED
  BY <1>1, <1>3, <1>6 DEF LifeStep, Life!CreateQp

(* Creating a context starts a new life.                                   *)
LEMMA NewCtxLife ==
  ASSUME CtxInv, CtxInv', NewCtx, res'.on_id = FALSE
  PROVE  Life!NewContext
<1>1. ctxs' # ctxs /\ connected' \in BOOLEAN
  BY SMT DEF NewCtx, CtxInv, Inv, TypeOK
<1>2. stage' \notin Allocated
  BY SMT DEF NewCtx, Allocated
<1>3. QpState' = "none"
  BY <1>2, Zenon DEF QpState
<1> QED
  BY <1>1, <1>3 DEF Life!NewContext, Life!Fresh

(* Allocating the arrays neither makes nor destroys a queue pair.          *)
LEMMA AllocateLife ==
  ASSUME CtxInv, NEW a \in Arrays, NEW from \in {"id", "qp", "mr"}, NEW to \in Allocated,
         a = "qp" <=> from = "id", Allocate(a, from, to)
  PROVE  LifeStep
<1>1. CASE Crash("exited") /\ UNCHANGED appVars
  BY <1>1, CrashLife
<1>2. CASE /\ res' = [res EXCEPT !.ptr[a] = "live"] /\ stage' = to
           /\ UNCHANGED <<ctxs, connected>>
  <2>1. /\ res'.ptr["qp"] = IF a = "qp" THEN "live" ELSE res.ptr["qp"]
        /\ res'.on_id = res.on_id
    BY <1>2, AllocatedArray
  <2>2. CASE a = "qp"
    <3>1. stage \notin Allocated
      BY <2>2, SMT DEF Allocate, Allocated
    <3>2. QpState = "none" /\ QpState' = "none"
      BY <2>1, <2>2, <3>1, UnallocatedQp DEF QpState
    <3> QED
      BY <1>2, <3>2 DEF LifeStep
  <2>3. CASE a # "qp"
    <3>1. stage \in Allocated /\ stage' \in Allocated
      BY <1>2, <2>3, SMT DEF Allocate, Allocated
    <3>2. QpState' = QpState
      BY <2>1, <2>3, <3>1 DEF QpState
    <3> QED
      BY <1>2, <3>2 DEF LifeStep
  <2> QED
    BY <2>2, <2>3
<1> QED
  BY <1>1, <1>2 DEF Allocate

(* The calls other than fs_rdma_create_ctx change nothing of it.           *)
LEMMA CallsLife ==
  ASSUME FsRdmaConnect \/ FsRdmaListen \/ FsRdmaDestroyCtx
  PROVE  LifeStep
<1>1. UNCHANGED <<ctxs, stage, res, connected>>
  BY DEF FsRdmaConnect, FsRdmaListen, FsRdmaDestroyCtx, DestroyCtxId, DestroyCtxChannel, Crash, appVars
<1> QED
  BY <1>1, SameLife

(* The application's calls: a new context, or steps that change nothing.   *)
LEMMA ApplicationLife ==
  ASSUME CtxInv, CtxInv', Application
  PROVE  LifeStep \/ Life!NewContext
<1>1. CASE FsRdmaCreateCtx
  <2>1. status = "up" /\ UNCHANGED <<chan, unacked>>
    BY <1>1 DEF FsRdmaCreateCtx
  <2>2. CASE NewCtx
    BY <2>1, <2>2, NewCtxCtx, NewCtxLife DEF CtxInv
  <2>3. CASE NewChannel \/ NewId
    <3>1. UNCHANGED <<ctxs, res, connected>>
      BY <2>3 DEF NewChannel, NewId
    <3>2. stage \notin Allocated /\ stage' \notin Allocated
      BY <2>3, SMT DEF NewChannel, NewId, Allocated
    <3>3. QpState' = QpState
      BY <3>1, <3>2 DEF QpState
    <3> QED
      BY <3>1, <3>3 DEF LifeStep
  <2>4. {"qp", "mr", "buf"} \subseteq Arrays /\ {"qp", "mr", "ready"} \subseteq Allocated
    BY DEF Arrays, Allocated
  <2>5. CASE Allocate("qp", "id", "qp")
    BY <2>4, <2>5, AllocateLife
  <2>6. CASE Allocate("mr", "qp", "mr")
    BY <2>4, <2>6, AllocateLife
  <2>7. CASE Allocate("buf", "mr", "ready")
    BY <2>4, <2>7, AllocateLife
  <2> QED
    BY <1>1, <2>2, <2>3, <2>5, <2>6, <2>7 DEF FsRdmaCreateCtx
<1> QED
  BY <1>1, CallsLife DEF Application

(* The cases of the event loop's switch.                                   *)
LEMMA HandleLife ==
  ASSUME TypeKnown, CtxInv, NEW id \in CmIds, Handle(id)
  PROVE  LifeStep
<1> DEFINE ch == chan[id]
<1>1. UNCHANGED appVars /\ UNCHANGED <<ctxs, stage>>
  BY Zenon DEF Handle, HandleAddrResolved, HandleRouteResolved, HandleEstablished, HandleEventError,
         HandleDisconnected, HandleUnknown, appVars
<1>2. res \in Resources /\ Whole(res)
  BY DEF CtxInv, Inv, TypeOK
<1>3. ASSUME UNCHANGED <<res, connected>> PROVE LifeStep
  BY <1>1, <1>3, SameLife
<1>4. ASSUME NEW e, NEW held, NEW o, NEW c, TearDown(ch, e, held, res, o, c) PROVE LifeStep
  BY <1>1, <1>2, <1>4, TearDownLife
<1>5. CASE HandleAddrResolved(id)
  BY <1>3, <1>4, <1>5 DEF HandleAddrResolved
<1>6. CASE HandleRouteResolved(id)
  <2> DEFINE c == [cm EXCEPT ![id] = "route_ok"]
  <2>1. CASE CreateFails(ch, "ROUTE_RESOLVED", id, c)
    BY <1>1, <2>1, CreateFailsLife
  <2>2. ASSUME NEW recv \in BOOLEAN, "none" \in CreateFaults(res, Done, 0), NEW o,
               TearDown(ch, "ROUTE_RESOLVED", id, Created(res, Done, 0, recv), o, c)
        PROVE  LifeStep
    BY <1>1, <2>2, CreateAll, TearDownLife
  <2>3. ASSUME NEW recv \in BOOLEAN, "none" \in CreateFaults(res, Done, 0),
               res' = Created(res, Done, 0, recv), connected' = connected
        PROVE  LifeStep
    BY <1>1, <2>3, CreateAllLife
  <2> QED
    BY <1>1, <1>6, <2>1, <2>2, <2>3, CrashLife DEF HandleRouteResolved
<1>7. CASE HandleEstablished(id)
  <2>1. ASSUME ConnectInit(ch, id, [cm EXCEPT ![id] = "established"]), UNCHANGED res
        PROVE  LifeStep
    <3>1. CASE connected \/ id # cm_id
      BY <1>3, <2>1, <3>1 DEF ConnectInit
    <3>2. CASE ~connected /\ id = cm_id
      <4>1. connected' = TRUE
        BY <2>1, <3>2 DEF ConnectInit
      <4>2. cm[id] = "connect_sent" /\ loop[chan[id]] \in Waiting
        BY <1>7, ReportsOf DEF HandleEstablished, GetCmEvent
      <4>3. res.on_id
        BY <3>2, <4>2 DEF CtxInv, CurrentId, Full
      <4>4. QpState = "alive" /\ QpState' = "alive"
        BY <2>1, <4>3 DEF QpState
      <4> QED
        BY <1>1, <3>2, <4>1, <4>4 DEF LifeStep, Life!Establish
    <3> QED
      BY <3>1, <3>2
  <2> QED
    BY <1>1, <1>7, <2>1, CrashLife DEF HandleEstablished
<1>8. CASE HandleEventError(id)
  BY <1>4, <1>8 DEF HandleEventError
<1>9. CASE HandleDisconnected(id)
  BY <1>4, <1>9 DEF HandleDisconnected
<1>10. CASE HandleUnknown(id)
  BY <1>3, <1>10 DEF HandleUnknown
<1> QED
  BY <1>5, <1>6, <1>7, <1>8, <1>9, <1>10 DEF Handle

(* A connection request creates the queue pair but sets no flag.           *)
LEMMA ConnectRequestLife ==
  ASSUME TypeKnown, CtxInv, NEW l \in CmIds, NEW new \in CmIds, HandleConnectRequest(l, new)
  PROVE  LifeStep
<1> DEFINE ch == chan[l]
           c == [cm EXCEPT ![new] = "requested"]
<1>1. cm[new] = "unused" /\ UNCHANGED appVars
  BY DEF HandleConnectRequest
<1>2. CASE CreateFails(ch, "CONNECT_REQUEST", l, c)
  BY <1>1, <1>2, CreateFailsLife
<1>3. ASSUME NEW recv \in BOOLEAN, "none" \in CreateFaults(res, Done, 0), NEW o,
             TearDown(ch, "CONNECT_REQUEST", l, Created(res, Done, 0, recv), o, c)
      PROVE  LifeStep
  BY <1>1, <1>3, CreateAll, TearDownLife
<1>4. ASSUME NEW recv \in BOOLEAN, "none" \in CreateFaults(res, Done, 0),
             ConnectInit(ch, new, c), res' = Created(res, Done, 0, recv)
      PROVE  LifeStep
  <2>1. new # cm_id
    BY <1>1, <1>4, CreateAll DEF CtxInv, CurrentId
  <2>2. connected' = connected
    BY <1>4, <2>1 DEF ConnectInit
  <2> QED
    BY <1>1, <1>4, <2>2, CreateAllLife
<1> QED
  BY <1>1, <1>2, <1>3, <1>4, CrashLife DEF HandleConnectRequest

(* A failing rdma_get_cm_event ends the loop or the process.               *)
LEMMA GetCmEventFailsLife ==
  ASSUME NEW ch \in CmIds, GetCmEventFails(ch)
  PROVE  LifeStep
<1>1. UNCHANGED <<ctxs, stage, res, connected>>
  BY DEF GetCmEventFails, Crash, appVars
<1> QED
  BY <1>1, SameLife

(* For a known connection type the connection management implements        *)
(* QueuePairLife, for any number of identifiers, contexts and queue pairs: *)
(* whichever events arrive and whatever fails, connected is only set over  *)
(* an existing queue pair, and a destroyed one does not come back before a *)
(* new context is created.                                                 *)
THEOREM KeepsQueuePairLife ==
  ASSUME TypeKnown
  PROVE  Spec => ImplementsLife
<1>1. Init => Life!Init
  <2> SUFFICES ASSUME Init PROVE Life!Init
    OBVIOUS
  <2>1. connected \in BOOLEAN /\ res.on_id = FALSE
    BY Zenon DEF Init, NoResources
  <2>2. stage \notin Allocated
    BY SMT DEF Init, Allocated
  <2>3. QpState = "none"
    BY <2>1, <2>2, Zenon DEF QpState
  <2> QED
    BY <2>1, <2>3 DEF Life!Init, Life!Fresh
<1>2. CtxInv /\ CtxInv' /\ [Next]_vars => [Life!Next]_<<ctxs, connected, QpState>>
  <2> SUFFICES ASSUME CtxInv, CtxInv', [Next]_vars PROVE LifeStep \/ Life!NewContext
    BY DEF LifeStep, Life!Next
  <2>1. CASE UNCHANGED vars
    BY <2>1, SameLife DEF vars, appVars
  <2> QED
    BY <2>1, ApplicationLife, HandleLife, ConnectRequestLife, GetCmEventFailsLife DEF Next
<1> QED
  BY <1>1, <1>2, InitCtx, NextCtx, PTL DEF Spec, ImplementsLife, Life!Spec

=============================================================================
