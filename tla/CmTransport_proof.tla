-------------------------- MODULE CmTransport_proof --------------------------
(***************************************************************************)
(* Proofs about CmTransport for any number of identifiers, queue pairs and *)
(* contexts and for every configuration: type correctness, what the        *)
(* clean-up may touch, and where a hang of an event loop starts.           *)
(***************************************************************************)
EXTENDS CmTransport, TLAPS

USE NoIdAssumption, QpCountAssumption, ConfigAssumption, CqAssumption, MaxCtxAssumption

(* No field holds a pointer to a released object; the fields the clean-up  *)
(* releases hold what malloc left there only in a context whose first      *)
(* release, of the queue pair it does not have, already ends the process.  *)
(* The arrays are uninitialised only until stage s allocates them.         *)
Owned(r, s) ==
  /\ \A f \in Fields : r.ptr[f] # "dead"
  /\ \A f \in {CqField, "pd"} : r.ptr[f] = "junk" => r.ptr["qp"] # "null" /\ ~r.on_id
  /\ s \in Allocated => r.ptr["qp"] # "junk"
  /\ s \notin Allocated => r.ptr["qp"] # "live"
  /\ s = "ready" => r.ptr["buf"] # "junk"

Calls == {"find_dev", "open_device", "query_port", "alloc_pd", "comp_channel",
          "query_device", "send_cq", "srq", "bad_type", "create_qp", "memalign", "reg_mr", "none"}

\* Where a run of fs_rdma_create_resources may end.
Ends == FailPoints \cup {Done}

(* The points at which a run of fs_rdma_create_resources may end have a    *)
(* place in the program order.                                             *)
LEMMA RankType ==
  /\ Ends \subseteq Calls
  /\ \A p \in Calls \cup {"recv_cq"} : Rank[p] \in Nat
  /\ \A f \in Objects : Step[f] \in Calls \cup {"recv_cq"}
BY SMT DEF Ends, Done, FailPoints, Rank, Calls, Objects, Step

(* Where QPs are stored, fs_rdma_create_resources has assigned the         *)
(* completion queues and the protection domain before.                     *)
LEMMA QpStoredAssigned ==
  ASSUME NEW p \in Ends, NEW i \in 0..(QpCount - 1), QpStored(p, i)
  PROVE  {"pd", "send_cq", "recv_cq"} \subseteq Assigned(p)
<1>1. Rank[p] >= 11
  BY SMT, RankType DEF QpStored, Rank, Calls
<1>2. /\ "pd" \in Objects \ Skipped /\ "send_cq" \in Objects \ Skipped
      /\ "recv_cq" \in Objects \ Skipped
  BY SMT DEF Objects, Skipped
<1>3. Rank[Step["pd"]] = 4 /\ Rank[Step["send_cq"]] = 7 /\ Rank[Step["recv_cq"]] = 8
  BY SMT DEF Rank, Step
<1>4. Rank[p] \in Nat
  BY RankType
<1> QED
  BY <1>1, <1>2, <1>3, <1>4, SMT DEF Assigned

(* A run of fs_rdma_create_resources, complete or not, keeps the resource  *)
(* fields well formed and owned.                                           *)
LEMMA CreatedOwned ==
  ASSUME NEW r \in Resources, Owned(r, stage), NEW p \in Ends,
         NEW i \in 0..(QpCount - 1), NEW recv \in BOOLEAN
  PROVE  Created(r, p, i, recv) \in Resources /\ Owned(Created(r, p, i, recv), stage)
<1> DEFINE s == Created(r, p, i, recv)
<1>1. s.ptr = [f \in Fields |->
                IF f \notin Assigned(p) THEN r.ptr[f]
                ELSE IF p = Step[f] \/ (f = "recv_cq" /\ ~recv) THEN "null" ELSE "live"]
  BY DEF Created
<1>2. s.on_id = (r.on_id \/ QpStored(p, i))
  BY DEF Created
<1>3. r.ptr \in [Fields -> PtrState] /\ r.on_id \in BOOLEAN /\ r.n \in [Arrays -> 0..QpCount]
  BY SMT DEF Resources
<1>4. s.ptr \in [Fields -> PtrState]
  BY <1>1, <1>3, SMT DEF PtrState
<1>5. s.n \in [Arrays -> 0..QpCount]
  BY <1>3, SMT DEF Created, AtLeast, Arrays
<1>6. s \in Resources
  <2>1. s = [ptr |-> s.ptr, n |-> s.n, on_id |-> s.on_id]
    BY SMT DEF Created
  <2>2. s.on_id \in BOOLEAN
    BY <1>2, <1>3, Zenon
  <2> QED
    BY <2>1, <2>2, <1>4, <1>5, SMT DEF Resources
<1>7. \A f \in Fields : s.ptr[f] # "dead"
  BY <1>1, <1>3, SMT DEF Owned
<1>8. ASSUME NEW f \in {CqField, "pd"}, s.ptr[f] = "junk"
      PROVE  s.ptr["qp"] # "null" /\ ~s.on_id
  <2>1. f \in Fields /\ "qp" \in Fields /\ "qp" \notin Assigned(p)
    BY SMT DEF Fields, Arrays, Objects, Assigned
  <2>2. f \notin Assigned(p) /\ r.ptr[f] = "junk"
    BY <1>1, <1>8, <2>1, SMT
  <2>3. ~QpStored(p, i)
    BY <2>2, QpStoredAssigned, SMT
  <2> QED
    BY <1>1, <1>2, <2>1, <2>2, <2>3, Zenon DEF Owned
<1>9. /\ s.ptr["qp"] = r.ptr["qp"] /\ s.ptr["buf"] = r.ptr["buf"]
  <2>1. {"qp", "buf"} \subseteq Fields /\ "qp" \notin Assigned(p) /\ "buf" \notin Assigned(p)
    BY SMT DEF Fields, Arrays, Objects, Assigned
  <2> QED
    BY <1>1, <2>1
<1> QED
  BY <1>6, <1>7, <1>8, <1>9 DEF Owned

(* The release sequence of the clean-up leaves owned fields.               *)
LEMMA ReleasedOwned ==
  ASSUME NEW r \in Resources, Owned(r, stage)
  PROVE  /\ Released(r) \in Resources /\ Owned(Released(r), stage)
         /\ CreateExit(r) \in Resources /\ Owned(CreateExit(r), stage)
<1>1. r.ptr \in [Fields -> PtrState] /\ r.on_id \in BOOLEAN /\ r.n \in [Arrays -> 0..QpCount]
  BY SMT DEF Resources
<1>2. Released(r).ptr \in [Fields -> PtrState]
  BY <1>1, SMT DEF Released, PtrState
<1>3. Released(r).n \in [Arrays -> 0..QpCount] /\ Released(r).on_id \in BOOLEAN
  BY <1>1, SMT DEF Released
<1>4. Released(r) \in Resources
  BY <1>2, <1>3, SMT DEF Resources, Released
<1>5. Owned(Released(r), stage)
  BY <1>1, SMT DEF Owned, Released, Fields, Objects, Arrays
<1>6. CreateExit(r) \in Resources
  BY <1>4, SMT DEF CreateExit, Resources, PtrState
<1>7. Owned(CreateExit(r), stage)
  BY <1>4, <1>5, SMT DEF CreateExit, Owned, Resources, Fields, Objects, Arrays
<1> QED
  BY <1>4, <1>5, <1>6, <1>7

-----------------------------------------------------------------------------
Roots == HandledFirst \ {"ESTABLISHED"}

(* A channel belongs to an identifier that is in use.  An event that stays *)
(* unacknowledged, or a loop that hangs on an event it has acknowledged,   *)
(* means that a loop hangs in a handler that tears down too early.         *)
LoopInv ==
  /\ \A ch \in CmIds : loop[ch] # "none" => cm[ch] # "unused"
  /\ (unacked # {} \/ \E ch \in CmIds : loop[ch] \in AckedFirst) =>
       \E root \in CmIds : loop[root] \in Roots

(* While the current context is being made its channel has no loop yet;    *)
(* only a context that was made is destroyed.                              *)
Making ==
  /\ stage \in Allocated \cup {"id"} => cm_channel \in CmIds /\ cm[cm_channel] # "unused"
  /\ stage # "ready" => \A ch \in CmIds : ch = cm_channel => loop[ch] = "none"
  /\ app = "destroy" => stage = "ready"

Inv == TypeOK /\ Owned(res, stage) /\ CleanupTouchesOwned /\ LoopInv /\ Making

ChanType == [CmIds -> CmIds]
Kinds    == Fields \cup {"dev_list"}

(* Identifier states a handler goes on with: typed, and none becomes       *)
(* unused again.                                                           *)
After(c) == c \in [CmIds -> CmStates] /\ \A i \in CmIds : c[i] = "unused" => cm[i] = "unused"

(* The faults that the clean-up may meet: it releases what it must not     *)
(* only when an earlier context's loop runs.                               *)
HarmlessFaults == (Faults \cup {"exited"}) \ {"double_free", "wild_release"}
Admissible     == {f \in Faults \cup {"exited"} : f \in HarmlessFaults \/ Overlap}

(* A step that ends the process with an admissible fault keeps the         *)
(* invariant.                                                              *)
LEMMA CrashInv ==
  ASSUME Inv, NEW f \in Admissible, Crash(f), UNCHANGED appVars, chan' \in ChanType
  PROVE  Inv'
<1>1. UNCHANGED <<app, stage, ctxs, cm_channel, cm_id, res, connected, cm, loop, unacked, orphans, up>>
  BY DEF Crash, appVars
<1>2. status' = f /\ f \in Faults \cup {"exited"} /\ (f \in HarmlessFaults \/ Overlap)
  BY DEF Crash, Admissible
<1>3. Overlap' = Overlap
  BY <1>1 DEF Overlap
<1>4. CleanupTouchesOwned'
  BY <1>2, <1>3 DEF CleanupTouchesOwned, HarmlessFaults
<1>5. LoopInv' /\ Making' /\ Owned(res, stage)'
  BY <1>1, Zenon DEF Inv, LoopInv, Making
<1> QED
  BY <1>1, <1>2, <1>4, <1>5, Zenon DEF Inv, TypeOK, ChanType

(* Faults other than those of the clean-up are admissible.                 *)
LEMMA HarmlessAdmissible ==
  /\ {"null_deref", "wild_use", "dead_id", "no_qp", "bad_mr", "exited"} \subseteq HarmlessFaults
  /\ HarmlessFaults \subseteq Admissible
BY SMT DEF HarmlessFaults, Admissible, Faults

(* Of owned fields the clean-up releases nothing twice, and nothing that   *)
(* was never assigned unless the context is half made.                     *)
LEMMA ReleaseSafe ==
  ASSUME Inv, NEW ch \in CmIds, loop[ch] \in Waiting, NEW r \in Resources, Owned(r, stage)
  PROVE  ReleaseFaults(r) \subseteq Admissible \cup {"none"}
<1>1. {"buf", CqField, "pd"} \subseteq Fields /\ "qp" \in Fields
  BY SMT DEF Fields, Arrays, Objects
<1>2. ~ \E f \in {"buf", CqField, "pd"} : r.ptr[f] = "dead"
  BY <1>1 DEF Owned
<1>3. r.ptr["qp"] \in {"live", "junk", "null"}
  BY <1>1, SMT DEF Owned, Resources, PtrState
<1>4. ReleaseFaults(r) \subseteq {"dead_id", "no_qp", "bad_mr", "wild_release", "none"}
  BY <1>2, Zenon DEF ReleaseFaults
<1>5. ASSUME "wild_release" \in ReleaseFaults(r) PROVE stage # "ready"
  <2> SUFFICES ASSUME stage = "ready" PROVE FALSE
    OBVIOUS
  <2>1. r.ptr["qp"] # "junk" /\ r.ptr["buf"] # "junk"
    BY DEF Owned, Allocated
  <2>2. CASE r.ptr["qp"] = "live" /\ ~r.on_id
    BY <1>5, <2>2, Zenon DEF ReleaseFaults
  <2>3. CASE ~(r.ptr["qp"] = "live" /\ ~r.on_id)
    <3>1. r.ptr["qp"] = "null" \/ r.on_id
      BY <1>3, <2>1, <2>3
    <3>2. ~ \E f \in {"buf", CqField, "pd"} : r.ptr[f] = "junk"
      BY <2>1, <3>1 DEF Owned
    <3> QED
      BY <1>2, <1>5, <3>2, Zenon DEF ReleaseFaults
  <2> QED
    BY <2>2, <2>3
<1>6. stage # "ready" => Overlap
  <2>1. loop[ch] # "none"
    BY SMT DEF Waiting
  <2> QED
    BY <2>1 DEF Overlap, Inv, Making
<1>7. "wild_release" \in ReleaseFaults(r) => "wild_release" \in Admissible
  BY <1>5, <1>6, SMT DEF Admissible, Faults
<1> QED
  BY <1>4, <1>7, HarmlessAdmissible, Zenon

(* A loop that waited keeps the loop part of the invariant when it goes on *)
(* waiting, or when it hangs on an event it may hang on.                   *)
LEMMA LoopStep ==
  ASSUME Inv, NEW ch \in CmIds, loop[ch] \in Waiting,
         NEW l \in LoopStates, l # "none", loop' = [loop EXCEPT ![ch] = l],
         After(cm'), unacked' \subseteq CmIds, UNCHANGED appVars,
         \/ l \in Roots
         \/ l \notin AckedFirst /\ unacked' \subseteq unacked
         \/ l \in AckedFirst /\ unacked # {}
  PROVE  LoopInv' /\ Making' /\ loop' \in [CmIds -> LoopStates]
<1>1. loop' \in [CmIds -> LoopStates]
  BY SMT DEF Inv, TypeOK
<1>2. \A x \in CmIds : loop'[x] = IF x = ch THEN l ELSE loop[x]
  BY SMT DEF Inv, TypeOK
<1>3. loop[ch] # "none" /\ loop[ch] \notin Roots /\ loop[ch] \notin AckedFirst
  BY SMT DEF Waiting, Roots, HandledFirst, AckedFirst, ErrorEvents
<1>4. \A x \in CmIds : loop'[x] # "none" => cm'[x] # "unused"
  BY <1>2, <1>3, SMT DEF Inv, LoopInv, After
<1>5. (unacked' # {} \/ \E x \in CmIds : loop'[x] \in AckedFirst) =>
        \E root \in CmIds : loop'[root] \in Roots
  <2>1. CASE l \in Roots
    BY <2>1, <1>2, Zenon
  <2>2. CASE l \notin AckedFirst /\ unacked' \subseteq unacked
    BY <2>2, <1>2, <1>3, SMT DEF Inv, LoopInv
  <2>3. CASE l \in AckedFirst /\ unacked # {}
    BY <2>3, <1>2, <1>3, SMT DEF Inv, LoopInv
  <2> QED
    BY <2>1, <2>2, <2>3
<1>6. Making'
  <2>1. UNCHANGED <<app, stage, cm_channel>>
    BY DEF appVars
  <2>2. stage # "ready" => ch # cm_channel
    BY <1>3 DEF Inv, Making
  <2>3. stage \in Allocated \cup {"id"} => cm_channel \in CmIds /\ cm'[cm_channel] # "unused"
    BY DEF Inv, Making, After
  <2> QED
    BY <1>2, <2>1, <2>2, <2>3, Zenon DEF Inv, Making
<1> QED
  BY <1>1, <1>4, <1>5, <1>6 DEF LoopInv

(* What is left to show for a step after which the process is up.          *)
LEMMA UpInv ==
  ASSUME Inv, status' = "up", UNCHANGED appVars, res' \in Resources, Owned(res, stage)',
         orphans' \in SUBSET Kinds, connected' \in BOOLEAN, chan' \in ChanType,
         cm_id' \in CmIds \cup {NoId, JunkId}, up' \in CmIds \cup {NoId},
         unacked' \subseteq CmIds, After(cm'), LoopInv', Making', loop' \in [CmIds -> LoopStates]
  PROVE  Inv'
<1>1. UNCHANGED <<app, stage, ctxs, cm_channel>>
  BY DEF appVars
<1>2. CleanupTouchesOwned'
  BY DEF CleanupTouchesOwned
<1> QED
  BY <1>1, <1>2, Zenon DEF Inv, TypeOK, After, ChanType, Kinds

(* Objects that fs_rdma_create_resources forgets are of known kinds.       *)
LEMMA KindsClosed ==
  ASSUME NEW r, NEW p, NEW i
  PROVE  Overwritten(r, p, i) \subseteq Kinds /\ Lost(r) \subseteq Kinds
BY SMT DEF Overwritten, Lost, Assigned, Kinds, Fields, Arrays, Objects

(* fs_rdma_teardown keeps the invariant: called with the event already     *)
(* acknowledged (held = NoId), or from a handler whose event is not.       *)
LEMMA TearDownInv ==
  ASSUME Inv, status = "up", UNCHANGED appVars,
         NEW ch \in CmIds, loop[ch] \in Waiting, NEW e \in AckedFirst \cup Roots,
         NEW held \in CmIds \cup {NoId}, held = NoId => e \in AckedFirst, held # NoId => e \in Roots,
         NEW r \in Resources, Owned(r, stage), NEW o \in SUBSET Kinds,
         NEW c, After(c), chan' \in ChanType, TearDown(ch, e, held, r, o, c)
  PROVE  Inv'
<1>1. PICK f \in TearDownFaults(r) :
        \/ f # "none" /\ Crash(f)
        \/ /\ f = "none" /\ res' = Released(r) /\ orphans' = o \cup Lost(r) /\ up' = NoId
           /\ DestroyId(ch, e, held, c) /\ UNCHANGED <<connected, status>>
  BY DEF TearDown
<1>2. CASE f # "none"
  <2>1. ReleaseFaults(r) \subseteq Admissible \cup {"none"}
    BY ReleaseSafe
  <2>2. {"null_deref", "dead_id", "wild_use"} \subseteq Admissible
    BY HarmlessAdmissible, Zenon
  <2>3. f \in ReleaseFaults(r) \cup {"null_deref", "dead_id", "wild_use"}
    BY Zenon DEF TearDownFaults
  <2>4. f \in Admissible
    BY <1>2, <2>1, <2>2, <2>3, Zenon
  <2> QED
    BY <1>1, <1>2, <2>4, CrashInv
<1>3. CASE f = "none"
  <2>1. /\ res' = Released(r) /\ orphans' = o \cup Lost(r) /\ up' = NoId
        /\ DestroyId(ch, e, held, c) /\ UNCHANGED <<connected, status>>
    BY <1>1, <1>3
  <2>2. res' \in Resources /\ Owned(res, stage)'
    BY <2>1, ReleasedOwned, Zenon DEF appVars
  <2>3. orphans' \in SUBSET Kinds
    BY <2>1, KindsClosed
  <2>4. /\ cm_id' \in CmIds \cup {NoId, JunkId} /\ unacked' \subseteq CmIds /\ After(cm')
        /\ LoopInv' /\ Making' /\ loop' \in [CmIds -> LoopStates]
    <3>1. CASE cm_id \in (unacked \cup {held}) \ {NoId}
      <4>1. /\ loop' = [loop EXCEPT ![ch] = e] /\ cm' = c /\ cm_id' = cm_id
            /\ unacked' = unacked \cup ({held} \ {NoId})
        BY <2>1, <3>1 DEF DestroyId
      <4>2. unacked' \subseteq CmIds /\ cm_id' \in CmIds \cup {NoId, JunkId}
        BY <4>1 DEF Inv, TypeOK
      <4>3. e \in LoopStates /\ e # "none"
        BY SMT DEF LoopStates, Events, Roots, HandledFirst, AckedFirst, ErrorEvents
      <4>4. e \in Roots \/ (e \in AckedFirst /\ unacked # {})
        BY <3>1
      <4> QED
        BY <4>1, <4>2, <4>3, <4>4, LoopStep
    <3>2. CASE cm_id \notin (unacked \cup {held}) \ {NoId}
      <4>1. /\ loop' = Resume(ch, held) /\ cm_id' = NoId /\ unacked' = unacked
            /\ cm' = IF cm_id \in CmIds THEN [c EXCEPT ![cm_id] = "destroyed"] ELSE c
        BY <2>1, <3>2 DEF DestroyId
      <4>2. PICK l \in Waiting : loop' = [loop EXCEPT ![ch] = l]
        BY <4>1 DEF Resume, Waiting
      <4>3. After(cm')
        BY <4>1, SMT DEF After, Inv, TypeOK, CmStates
      <4>4. l \in LoopStates /\ l # "none" /\ l \notin AckedFirst
        BY SMT DEF Waiting, LoopStates, AckedFirst, ErrorEvents
      <4> QED
        BY <4>1, <4>2, <4>3, <4>4, LoopStep DEF Inv, TypeOK
    <3> QED
      BY <3>1, <3>2
  <2> QED
    BY <2>1, <2>2, <2>3, <2>4, UpInv DEF Inv, TypeOK
<1> QED
  BY <1>2, <1>3

(* The faults of fs_rdma_create_resources are no releases.                 *)
LEMMA CreateFaultsHarmless ==
  ASSUME NEW r, NEW p, NEW i
  PROVE  CreateFaults(r, p, i) \subseteq Admissible \cup {"none"}
<1>1. CreateMay(r, p) \subseteq {"wild_use"}
  BY DEF CreateMay
<1>2. CmIdFaults \subseteq {"null_deref", "wild_use", "dead_id"}
  BY Zenon DEF CmIdFaults
<1>3. \A x : StoreFaults(x) \subseteq {"null_deref", "wild_use"}
  BY Zenon DEF StoreFaults
<1>4. CreateMust(r, p, i) \subseteq {"null_deref", "wild_use", "dead_id"}
  BY <1>2, <1>3, Zenon DEF CreateMust
<1>5. {"wild_use", "null_deref", "dead_id"} \subseteq Admissible
  BY HarmlessAdmissible, Zenon
<1> QED
  BY <1>1, <1>4, <1>5, Zenon DEF CreateFaults

(* A failing fs_rdma_create_resources followed by the handler's teardown   *)
(* keeps the invariant.                                                    *)
LEMMA CreateFailsInv ==
  ASSUME Inv, status = "up", UNCHANGED appVars,
         NEW ch \in CmIds, loop[ch] \in Waiting, NEW e \in Roots, NEW held \in CmIds,
         NEW c, After(c), chan' \in ChanType, CreateFails(ch, e, held, c)
  PROVE  Inv'
<1>1. PICK p \in FailPoints, i \in 0..(QpCount - 1), recv \in BOOLEAN :
        \E f \in CreateFaults(res, p, i) :
          \/ f # "none" /\ Crash(f)
          \/ \E g \in ReleaseFaults(Created(res, p, i, recv)) :
               \/ g # "none" /\ Crash(g)
               \/ TearDown(ch, e, held, CreateExit(Created(res, p, i, recv)),
                    orphans \cup Overwritten(res, p, i) \cup Lost(Created(res, p, i, recv)), c)
  BY DEF CreateFails
<1> DEFINE r == Created(res, p, i, recv)
           o == orphans \cup Overwritten(res, p, i) \cup Lost(r)
<1>2. r \in Resources /\ Owned(r, stage)
  BY CreatedOwned DEF Inv, TypeOK, Ends
<1>3. CreateExit(r) \in Resources /\ Owned(CreateExit(r), stage)
  BY <1>2, ReleasedOwned
<1>4. o \in SUBSET Kinds
  BY KindsClosed DEF Inv, TypeOK, Kinds
<1>5. ASSUME NEW f \in CreateFaults(res, p, i), f # "none", Crash(f) PROVE Inv'
  BY <1>5, CreateFaultsHarmless, CrashInv
<1>6. ASSUME NEW g \in ReleaseFaults(r), g # "none", Crash(g) PROVE Inv'
  <2>1. g \in Admissible
    BY <1>2, <1>6, ReleaseSafe
  <2> QED
    BY <1>6, <2>1, CrashInv
<1>7. ASSUME TearDown(ch, e, held, CreateExit(r), o, c) PROVE Inv'
  <2>1. held # NoId
    OBVIOUS
  <2> QED
    BY <1>3, <1>4, <1>7, <2>1, TearDownInv
<1> QED
  BY <1>1, <1>5, <1>6, <1>7

(* fs_rdma_cm_handle_connect_init keeps the invariant, given the resources *)
(* its caller leaves.                                                      *)
LEMMA ConnectInitInv ==
  ASSUME Inv, status = "up", UNCHANGED appVars,
         NEW ch \in CmIds, loop[ch] \in Waiting, NEW id \in CmIds, NEW c, After(c),
         cm_id \in CmIds,
         res' \in Resources, Owned(res, stage)', orphans' \in SUBSET Kinds, chan' \in ChanType,
         ConnectInit(ch, id, c)
  PROVE  Inv'
<1>1. After(cm') /\ connected' \in BOOLEAN /\ up' \in CmIds \cup {NoId}
  <2>1. CASE connected \/ id # cm_id
    BY <2>1, SMT DEF ConnectInit, After, Inv, TypeOK, CmStates
  <2>2. CASE ~(connected \/ id # cm_id)
    BY <2>2, Zenon DEF ConnectInit, Inv, TypeOK
  <2> QED
    BY <2>1, <2>2
<1>2. loop' = [loop EXCEPT ![ch] = "stale"]
  BY DEF ConnectInit, Resume
<1>3. "stale" \in LoopStates /\ "stale" # "none" /\ "stale" \notin AckedFirst
  BY SMT DEF Waiting, LoopStates, AckedFirst, ErrorEvents
<1>4. unacked' = unacked /\ status' = status /\ cm_id' = cm_id
  BY DEF ConnectInit
<1>5. LoopInv' /\ Making' /\ loop' \in [CmIds -> LoopStates]
  BY <1>1, <1>2, <1>3, <1>4, LoopStep DEF Inv, TypeOK
<1> QED
  BY <1>1, <1>4, <1>5, UpInv DEF Inv, TypeOK

(* A handler that ends with a change of the identifiers' states and the    *)
(* acknowledgement of its event keeps the invariant.                       *)
LEMMA AckInv ==
  ASSUME Inv, status = "up", UNCHANGED appVars,
         NEW ch \in CmIds, loop[ch] \in Waiting, NEW id \in CmIds, After(cm'),
         res' \in Resources, Owned(res, stage)', orphans' \in SUBSET Kinds,
         loop' = Resume(ch, id), UNCHANGED <<cm_id, connected, chan, unacked, status, up>>
  PROVE  Inv'
<1>1. loop' = [loop EXCEPT ![ch] = "stale"]
  BY DEF Resume
<1>2. "stale" \in LoopStates /\ "stale" # "none" /\ "stale" \notin AckedFirst
  BY SMT DEF Waiting, LoopStates, AckedFirst, ErrorEvents
<1>3. LoopInv' /\ Making' /\ loop' \in [CmIds -> LoopStates]
  BY <1>1, <1>2, LoopStep DEF Inv, TypeOK
<1> QED
  BY <1>3, UpInv DEF Inv, TypeOK, ChanType

(* A complete run of fs_rdma_create_resources leaves owned resources.      *)
LEMMA CreateAllOwned ==
  ASSUME Inv, NEW recv \in BOOLEAN
  PROVE  /\ Created(res, Done, 0, recv) \in Resources
         /\ Owned(Created(res, Done, 0, recv), stage)
         /\ orphans \cup Overwritten(res, Done, 0) \in SUBSET Kinds
<1>1. Done \in Ends
  BY DEF Ends
<1>2. 0 \in 0..(QpCount - 1)
  BY SMT
<1> QED
  BY <1>1, <1>2, CreatedOwned, KindsClosed DEF Inv, TypeOK, Kinds

(* The states the handlers and the application's calls store.              *)
LEMMA UsedStates ==
  {"idle", "addr_query", "addr_ok", "route_query", "route_ok", "connect_sent", "established",
   "timewait", "listening", "requested", "closed", "destroyed"} \subseteq CmStates \ {"unused"}
BY SMT DEF CmStates

(* Storing a used state for one identifier lets none become unused.        *)
LEMMA SetState ==
  ASSUME Inv, NEW i \in CmIds, NEW st \in CmStates \ {"unused"}
  PROVE  After([cm EXCEPT ![i] = st])
BY SMT DEF After, Inv, TypeOK

(* When there is nothing wrong with rdma_ctx->cm_id, it is an identifier.  *)
LEMMA UsableId ==
  ASSUME Inv, CmIdFaults = {}
  PROVE  cm_id \in CmIds /\ cm[cm_id] # "destroyed" /\ stage # "null"
<1>1. cm_id \in CmIds \cup {NoId, JunkId}
  BY DEF Inv, TypeOK
<1> QED
  BY <1>1, SMT DEF CmIdFaults

(* When fs_rdma_create_resources gets through to the QPs without a fault,  *)
(* rdma_ctx->cm_id is an identifier.                                       *)
LEMMA CreateAllHasId ==
  ASSUME Inv, "none" \in CreateFaults(res, Done, 0)
  PROVE  cm_id \in CmIds
<1>1. "none" \notin CreateMay(res, Done) /\ "none" \notin CmIdFaults
  BY Zenon DEF CreateMay, CmIdFaults
<1>2. \A x : "none" \notin StoreFaults(x)
  BY Zenon DEF StoreFaults
<1>3. "none" \notin CreateMust(res, Done, 0)
  BY <1>1, <1>2, Zenon DEF CreateMust
<1>4. CreateMust(res, Done, 0) = {}
  BY <1>1, <1>3, Zenon DEF CreateFaults
<1>5. Rank[Done] >= Rank["bad_type"]
  BY SMT DEF Rank, Done
<1>6. CmIdFaults = {}
  BY <1>4, <1>5 DEF CreateMust
<1> QED
  BY <1>6, UsableId

(* A NULL rdma_ctx owns nothing.                                           *)
LEMMA EmptyOwned == NoResources \in Resources /\ Owned(NoResources, "null")
<1>1. NoResources \in Resources
  BY SMT DEF NoResources, Resources, PtrState
<1>2. \A f \in Fields : NoResources.ptr[f] = "null"
  BY DEF NoResources
<1>3. {CqField, "pd", "qp", "buf"} \subseteq Fields /\ "null" \notin Allocated
  BY SMT DEF Fields, Objects, Arrays, Allocated
<1> QED
  BY <1>1, <1>2, <1>3 DEF Owned

(* rdma_ctx = malloc(...) leaves nothing to release in a context whose     *)
(* channel has no loop.                                                    *)
LEMMA NewCtxInv ==
  ASSUME Inv, status = "up", NewCtx, UNCHANGED <<chan, unacked>>
  PROVE  Inv'
<1>1. PICK caller \in Creating :
        \/ /\ app' = caller /\ stage' = "malloc" /\ cm_id' = JunkId /\ res' = JunkResources
           /\ connected' \in BOOLEAN
        \/ /\ app' = Returned(caller) /\ stage' = "null" /\ cm_id' = NoId /\ res' = NoResources
           /\ connected' = FALSE
  BY DEF NewCtx
<1>2. app' \in Places \ {"destroy"} /\ stage' \in {"malloc", "null"}
  BY <1>1, SMT DEF Creating, Places, Returned
<1>3. JunkResources \in Resources /\ Owned(JunkResources, "malloc")
  <2>1. JunkResources \in Resources
    BY SMT DEF JunkResources, Resources, PtrState
  <2>2. \A f \in Fields : JunkResources.ptr[f] = "junk"
    BY DEF JunkResources
  <2>3. "qp" \in Fields /\ ~JunkResources.on_id /\ "malloc" \notin Allocated /\ "malloc" # "ready"
    BY SMT DEF JunkResources, Fields, Arrays, Allocated
  <2> QED
    BY <2>1, <2>2, <2>3 DEF Owned
<1>4. NoResources \in Resources /\ Owned(NoResources, "null")
  BY EmptyOwned
<1>5. res' \in Resources /\ Owned(res, stage)'
  BY <1>1, <1>3, <1>4, Zenon
<1>6. ctxs' \in 0..MaxCtx
  BY SMT DEF NewCtx, Inv, TypeOK
<1>7. Making'
  <2>1. stage' # "ready" /\ stage' \notin Allocated \cup {"id"} /\ cm_channel' = NoId
    BY <1>2, SMT DEF Allocated, NewCtx
  <2> QED
    BY <1>2, <2>1 DEF Making
<1>8. LoopInv'
  BY Zenon DEF NewCtx, Inv, LoopInv
<1>9. /\ cm_id' \in CmIds \cup {NoId, JunkId} /\ connected' \in BOOLEAN /\ up' = NoId
      /\ orphans' \subseteq Kinds /\ cm_channel' = NoId
  BY <1>1 DEF NewCtx, Inv, TypeOK, Kinds
<1>10. status' = "up" /\ UNCHANGED <<cm, loop>>
  BY DEF NewCtx
<1>11. CleanupTouchesOwned'
  BY <1>10 DEF CleanupTouchesOwned
<1>12. stage' \in Stages
  BY <1>2, SMT DEF Stages
<1> QED
  BY <1>2, <1>5, <1>6, <1>7, <1>8, <1>9, <1>10, <1>11, <1>12, Zenon DEF Inv, TypeOK, Kinds

(* rdma_create_event_channel and rdma_create_id keep the invariant.        *)
LEMMA NewIdInv ==
  ASSUME Inv, status = "up", app \in Creating, NewChannel \/ NewId, UNCHANGED <<chan, unacked>>
  PROVE  Inv'
<1>1. app' \in Places \ {"destroy"}
  BY SMT DEF NewChannel, NewId, Creating, Places, Returned
<1>2. CASE NewChannel
  <2>1. stage = "malloc" /\ stage' \in {"malloc", "channel"}
    BY <1>2 DEF NewChannel
  <2>2. UNCHANGED <<ctxs, cm_channel, cm_id, res, connected, cm, loop, status, orphans, up>>
    BY <1>2 DEF NewChannel
  <2>3. {"malloc", "channel"} \subseteq Stages \ (Allocated \cup {"id", "ready"})
    BY SMT DEF Stages, Allocated
  <2>4. Owned(res, stage)'
    BY <2>1, <2>2, <2>3, Zenon DEF Inv, Owned
  <2>5. Making'
    BY <1>1, <2>1, <2>2, <2>3, Zenon DEF Inv, Making
  <2>6. LoopInv' /\ CleanupTouchesOwned'
    BY <2>2, Zenon DEF Inv, LoopInv, CleanupTouchesOwned
  <2> QED
    BY <1>1, <2>1, <2>2, <2>3, <2>4, <2>5, <2>6, Zenon DEF Inv, TypeOK
<1>3. CASE NewId /\ UNCHANGED <<stage, cm, cm_id, cm_channel>>
  <2>1. UNCHANGED <<stage, ctxs, cm_channel, cm_id, res, connected, cm, loop, status, orphans, up>>
    BY <1>3 DEF NewId
  <2>2. Making' /\ LoopInv' /\ CleanupTouchesOwned' /\ Owned(res, stage)'
    BY <1>1, <2>1, Zenon DEF Inv, LoopInv, Making, CleanupTouchesOwned, Owned
  <2> QED
    BY <1>1, <2>1, <2>2, Zenon DEF Inv, TypeOK
<1>4. ASSUME NEW id \in CmIds, cm[id] = "unused", cm' = [cm EXCEPT ![id] = "idle"],
             cm_id' = id, cm_channel' = id, stage' = "id", NewId
      PROVE  Inv'
  <2>1. /\ UNCHANGED <<ctxs, res, connected, loop, status, orphans, up>> /\ stage = "channel"
    BY <1>4 DEF NewId
  <2>2. After(cm') /\ cm'[id] # "unused"
    <3>1. "idle" \in CmStates \ {"unused"}
      BY UsedStates
    <3>2. After(cm')
      BY <1>4, <3>1, SetState
    <3> QED
      BY <1>4, <3>2, SMT DEF Inv, TypeOK
  <2>3. loop[id] = "none"
    BY <1>4 DEF Inv, LoopInv
  <2>4. "channel" \notin Allocated /\ "id" \notin Allocated /\ "id" # "ready" /\ "id" \in Stages
    BY SMT DEF Allocated, Stages
  <2>5. Owned(res, stage)'
    BY <1>4, <2>1, <2>4, Zenon DEF Inv, Owned
  <2>6. Making'
    BY <1>1, <1>4, <2>1, <2>2, <2>3, <2>4, Zenon DEF Making
  <2>7. LoopInv' /\ CleanupTouchesOwned'
    BY <2>1, <2>2, Zenon DEF Inv, LoopInv, After, CleanupTouchesOwned
  <2> QED
    BY <1>1, <1>4, <2>1, <2>2, <2>4, <2>5, <2>6, <2>7, Zenon DEF Inv, TypeOK, After
<1> QED
  BY <1>2, <1>3, <1>4 DEF NewId

(* Allocating an array keeps the invariant; the last one starts a loop     *)
(* that waits.                                                             *)
LEMMA AllocateInv ==
  ASSUME Inv, status = "up", app \in Creating, UNCHANGED <<chan, unacked>>,
         NEW a \in Arrays, NEW from \in {"id", "qp", "mr"}, NEW to \in Allocated,
         a = "qp" => from = "id" /\ to = "qp", a = "mr" => from = "qp" /\ to = "mr",
         a = "buf" => from = "mr" /\ to = "ready", Allocate(a, from, to)
  PROVE  Inv'
<1>1. CASE Crash("exited") /\ UNCHANGED appVars
  BY <1>1, CrashInv, HarmlessAdmissible DEF ChanType, Inv, TypeOK
<1>2. CASE /\ res' = [res EXCEPT !.ptr[a] = "live"]
           /\ stage' = to
           /\ app' = IF to = "ready" THEN Returned(app) ELSE app
           /\ loop' = IF to = "ready" THEN [loop EXCEPT ![cm_channel] = "null"] ELSE loop
           /\ UNCHANGED <<ctxs, cm_channel, cm_id, connected, cm, status, orphans, up>>
  <2>1. stage = from /\ cm_channel \in CmIds /\ cm[cm_channel] # "unused" /\ stage # "ready"
    <3>1. from \in Allocated \cup {"id"} /\ from # "ready"
      BY SMT DEF Allocated
    <3> QED
      BY <3>1 DEF Allocate, Inv, Making
  <2>2. app' \in Places \ {"destroy"}
    BY <1>2, SMT DEF Creating, Places, Returned
  <2>3. to \in Stages
    BY SMT DEF Allocated, Stages
  <2>4. res \in Resources /\ a \in Fields
    BY DEF Inv, TypeOK, Fields
  <2>5. res' \in Resources
    BY <1>2, <2>4, SMT DEF Resources, PtrState
  <2>6. /\ \A f \in Fields : res'.ptr[f] = IF f = a THEN "live" ELSE res.ptr[f]
        /\ res'.on_id = res.on_id
    BY <1>2, <2>4, SMT DEF Resources
  <2>7. Owned(res, stage)'
    <3>1. \A f \in Fields : res'.ptr[f] # "dead"
      BY <2>6, SMT DEF Inv, Owned
    <3>2. {"qp", "buf", "pd", CqField} \subseteq Fields /\ a \notin {"pd", CqField}
      BY SMT DEF Fields, Arrays, Objects
    <3>3. \A f \in {CqField, "pd"} :
            res'.ptr[f] = "junk" => res'.ptr["qp"] # "null" /\ ~res'.on_id
      BY <2>6, <3>2, SMT DEF Inv, Owned
    <3>4. res'.ptr["qp"] # "junk"
      <4>1. CASE a = "qp"
        BY <2>6, <3>2, <4>1
      <4>2. CASE a # "qp"
        <5>1. from \in Allocated
          BY <4>2, SMT DEF Arrays, Allocated
        <5> QED
          BY <2>1, <2>6, <3>2, <4>2, <5>1 DEF Inv, Owned
      <4> QED
        BY <4>1, <4>2
    <3>5. to = "ready" => res'.ptr["buf"] # "junk"
      BY <2>6, <3>2, SMT DEF Arrays
    <3> QED
      BY <1>2, <3>1, <3>3, <3>4, <3>5 DEF Owned
  <2>8. loop[cm_channel] = "none"
    BY <2>1 DEF Inv, Making
  <2>9. /\ loop' \in [CmIds -> LoopStates]
        /\ \A x \in CmIds : loop'[x] = IF x = cm_channel /\ to = "ready" THEN "null" ELSE loop[x]
    BY <1>2, <2>1, SMT DEF Inv, TypeOK, LoopStates, Waiting
  <2>10. LoopInv'
    <3>1. "none" \notin Roots /\ "null" \notin AckedFirst
      BY SMT DEF Roots, HandledFirst, AckedFirst, ErrorEvents
    <3>2. \A x \in CmIds : loop'[x] # "none" => cm'[x] # "unused"
      BY <1>2, <2>1, <2>9, Zenon DEF Inv, LoopInv
    <3>3. (unacked' # {} \/ \E ch \in CmIds : loop'[ch] \in AckedFirst) =>
            \E root \in CmIds : loop'[root] \in Roots
      BY <2>8, <2>9, <3>1, SMT DEF Inv, LoopInv
    <3> QED
      BY <3>2, <3>3 DEF LoopInv
  <2>11. Making'
    <3>1. stage' # "ready" => loop' = loop
      BY <1>2
    <3> QED
      BY <1>2, <2>1, <2>2, <2>8, <3>1, Zenon DEF Making
  <2>12. CleanupTouchesOwned'
    BY <1>2 DEF CleanupTouchesOwned
  <2> QED
    BY <1>2, <2>2, <2>3, <2>5, <2>7, <2>9, <2>10, <2>11, <2>12, Zenon DEF Inv, TypeOK
<1> QED
  BY <1>1, <1>2 DEF Allocate

-----------------------------------------------------------------------------
(* The initial states satisfy the invariant.                               *)
LEMMA InitInv == Init => Inv
<1> SUFFICES ASSUME Init PROVE Inv
  OBVIOUS
<1>1. NoResources \in Resources /\ Owned(NoResources, stage)
  BY EmptyOwned DEF Init
<1>2. \A ch \in CmIds : loop[ch] = "none" /\ cm[ch] = "unused"
  BY DEF Init
<1>3. LoopInv
  BY <1>2, SMT DEF Init, LoopInv, AckedFirst, ErrorEvents
<1>4. Making
  BY SMT DEF Init, Making, Allocated
<1>5. loop \in [CmIds -> LoopStates] /\ cm \in [CmIds -> CmStates] /\ chan \in [CmIds -> CmIds]
  BY SMT DEF Init, LoopStates, CmStates
<1>6. app \in Places /\ stage \in Stages /\ ctxs \in 0..MaxCtx
  BY SMT DEF Init, Places, Stages
<1> QED
  BY <1>1, <1>3, <1>4, <1>5, <1>6, Zenon DEF Init, Inv, TypeOK, CleanupTouchesOwned

(* The application's calls keep the invariant.                             *)
LEMMA ApplicationInv ==
  ASSUME Inv, Application
  PROVE  Inv'
<1>1. CASE FsRdmaCreateCtx
  <2>1. status = "up" /\ UNCHANGED <<chan, unacked>>
    BY <1>1 DEF FsRdmaCreateCtx
  <2>2. {"qp", "mr", "buf"} \subseteq Arrays /\ {"qp", "mr", "ready"} \subseteq Allocated
    BY DEF Arrays, Allocated
  <2>3. ASSUME app \in Creating, Allocate("qp", "id", "qp") PROVE Inv'
    BY <2>1, <2>2, <2>3, AllocateInv
  <2>4. ASSUME app \in Creating, Allocate("mr", "qp", "mr") PROVE Inv'
    BY <2>1, <2>2, <2>4, AllocateInv
  <2>5. ASSUME app \in Creating, Allocate("buf", "mr", "ready") PROVE Inv'
    BY <2>1, <2>2, <2>5, AllocateInv
  <2> QED
    BY <1>1, <2>1, <2>3, <2>4, <2>5, NewCtxInv, NewIdInv DEF FsRdmaCreateCtx
<1>2. ASSUME NEW f, f \in CmIdFaults \cup {"wild_use"}, Crash(f), UNCHANGED appVars, chan' = chan
      PROVE  Inv'
  <2>1. f \in {"null_deref", "wild_use", "dead_id"}
    BY <1>2, Zenon DEF CmIdFaults
  <2>2. f \in Admissible
    BY <2>1, HarmlessAdmissible, Zenon
  <2> QED
    BY <1>2, <2>2, CrashInv DEF ChanType, Inv, TypeOK
<1>3. ASSUME CmIdFaults = {}, status = "up", NEW st \in CmStates \ {"unused"},
             cm' = [cm EXCEPT ![cm_id] = st],
             app' \in Places, app' = "destroy" => stage = "ready", UNCHANGED <<stage, ctxs, cm_channel>>,
             UNCHANGED <<cm_id, res, connected, chan, loop, unacked, status, orphans, up>>
      PROVE  Inv'
  <2>1. cm_id \in CmIds
    BY <1>3, UsableId
  <2>2. After(cm')
    BY <1>3, <2>1, SetState
  <2>3. LoopInv' /\ Making' /\ CleanupTouchesOwned' /\ Owned(res, stage)'
    BY <1>3, <2>2, Zenon DEF After, Inv, LoopInv, Making, CleanupTouchesOwned, Owned
  <2> QED
    BY <1>3, <2>2, <2>3, Zenon DEF After, Inv, TypeOK
<1>4. {"idle", "destroy", "done"} \subseteq Places /\ "idle" # "destroy"
  BY SMT DEF Places
<1>5. CASE FsRdmaConnect
  <2>1. {"addr_query", "idle"} \subseteq CmStates \ {"unused"}
    BY UsedStates
  <2> QED
    BY <1>2, <1>3, <1>4, <1>5, <2>1 DEF FsRdmaConnect, appVars
<1>6. CASE FsRdmaListen
  <2>1. "listening" \in CmStates \ {"unused"}
    BY UsedStates
  <2>2. appVars' = appVars => UNCHANGED <<app, stage, ctxs, cm_channel>>
    BY DEF appVars
  <2>3. app \in Places /\ (app = "destroy" => stage = "ready")
    BY DEF Inv, TypeOK, Making
  <2> QED
    BY <1>2, <1>3, <1>6, <2>1, <2>2, <2>3 DEF FsRdmaListen
<1>7. CASE FsRdmaDestroyCtx /\ DestroyCtxId
  <2>1. "destroyed" \in CmStates \ {"unused"}
    BY UsedStates
  <2> QED
    BY <1>2, <1>3, <1>4, <1>7, <2>1 DEF FsRdmaDestroyCtx, DestroyCtxId, appVars
<1>8. CASE FsRdmaDestroyCtx /\ DestroyCtxChannel
  <2>1. /\ status = "up" /\ app = "destroy" /\ app' = "done"
        /\ loop' = [loop EXCEPT ![cm_channel] = IF @ \in Waiting THEN "closed" ELSE @]
        /\ UNCHANGED <<stage, ctxs, cm_channel, cm_id, res, connected, cm, chan, unacked, status, orphans, up>>
    BY <1>8 DEF FsRdmaDestroyCtx, DestroyCtxChannel
  <2>2. stage = "ready" /\ cm_channel \in CmIds /\ stage \in Allocated
    BY <2>1, SMT DEF Inv, Making, Allocated
  <2>3. \A x \in CmIds : loop'[x] = IF x = cm_channel /\ loop[x] \in Waiting THEN "closed" ELSE loop[x]
    BY <2>1, <2>2, SMT DEF Inv, TypeOK
  <2>4. loop' \in [CmIds -> LoopStates]
    BY <2>1, <2>2, SMT DEF Inv, TypeOK, LoopStates
  <2>5. /\ "closed" \notin AckedFirst /\ "none" \notin Waiting
        /\ \A w \in Waiting : w \notin Roots
    BY SMT DEF AckedFirst, ErrorEvents, Waiting, Roots, HandledFirst
  <2>6. LoopInv'
    <3>1. \A x \in CmIds : loop'[x] # "none" => cm'[x] # "unused"
      BY <2>1, <2>3, <2>5, Zenon DEF Inv, LoopInv
    <3>2. (unacked' # {} \/ \E ch \in CmIds : loop'[ch] \in AckedFirst) =>
            \E root \in CmIds : loop'[root] \in Roots
      BY <2>1, <2>3, <2>5, SMT DEF Inv, LoopInv
    <3> QED
      BY <3>1, <3>2 DEF LoopInv
  <2>7. Making' /\ CleanupTouchesOwned' /\ Owned(res, stage)' /\ "done" \in Places
    BY <1>4, <2>1, <2>2, Zenon DEF Inv, Making, CleanupTouchesOwned, Owned
  <2> QED
    BY <2>1, <2>4, <2>6, <2>7, Zenon DEF Inv, TypeOK
<1> QED
  BY <1>1, <1>5, <1>6, <1>7, <1>8 DEF Application, FsRdmaDestroyCtx

(* The cases of the event loop's switch keep the invariant.                *)
LEMMA HandleInv ==
  ASSUME Inv, NEW id \in CmIds, Handle(id)
  PROVE  Inv'
<1> DEFINE ch == chan[id]
<1>1. /\ UNCHANGED chan /\ chan' \in ChanType /\ ch \in CmIds /\ loop[ch] \in Waiting
      /\ status = "up" /\ UNCHANGED appVars
  BY Zenon DEF Handle, HandleAddrResolved, HandleRouteResolved, HandleEstablished, HandleEventError,
         HandleDisconnected, HandleUnknown, GetCmEvent, ChanType, Inv, TypeOK
<1>2. \A st \in CmStates \ {"unused"} : After([cm EXCEPT ![id] = st])
  BY SetState
<1>3. res \in Resources /\ Owned(res, stage) /\ orphans \in SUBSET Kinds /\ id # NoId
  BY DEF Inv, TypeOK, Kinds
<1>4. {"ADDR_RESOLVED", "ROUTE_RESOLVED"} \subseteq Roots
  BY SMT DEF Roots, HandledFirst
<1>5. CASE HandleAddrResolved(id)
  <2>1. CASE /\ cm' = [cm EXCEPT ![id] = "route_query"] /\ loop' = Resume(ch, id)
             /\ UNCHANGED <<cm_id, res, connected, unacked, status, orphans, up>>
    <3>1. After(cm')
      BY <1>2, <2>1, UsedStates
    <3>2. res' \in Resources /\ Owned(res, stage)' /\ orphans' \in SUBSET Kinds
      BY <1>1, <1>3, <2>1, Zenon DEF appVars
    <3> QED
      BY <1>1, <2>1, <3>1, <3>2, AckInv
  <2>2. CASE TearDown(ch, "ADDR_RESOLVED", id, res, orphans, [cm EXCEPT ![id] = "addr_ok"])
    <3>1. After([cm EXCEPT ![id] = "addr_ok"])
      BY <1>2, UsedStates
    <3> QED
      BY <1>1, <1>3, <1>4, <2>2, <3>1, TearDownInv
  <2> QED
    BY <1>5, <2>1, <2>2 DEF HandleAddrResolved
<1>6. CASE HandleRouteResolved(id)
  <2> DEFINE c == [cm EXCEPT ![id] = "route_ok"]
  <2>1. After(c)
    BY <1>2, UsedStates
  <2>2. CASE CreateFails(ch, "ROUTE_RESOLVED", id, c)
    BY <1>1, <1>4, <2>1, <2>2, CreateFailsInv
  <2>3. ASSUME NEW f \in CreateFaults(res, Done, 0), f # "none", Crash(f) PROVE Inv'
    BY <1>1, <2>3, CreateFaultsHarmless, CrashInv
  <2>4. ASSUME NEW recv \in BOOLEAN,
               TearDown(ch, "ROUTE_RESOLVED", id, Created(res, Done, 0, recv),
                        orphans \cup Overwritten(res, Done, 0), c)
        PROVE  Inv'
    BY <1>1, <1>3, <1>4, <2>1, <2>4, CreateAllOwned, TearDownInv
  <2>5. ASSUME NEW recv \in BOOLEAN, "none" \in CreateFaults(res, Done, 0),
               cm' = [c EXCEPT ![cm_id] = "connect_sent"],
               res' = Created(res, Done, 0, recv),
               orphans' = orphans \cup Overwritten(res, Done, 0),
               loop' = Resume(ch, id),
               UNCHANGED <<cm_id, connected, unacked, status, up>>
        PROVE  Inv'
    <3>1. cm_id \in CmIds
      BY <2>5, CreateAllHasId
    <3>2. "connect_sent" \in CmStates \ {"unused"}
      BY UsedStates
    <3>3. After(cm')
      BY <2>1, <2>5, <3>1, <3>2, SMT DEF After
    <3>4. res' \in Resources /\ Owned(res, stage)' /\ orphans' \in SUBSET Kinds
      BY <1>1, <2>5, CreateAllOwned, Zenon DEF appVars
    <3> QED
      BY <1>1, <2>5, <3>3, <3>4, AckInv
  <2> QED
    BY <1>6, <2>2, <2>3, <2>4, <2>5 DEF HandleRouteResolved
<1>7. CASE HandleEstablished(id)
  <2>1. ASSUME NEW f \in CmIdFaults, Crash(f) PROVE Inv'
    <3>1. f \in {"null_deref", "wild_use", "dead_id"}
      BY <2>1, Zenon DEF CmIdFaults
    <3>2. f \in Admissible
      BY <3>1, HarmlessAdmissible, Zenon
    <3> QED
      BY <1>1, <2>1, <3>2, CrashInv
  <2>2. CASE /\ CmIdFaults = {}
             /\ ConnectInit(ch, id, [cm EXCEPT ![id] = "established"])
             /\ UNCHANGED <<res, orphans>>
    <3>1. cm_id \in CmIds
      BY <2>2, UsableId
    <3>2. After([cm EXCEPT ![id] = "established"])
      BY <1>2, UsedStates
    <3>3. res' \in Resources /\ Owned(res, stage)' /\ orphans' \in SUBSET Kinds
      BY <1>1, <1>3, <2>2, Zenon DEF appVars
    <3> QED
      BY <1>1, <2>2, <3>1, <3>2, <3>3, ConnectInitInv
  <2> QED
    BY <1>7, <2>1, <2>2 DEF HandleEstablished
<1>8. CASE HandleEventError(id)
  <2>1. PICK e \in ErrorEvents :
          TearDown(ch, e, NoId, res, orphans, [cm EXCEPT ![id] = "closed"])
    BY <1>8 DEF HandleEventError
  <2>2. e \in AckedFirst
    BY DEF AckedFirst
  <2>3. After([cm EXCEPT ![id] = "closed"])
    BY <1>2, UsedStates
  <2> QED
    BY <1>1, <1>3, <2>1, <2>2, <2>3, TearDownInv
<1>9. CASE HandleDisconnected(id)
  <2>1. "DISCONNECTED" \in AckedFirst
    BY DEF AckedFirst
  <2>2. After([cm EXCEPT ![id] = "timewait"])
    BY <1>2, UsedStates
  <2>3. TearDown(ch, "DISCONNECTED", NoId, res, orphans, [cm EXCEPT ![id] = "timewait"])
    BY <1>9 DEF HandleDisconnected
  <2> QED
    BY <1>1, <1>3, <2>1, <2>2, <2>3, TearDownInv
<1>10. CASE HandleUnknown(id)
  <2>1. After(cm')
    BY <1>2, <1>10, UsedStates DEF HandleUnknown
  <2>2. res' \in Resources /\ Owned(res, stage)' /\ orphans' \in SUBSET Kinds
    BY <1>1, <1>3, <1>10, Zenon DEF HandleUnknown, appVars
  <2> QED
    BY <1>1, <1>10, <2>1, <2>2, AckInv DEF HandleUnknown
<1> QED
  BY <1>5, <1>6, <1>7, <1>8, <1>9, <1>10 DEF Handle

(* The handler of a connection request keeps the invariant.                *)
LEMMA ConnectRequestInv ==
  ASSUME Inv, NEW l \in CmIds, NEW new \in CmIds, HandleConnectRequest(l, new)
  PROVE  Inv'
<1> DEFINE ch == chan[l]
           c == [cm EXCEPT ![new] = "requested"]
<1>1. chan' \in ChanType /\ ch \in CmIds /\ loop[ch] \in Waiting /\ status = "up" /\ UNCHANGED appVars
  BY SMT DEF HandleConnectRequest, ChanType, Inv, TypeOK
<1>2. After(c)
  BY SetState, UsedStates
<1>3. "CONNECT_REQUEST" \in Roots /\ l # NoId
  BY SMT DEF Roots, HandledFirst
<1>4. CASE CreateFails(ch, "CONNECT_REQUEST", l, c)
  BY <1>1, <1>2, <1>3, <1>4, CreateFailsInv
<1>5. ASSUME NEW f \in CreateFaults(res, Done, 0), f # "none", Crash(f) PROVE Inv'
  BY <1>1, <1>5, CreateFaultsHarmless, CrashInv
<1>6. ASSUME NEW recv \in BOOLEAN,
             TearDown(ch, "CONNECT_REQUEST", l, Created(res, Done, 0, recv),
                      orphans \cup Overwritten(res, Done, 0), c)
      PROVE  Inv'
  BY <1>1, <1>2, <1>3, <1>6, CreateAllOwned, TearDownInv
<1>7. ASSUME NEW recv \in BOOLEAN, "none" \in CreateFaults(res, Done, 0),
             ConnectInit(ch, new, c), res' = Created(res, Done, 0, recv),
             orphans' = orphans \cup Overwritten(res, Done, 0)
      PROVE  Inv'
  <2>1. cm_id \in CmIds
    BY <1>7, CreateAllHasId
  <2>2. res' \in Resources /\ Owned(res, stage)' /\ orphans' \in SUBSET Kinds
    BY <1>1, <1>7, CreateAllOwned, Zenon DEF appVars
  <2> QED
    BY <1>1, <1>2, <1>7, <2>1, <2>2, ConnectInitInv
<1> QED
  BY <1>4, <1>5, <1>6, <1>7 DEF HandleConnectRequest

(* A failing rdma_get_cm_event keeps the invariant.                        *)
LEMMA GetCmEventFailsInv ==
  ASSUME Inv, NEW ch \in CmIds, GetCmEventFails(ch)
  PROVE  Inv'
<1>1. chan' \in ChanType /\ status = "up" /\ UNCHANGED appVars
  BY DEF GetCmEventFails, ChanType, Inv, TypeOK
<1>2. CASE Crash("null_deref") \/ Crash("wild_use")
  BY <1>1, <1>2, CrashInv, HarmlessAdmissible
<1>3. CASE /\ loop[ch] \in {"stale", "closed"}
           /\ loop' = [loop EXCEPT ![ch] = "ended"]
           /\ UNCHANGED <<cm_id, res, connected, cm, unacked, status, orphans, up>>
  <2>1. loop' \in [CmIds -> LoopStates] /\ \A x \in CmIds : loop'[x] = IF x = ch THEN "ended" ELSE loop[x]
    BY <1>3, SMT DEF Inv, TypeOK, LoopStates
  <2>2. loop[ch] # "none" /\ loop[ch] \notin Roots /\ "ended" \notin AckedFirst
    BY <1>3, SMT DEF Roots, HandledFirst, AckedFirst, ErrorEvents
  <2>3. LoopInv'
    BY <1>3, <2>1, <2>2, SMT DEF Inv, LoopInv
  <2>4. Making'
    <3>1. UNCHANGED <<app, stage, cm_channel>>
      BY <1>1 DEF appVars
    <3> QED
      BY <1>3, <2>1, <2>2, <3>1, Zenon DEF Inv, Making
  <2>5. After(cm') /\ Owned(res, stage)'
    BY <1>1, <1>3, Zenon DEF Inv, TypeOK, After, appVars
  <2> QED
    BY <1>1, <1>3, <2>1, <2>3, <2>4, <2>5, UpInv DEF Inv, TypeOK, Kinds
<1> QED
  BY <1>2, <1>3 DEF GetCmEventFails

(* Every step of the program keeps the invariant.                          *)
LEMMA NextInv == Inv /\ [Next]_vars => Inv'
<1> SUFFICES ASSUME Inv, [Next]_vars PROVE Inv'
  OBVIOUS
<1>1. CASE UNCHANGED vars
  <2>1. UNCHANGED <<app, stage, ctxs, cm_channel, cm_id, res, connected, cm, chan, loop, unacked,
                    status, orphans, up>>
    BY <1>1 DEF vars, appVars
  <2>2. TypeOK' /\ Owned(res, stage)'
    BY <2>1, Zenon DEF Inv, TypeOK
  <2>3. CleanupTouchesOwned'
    BY <2>1, Zenon DEF Inv, CleanupTouchesOwned, Overlap
  <2>4. LoopInv' /\ Making'
    BY <2>1, Zenon DEF Inv, LoopInv, Making
  <2> QED
    BY <2>2, <2>3, <2>4 DEF Inv
<1> QED
  BY <1>1, ApplicationInv, HandleInv, ConnectRequestInv, GetCmEventFailsInv DEF Next

(* The state of rdma_ctx, of the event loops and of librdmacm stays within *)
(* its types in every execution of src/c/transport.c.                      *)
THEOREM TypeCorrect == Spec => []TypeOK
<1>1. Inv => TypeOK
  BY DEF Inv
<1> QED
  BY InitInv, NextInv, <1>1, PTL DEF Spec

(* In every execution in which no loop of an earlier context runs beside   *)
(* the current one, the error exit of fs_rdma_create_resources and         *)
(* fs_rdma_teardown release nothing twice and nothing that was never       *)
(* assigned, whichever calls fail and however often they tear down.        *)
THEOREM CleanupSafe == Spec => []CleanupTouchesOwned
<1>1. Inv => CleanupTouchesOwned
  BY DEF Inv
<1> QED
  BY InitInv, NextInv, <1>1, PTL DEF Spec

(* In every execution a loop that hangs in the teardown for an error or    *)
(* disconnect event hangs because of a handler that tears down before its  *)
(* event is acknowledged.                                                  *)
THEOREM HangsHaveRoot == Spec => []HangRoot
<1>1. Inv => HangRoot
  BY DEF Inv, LoopInv, HangRoot, Roots
<1> QED
  BY InitInv, NextInv, <1>1, PTL DEF Spec

=============================================================================
