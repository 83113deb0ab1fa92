----------------------------- MODULE CmTransport -----------------------------
(***************************************************************************)
(* The connection management of src/c/transport.c: the application's calls *)
(* (fs_rdma_create_ctx, fs_rdma_connect, fs_rdma_listen,                   *)
(* fs_rdma_destroy_ctx), the event loop fs_rdma_cm_event_handler, one      *)
(* thread per event channel, and the handlers it dispatches to.  All of    *)
(* them work on ONE global context, rdma_ctx.                              *)
(*                                                                         *)
(* librdmacm and libibverbs are external.  What is assumed of them is in   *)
(* Reports (which events an identifier may report next) and in the rule    *)
(* that rdma_destroy_id waits until every reported event of the            *)
(* identifier has been acknowledged.                                       *)
(*                                                                         *)
(* The application is one thread; each call of it that another thread can  *)
(* get in between is a step of its own, so that an event loop may meet a   *)
(* context that is half made or half destroyed.  An event's handler is one *)
(* step.                                                                   *)
(*                                                                         *)
(* A call that the C code makes with a null, uninitialised or destroyed    *)
(* argument ends the process; status records which one it was.             *)
(***************************************************************************)
EXTENDS Naturals

CONSTANTS
  CmIds,     \* identifiers librdmacm can hand out; bounds the number of connections
  NoId,      \* the NULL cm_id
  JunkId,    \* a cm_id field that malloc left uninitialised
  QpCount,   \* config->qp_count
  UseEvent,  \* config->use_event
  UseSrq,    \* config->use_srq
  TypeKnown, \* config->connection_type is one of RC, UC and UD
  CqField,   \* the completion queue "rdma_ctx->cq" of the clean-up stands for
  MaxCtx     \* bound: how many contexts the application creates

ASSUME NoIdAssumption    == NoId \notin CmIds /\ JunkId \notin CmIds \cup {NoId}
ASSUME QpCountAssumption == QpCount \in Nat \ {0}
ASSUME ConfigAssumption  == UseEvent \in BOOLEAN /\ UseSrq \in BOOLEAN /\ TypeKnown \in BOOLEAN
ASSUME CqAssumption      == CqField \in {"send_cq", "recv_cq"}
ASSUME MaxCtxAssumption  == MaxCtx \in Nat \ {0}

VARIABLES
  app,        \* where the application's thread is, see Places
  stage,      \* how far fs_rdma_create_ctx got with the current rdma_ctx
  ctxs,       \* how often the application has assigned rdma_ctx
  cm_channel, \* rdma_ctx->cm_event_channel, named by the identifier created on
              \*   it, NoId as long as there is none
  cm_id,      \* rdma_ctx->cm_id
  res,        \* the resource fields of rdma_ctx, see Resources
  connected,  \* rdma_ctx->connected = 1 (other values behave like 0)
  cm,         \* external: state of every identifier in librdmacm
  chan,       \* external: the event channel of an identifier, named by the
              \*   identifier created together with the channel
  loop,       \* the event loop of every channel
  unacked,    \* identifiers with a reported event that is never acknowledged
  status,     \* "up", "exited", or the fault that ended the process
  orphans,    \* kinds of objects alive that no pointer reaches any more
  up          \* history: the identifier whose ESTABLISHED set connected in
              \*   the current context, NoId if none or torn down since

appVars == <<app, stage, ctxs, cm_channel>>
vars    == <<appVars, cm_id, res, connected, cm, chan, loop, unacked, status, orphans, up>>

(* The application is between two calls ("idle"), in fs_rdma_create_ctx    *)
(* called by a server ("create_ctx") or from fs_rdma_connect ("connect"),  *)
(* in the rest of fs_rdma_connect ("resolve"), in fs_rdma_destroy_ctx      *)
(* after its first call ("destroy"), or has returned from it ("done").     *)
Creating == {"create_ctx", "connect"}
Places   == Creating \cup {"idle", "resolve", "destroy", "done"}

(* The last step that fs_rdma_create_ctx has completed; "null" when        *)
(* rdma_ctx is NULL.                                                       *)
Stages    == {"null", "malloc", "channel", "id", "qp", "mr", "ready"}
Allocated == {"qp", "mr", "ready"}  \* the qp array has been allocated

Arrays  == {"qp", "mr", "buf"}
Objects == {"context", "channel", "pd", "send_cq", "recv_cq", "srq"}
Fields  == Arrays \cup Objects

(* "junk" is what malloc left in the field, NULL or not: which one is      *)
(* decided when the code tests it.  "dead" is a pointer to a freed object. *)
PtrState == {"null", "junk", "live", "dead"}

(* The resource fields: the pointers, how many array entries hold an      *)
(* object, and whether cm_id->qp is set.                                   *)
Resources == [ptr : [Fields -> PtrState], n : [Arrays -> 0..QpCount], on_id : BOOLEAN]

ErrorEvents   == {"ADDR_ERROR", "ROUTE_ERROR", "CONNECT_ERROR", "UNREACHABLE", "REJECTED"}
AckedFirst    == ErrorEvents \cup {"DISCONNECTED"}
HandledFirst  == {"ADDR_RESOLVED", "ROUTE_RESOLVED", "CONNECT_REQUEST", "ESTABLISHED"}
Events        == AckedFirst \cup HandledFirst \cup {"TIMEWAIT_EXIT"}

CmStates == {"unused", "idle", "addr_query", "addr_ok", "route_query", "route_ok",
             "connect_sent", "established", "disconnecting", "timewait",
             "listening", "requested", "closed", "destroyed"}

(* A loop waits in rdma_get_cm_event with its local variable event NULL or *)
(* pointing to the event it acknowledged last ("stale").  A loop blocked   *)
(* for ever in rdma_destroy_id is in the state named by the event it was   *)
(* handling.                                                               *)
Waiting    == {"null", "stale"}
LoopStates == {"none", "closed", "ended"} \cup Waiting \cup Events

Faults == {"null_deref", "dead_id", "no_qp", "bad_mr", "double_free", "wild_use", "wild_release"}

TypeOK ==
  /\ app \in Places
  /\ stage \in Stages
  /\ ctxs \in 0..MaxCtx
  /\ cm_channel \in CmIds \cup {NoId}
  /\ cm_id \in CmIds \cup {NoId, JunkId}
  /\ res \in Resources
  /\ connected \in BOOLEAN
  /\ cm \in [CmIds -> CmStates]
  /\ chan \in [CmIds -> CmIds]
  /\ loop \in [CmIds -> LoopStates]
  /\ unacked \subseteq CmIds
  /\ status \in Faults \cup {"up", "exited"}
  /\ orphans \subseteq Fields \cup {"dev_list"}
  /\ up \in CmIds \cup {NoId}

NoResources == [ptr |-> [f \in Fields |-> "null"], n |-> [a \in Arrays |-> 0], on_id |-> FALSE]

Init ==
  /\ app = "idle"
  /\ stage = "null"
  /\ ctxs = 0
  /\ cm_channel = NoId
  /\ cm_id = NoId
  /\ res = NoResources
  /\ connected = FALSE
  /\ cm = [i \in CmIds |-> "unused"]
  /\ chan = [i \in CmIds |-> i]
  /\ loop = [i \in CmIds |-> "none"]
  /\ unacked = {}
  /\ status = "up"
  /\ orphans = {}
  /\ up = NoId

Crash(f) ==
  /\ status' = f
  /\ UNCHANGED <<cm_id, res, connected, cm, loop, unacked, orphans, up>>

-----------------------------------------------------------------------------
(* External: the events librdmacm may report next for an identifier, each  *)
(* with the state the identifier is then in.                               *)
Reports(s) ==
  CASE s = "addr_query"    -> {<<"ADDR_RESOLVED", "addr_ok">>, <<"ADDR_ERROR", "closed">>}
    [] s = "route_query"   -> {<<"ROUTE_RESOLVED", "route_ok">>, <<"ROUTE_ERROR", "closed">>}
    [] s = "connect_sent"  -> {<<"ESTABLISHED", "established">>, <<"CONNECT_ERROR", "closed">>,
                               <<"UNREACHABLE", "closed">>, <<"REJECTED", "closed">>}
    [] s = "requested"     -> {<<"UNREACHABLE", "closed">>, <<"REJECTED", "closed">>}
    [] s \in {"established", "disconnecting"} -> {<<"DISCONNECTED", "timewait">>}
    [] s = "timewait"      -> {<<"TIMEWAIT_EXIT", "closed">>}
    [] OTHER               -> {}

(* rdma_get_cm_event returned event e of identifier id, now in state s.    *)
GetCmEvent(id, e, s) ==
  /\ status = "up"
  /\ loop[chan[id]] \in Waiting
  /\ <<e, s>> \in Reports(cm[id])

(* What is wrong with passing rdma_ctx->cm_id to librdmacm.                *)
CmIdFaults ==
  CASE stage = "null" \/ cm_id = NoId -> {"null_deref"}
    [] cm_id = JunkId                 -> {"null_deref", "wild_use"}
    [] OTHER                          -> IF cm[cm_id] = "destroyed" THEN {"dead_id"} ELSE {}

\* The pointer to the identifier is kept although the identifier is destroyed.
IdDead == cm_id \in CmIds /\ cm[cm_id] = "destroyed"

-----------------------------------------------------------------------------
(* fs_rdma_create_resources: its fallible calls in program order.  A run   *)
(* of it is described by the point p at which it ends, the index i of the  *)
(* loop iteration in which a failing loop call fails, and whether          *)
(* ibv_create_cq for recv_cq succeeds, which the code never tests.  It     *)
(* ends at the call that fails, at "none" if all succeed, or at "bad_type" *)
(* if connection_type is unknown: then it returns NULL, which its callers  *)
(* take for success, before the first rdma_create_qp.  Whether             *)
(* rdma_create_qp accepts an identifier that has a QP already, as the loop *)
(* over the QPs expects, the source does not say: it may fail or not.      *)
Rank == [find_dev |-> 1, open_device |-> 2, query_port |-> 3, alloc_pd |-> 4,
         comp_channel |-> 5, query_device |-> 6, send_cq |-> 7, recv_cq |-> 8,
         srq |-> 9, bad_type |-> 10, create_qp |-> 11, memalign |-> 12, reg_mr |-> 12,
         none |-> 13]

Done == IF TypeKnown THEN "none" ELSE "bad_type"

FailPoints == {p \in DOMAIN Rank \ {"recv_cq", "bad_type", "none"} :
                 /\ p = "comp_channel" => UseEvent
                 /\ p = "srq" => UseSrq
                 /\ Rank[p] >= Rank["create_qp"] => TypeKnown}

\* The call that assigns a field, and the fields this configuration leaves alone.
Step    == [context |-> "open_device", pd |-> "alloc_pd", channel |-> "comp_channel",
            send_cq |-> "send_cq", recv_cq |-> "recv_cq", srq |-> "srq"]
Skipped == (IF UseEvent THEN {} ELSE {"channel"}) \cup (IF UseSrq THEN {} ELSE {"srq"})

Assigned(p)    == {f \in Objects \ Skipped : Rank[p] >= Rank[Step[f]]}
QpStored(p, i) == Rank[p] > Rank["create_qp"] \/ (p = "create_qp" /\ i > 0)

AtLeast(old, k) == IF k > old THEN k ELSE old

\* Mutant: the loop over the QPs runs once too often.
CreatedOneTooMany(r, p, i, recv) ==
  [ptr   |-> [f \in Fields |->
                IF f \notin Assigned(p) THEN r.ptr[f]
                ELSE IF p = Step[f] \/ (f = "recv_cq" /\ ~recv) THEN "null" ELSE "live"],
   n     |-> [a \in Arrays |-> IF p = "none" THEN QpCount + 1 ELSE r.n[a]],
   on_id |-> r.on_id \/ QpStored(p, i)]

\* Mutant: the loop over the QPs leaves out the first.
CreatedSkipsFirst(r, p, i, recv) ==
  [CreatedOneTooMany(r, p, i, recv) EXCEPT
     !.n     = [a \in Arrays |-> IF p = "none" THEN QpCount - 1 ELSE r.n[a]],
     !.on_id = r.on_id \/ (QpStored(p, i) /\ QpCount > 1)]

Created(r, p, i, recv) ==
  [ptr   |-> [f \in Fields |->
                IF f \notin Assigned(p) THEN r.ptr[f]
                ELSE IF p = Step[f] \/ (f = "recv_cq" /\ ~recv) THEN "null" ELSE "live"],
   n     |-> [qp  |-> AtLeast(r.n["qp"], IF p = "create_qp" THEN i
                                         ELSE IF QpStored(p, i) THEN QpCount ELSE 0),
              mr  |-> AtLeast(r.n["mr"], IF p = "reg_mr" THEN i
                                         ELSE IF p = "none" THEN QpCount ELSE 0),
              buf |-> AtLeast(r.n["buf"], IF p = "reg_mr" THEN i + 1
                                          ELSE IF p = "none" THEN QpCount ELSE 0)],
   on_id |-> r.on_id \/ QpStored(p, i)]

(* Objects whose only pointer the run overwrites; the device list is never *)
(* freed.                                                                  *)
Overwritten(r, p, i) ==
  {f \in Assigned(p) : r.ptr[f] = "live"} \cup {"dev_list"}
    \cup (IF QpStored(p, i) /\ r.n["qp"] > 0 THEN {"qp"} ELSE {})
    \cup (IF p \in {"reg_mr", "none"} /\ r.n["buf"] > 0 THEN {"mr", "buf"} ELSE {})

\* Storing into an array that was released or not yet allocated.
StoreFaults(s) ==
  CASE s = "null" -> {"null_deref"}
    [] s = "junk" -> {"null_deref", "wild_use"}
    [] OTHER      -> {}

(* Faults the run must meet: no rdma_ctx, no device to open, memset of a   *)
(* NULL buffer, no array to store into, no usable cm_id for rdma_create_qp *)
(* (or, at "bad_type", for the rdma_connect or rdma_accept that follows).  *)
(* Faults it may meet: the uninitialised channel or srq handed to          *)
(* libibverbs.                                                             *)
CreateMust(r, p, i) ==
  (IF stage = "null" \/ p \in {"find_dev", "memalign"} THEN {"null_deref"} ELSE {})
    \cup (IF Rank[p] >= Rank["bad_type"] THEN CmIdFaults ELSE {})
    \cup (IF QpStored(p, i) THEN StoreFaults(r.ptr["qp"]) ELSE {})
    \cup (IF Rank[p] > Rank["create_qp"]
          THEN StoreFaults(r.ptr["buf"]) \cup StoreFaults(r.ptr["mr"]) ELSE {})

CreateMay(r, p) ==
  IF \/ ~UseEvent /\ r.ptr["channel"] = "junk" /\ Rank[p] >= Rank["send_cq"]
     \/ ~UseSrq /\ r.ptr["srq"] = "junk" /\ Rank[p] >= Rank["create_qp"]
  THEN {"wild_use"} ELSE {}

CreateFaults(r, p, i) ==
  CreateMay(r, p) \cup (IF CreateMust(r, p, i) = {} THEN {"none"} ELSE CreateMust(r, p, i))

(* The release sequence shared by the error exit of                        *)
(* fs_rdma_create_resources and by fs_rdma_teardown, which passes over a   *)
(* NULL field.  rdma_destroy_qp needs a cm_id that has a QP; ibv_dereg_mr  *)
(* is given the array instead of an MR, which may end the process or do    *)
(* nothing.  A field that malloc left uninitialised may be NULL or not.    *)
ReleaseFaults(r) ==
  IF r.ptr["qp"] = "live" /\ IdDead THEN {"dead_id"}
  ELSE IF r.ptr["qp"] = "live" /\ ~r.on_id THEN {"no_qp"}
  ELSE (IF r.ptr["qp"] = "junk" THEN {"no_qp"} ELSE {})
         \cup (IF r.ptr["mr"] # "null" THEN {"bad_mr"} ELSE {})
         \cup (IF \E f \in {"buf", CqField, "pd"} : r.ptr[f] = "junk" THEN {"wild_release"} ELSE {})
         \cup (IF \E f \in {"buf", CqField, "pd"} : r.ptr[f] = "dead"
               THEN {"double_free"} ELSE {"none"})

\* Mutant: "rdma_ctx->pd = NULL" is missing after ibv_dealloc_pd.
ReleasedKeepsPd(r) ==
  [ptr   |-> [f \in Fields |->
                IF f = "pd" THEN IF r.ptr[f] = "null" THEN "null" ELSE "dead"
                ELSE IF f \in Arrays \cup {CqField} THEN "null" ELSE r.ptr[f]],
   n     |-> [a \in Arrays |-> 0],
   on_id |-> r.on_id /\ r.ptr["qp"] = "null"]

Released(r) ==
  [ptr   |-> [f \in Fields |-> IF f \in Arrays \cup {CqField, "pd"} THEN "null" ELSE r.ptr[f]],
   n     |-> [a \in Arrays |-> 0],
   on_id |-> r.on_id /\ r.ptr["qp"] = "null"]

\* Array entries the release sequence drops without destroying the object.
Lost(r) ==
  {a \in {"mr", "buf"} : r.n[a] > 0} \cup (IF r.n["qp"] > 1 THEN {"qp"} ELSE {})

\* The error exit also closes the device.
CreateExit(r) == [Released(r) EXCEPT !.ptr["context"] = "null"]

-----------------------------------------------------------------------------
(* fs_rdma_teardown, reached through fs_rdma_cm_handle_disconnect, in the  *)
(* loop of channel ch while handling event e.  held is the identifier      *)
(* whose event is not yet acknowledged, NoId when the loop acknowledged    *)
(* first.  r, o and c are the resources, orphans and identifier states at  *)
(* the call.  The rdma_destroy_id at its end is passed over when cm_id is  *)
(* NULL.                                                                   *)
TearDownFaults(r) ==
  CASE stage = "null"  -> {"null_deref"}
    [] IdDead          -> (ReleaseFaults(r) \ {"none"}) \cup {"dead_id"}
    [] cm_id = JunkId  -> ReleaseFaults(r) \cup {"wild_use"}
    [] OTHER           -> ReleaseFaults(r)

Resume(ch, held) == [loop EXCEPT ![ch] = IF held = NoId THEN "null" ELSE "stale"]

\* Mutant: the pointer to the destroyed identifier is kept.
DestroyIdKeepsPointer(ch, e, held, c) ==
  IF cm_id \in (unacked \cup {held}) \ {NoId}
  THEN /\ loop' = [loop EXCEPT ![ch] = e]
       /\ unacked' = unacked \cup ({held} \ {NoId})
       /\ cm' = c
       /\ UNCHANGED cm_id
  ELSE /\ loop' = Resume(ch, held)
       /\ cm' = IF cm_id \in CmIds THEN [c EXCEPT ![cm_id] = "destroyed"] ELSE c
       /\ UNCHANGED <<cm_id, unacked>>

(* rdma_destroy_id(rdma_ctx->cm_id): it waits for ever when an event of    *)
(* the identifier will not be acknowledged, be it the one being handled.   *)
DestroyId(ch, e, held, c) ==
  IF cm_id \in (unacked \cup {held}) \ {NoId}
  THEN /\ loop' = [loop EXCEPT ![ch] = e]
       /\ unacked' = unacked \cup ({held} \ {NoId})
       /\ cm' = c
       /\ UNCHANGED cm_id
  ELSE /\ loop' = Resume(ch, held)
       /\ cm' = IF cm_id \in CmIds THEN [c EXCEPT ![cm_id] = "destroyed"] ELSE c
       /\ cm_id' = NoId
       /\ UNCHANGED unacked

TearDown(ch, e, held, r, o, c) ==
  \E f \in TearDownFaults(r) :
    \/ f # "none" /\ Crash(f)
    \/ /\ f = "none"
       /\ res' = Released(r)
       /\ orphans' = o \cup Lost(r)
       /\ up' = NoId
       /\ DestroyId(ch, e, held, c)
       /\ UNCHANGED <<connected, status>>

(* Mutant: the handler goes on to rdma_connect or rdma_accept after        *)
(* fs_rdma_create_resources has failed.                                    *)
CreateFailsIgnored(ch, e, held, c) ==
  \E p \in FailPoints, i \in 0..(QpCount - 1), recv \in BOOLEAN :
    LET r == Created(res, p, i, recv)
    IN  /\ "none" \in CreateFaults(res, p, i) \cap ReleaseFaults(r)
        /\ CmIdFaults = {}
        /\ res' = CreateExit(r)
        /\ orphans' = orphans \cup Overwritten(res, p, i) \cup Lost(r)
        /\ cm' = [c EXCEPT ![cm_id] = IF @ = "route_ok" THEN "connect_sent" ELSE @]
        /\ loop' = Resume(ch, held)
        /\ UNCHANGED <<cm_id, connected, unacked, status, up>>

\* fs_rdma_create_resources fails and the handler tears the context down.
CreateFails(ch, e, held, c) ==
  \E p \in FailPoints, i \in 0..(QpCount - 1), recv \in BOOLEAN :
    \E f \in CreateFaults(res, p, i) :
      \/ f # "none" /\ Crash(f)
      \/ /\ f = "none"
         /\ LET r == Created(res, p, i, recv)
            IN  \E g \in ReleaseFaults(r) :
                  \/ g # "none" /\ Crash(g)
                  \/ /\ g = "none"
                     /\ TearDown(ch, e, held, CreateExit(r),
                                 orphans \cup Overwritten(res, p, i) \cup Lost(r), c)

\* Mutant: the unexpected event is reported but the connection is not dropped.
ConnectInitKeepsConnection(ch, id, c) ==
  /\ IF connected \/ id # cm_id
     THEN UNCHANGED <<connected, up>>
     ELSE connected' = TRUE /\ up' = id
  /\ cm' = c
  /\ loop' = Resume(ch, id)
  /\ UNCHANGED <<cm_id, unacked, status>>

(* fs_rdma_cm_handle_connect_init: an event of another identifier, or a    *)
(* context that is connected already, disconnects rdma_ctx->cm_id.         *)
ConnectInit(ch, id, c) ==
  /\ IF connected \/ id # cm_id
     THEN /\ cm' = [c EXCEPT ![cm_id] = IF @ = "established" THEN "disconnecting" ELSE @]
          /\ UNCHANGED <<connected, up>>
     ELSE /\ connected' = TRUE
          /\ up' = id
          /\ cm' = c
  /\ loop' = Resume(ch, id)
  /\ UNCHANGED <<cm_id, unacked, status>>

-----------------------------------------------------------------------------
(* The application's calls.                                                *)

Channels == {i \in CmIds : loop[i] # "none"}

(* fs_rdma_create_ctx returns, to the server or into fs_rdma_connect,      *)
(* which does not look at its result.                                      *)
Returned(caller) == IF caller = "connect" THEN "resolve" ELSE "idle"

\* The contents of a context fresh from malloc.
JunkResources ==
  [ptr |-> [f \in Fields |-> "junk"], n |-> [a \in Arrays |-> 0], on_id |-> FALSE]

(* fs_rdma_create_ctx: rdma_ctx = malloc(...).  The previous context, if   *)
(* any, is forgotten with everything it holds.                             *)
NewCtx ==
  /\ app \in {"idle", "done"}
  /\ ctxs < MaxCtx
  /\ \E caller \in Creating :
       \/ /\ app' = caller
          /\ stage' = "malloc"
          /\ cm_id' = JunkId
          /\ res' = JunkResources
          /\ connected' \in BOOLEAN
       \/ /\ app' = Returned(caller)
          /\ stage' = "null"
          /\ cm_id' = NoId
          /\ res' = NoResources
          /\ connected' = FALSE
  /\ ctxs' = ctxs + 1
  /\ cm_channel' = NoId
  /\ orphans' = orphans \cup {f \in Fields : res.ptr[f] = "live"}
  /\ up' = NoId
  /\ UNCHANGED <<cm, loop, status>>

\* rdma_create_event_channel.
NewChannel ==
  /\ stage = "malloc"
  /\ \/ stage' = "channel" /\ UNCHANGED app
     \/ app' = Returned(app) /\ UNCHANGED stage
  /\ UNCHANGED <<ctxs, cm_channel, cm_id, res, connected, cm, loop, status, orphans, up>>

\* rdma_create_id.
NewId ==
  /\ stage = "channel"
  /\ \/ /\ \E id \in CmIds :
             /\ cm[id] = "unused"
             /\ cm' = [cm EXCEPT ![id] = "idle"]
             /\ cm_id' = id
             /\ cm_channel' = id
        /\ stage' = "id"
        /\ UNCHANGED app
     \/ app' = Returned(app) /\ UNCHANGED <<stage, cm, cm_id, cm_channel>>
  /\ UNCHANGED <<ctxs, res, connected, loop, status, orphans, up>>

(* The three uses of ALLOCATE, which exits when it fails.  With the last   *)
(* one the context is ready, and the event loop of its channel can run.    *)
Allocate(array, from, to) ==
  /\ stage = from
  /\ \/ Crash("exited") /\ UNCHANGED appVars
     \/ /\ res' = [res EXCEPT !.ptr[array] = "live"]
        /\ stage' = to
        /\ app' = IF to = "ready" THEN Returned(app) ELSE app
        /\ loop' = IF to = "ready" THEN [loop EXCEPT ![cm_channel] = "null"] ELSE loop
        /\ UNCHANGED <<ctxs, cm_channel, cm_id, connected, cm, status, orphans, up>>

(* fs_rdma_create_ctx, a step at a time.                                   *)
FsRdmaCreateCtx ==
  /\ status = "up"
  /\ \/ NewCtx
     \/ /\ app \in Creating
        /\ \/ NewChannel
           \/ NewId
           \/ Allocate("qp", "id", "qp")
           \/ Allocate("mr", "qp", "mr")
           \/ Allocate("buf", "mr", "ready")
  /\ UNCHANGED <<chan, unacked>>

(* The rest of fs_rdma_connect, which also ignores the result of           *)
(* getaddrinfo: when it fails, an uninitialised pointer is used.           *)
(* rdma_resolve_addr may fail.                                             *)
FsRdmaConnect ==
  /\ status = "up"
  /\ app = "resolve"
  /\ \/ \E f \in CmIdFaults \cup {"wild_use"} : Crash(f) /\ UNCHANGED app
     \/ /\ CmIdFaults = {}
        /\ \E s \in {"addr_query", "idle"} : cm' = [cm EXCEPT ![cm_id] = s]
        /\ app' = "idle"
        /\ UNCHANGED <<cm_id, res, connected, loop, unacked, status, orphans, up>>
  /\ UNCHANGED <<stage, ctxs, cm_channel, chan>>

(* fs_rdma_listen, called on a context that was made completely; when      *)
(* getaddrinfo, bind or listen fails nothing changes.                      *)
FsRdmaListen ==
  /\ status = "up"
  /\ app = "idle"
  /\ stage = "ready"
  /\ \/ \E f \in CmIdFaults : Crash(f)
     \/ /\ CmIdFaults = {}
        /\ cm[cm_id] = "idle"
        /\ cm' = [cm EXCEPT ![cm_id] = "listening"]
        /\ UNCHANGED <<cm_id, res, connected, loop, unacked, status, orphans, up>>
  /\ UNCHANGED <<appVars, chan>>

(* fs_rdma_destroy_ctx, called once per context.  Its first call destroys  *)
(* rdma_ctx's cm_id without looking whether the teardown has set it to     *)
(* NULL, waits like any rdma_destroy_id, and leaves the pointer as it is.  *)
DestroyCtxId ==
  /\ app = "idle"
  /\ stage = "ready"
  /\ \/ \E f \in CmIdFaults : Crash(f) /\ UNCHANGED app
     \/ /\ CmIdFaults = {}
        /\ cm_id \notin unacked
        /\ cm' = [cm EXCEPT ![cm_id] = "destroyed"]
        /\ app' = "destroy"
        /\ UNCHANGED <<cm_id, res, connected, loop, unacked, status, orphans, up>>

(* Its second call closes the event channel; until then the event loop     *)
(* goes on with the events of the channel's other identifiers.             *)
DestroyCtxChannel ==
  /\ app = "destroy"
  /\ loop' = [loop EXCEPT ![cm_channel] = IF @ \in Waiting THEN "closed" ELSE @]
  /\ app' = "done"
  /\ UNCHANGED <<cm_id, res, connected, cm, unacked, status, orphans, up>>

FsRdmaDestroyCtx ==
  /\ status = "up"
  /\ DestroyCtxId \/ DestroyCtxChannel
  /\ UNCHANGED <<stage, ctxs, cm_channel, chan>>

-----------------------------------------------------------------------------
(* fs_rdma_cm_event_handler: one action per case of its switch.            *)

\* Mutant: rdma_resolve_route is not called.
HandleAddrResolvedNoRoute(id) ==
  /\ GetCmEvent(id, "ADDR_RESOLVED", "addr_ok")
  /\ cm' = [cm EXCEPT ![id] = "addr_ok"]
  /\ loop' = Resume(chan[id], id)
  /\ UNCHANGED <<appVars, cm_id, res, connected, chan, unacked, status, orphans, up>>

\* RDMA_CM_EVENT_ADDR_RESOLVED: rdma_resolve_route on the event's identifier.
HandleAddrResolved(id) ==
  /\ GetCmEvent(id, "ADDR_RESOLVED", "addr_ok")
  /\ \/ /\ cm' = [cm EXCEPT ![id] = "route_query"]
        /\ loop' = Resume(chan[id], id)
        /\ UNCHANGED <<cm_id, res, connected, unacked, status, orphans, up>>
     \/ TearDown(chan[id], "ADDR_RESOLVED", id, res, orphans, [cm EXCEPT ![id] = "addr_ok"])
  /\ UNCHANGED <<appVars, chan>>

(* RDMA_CM_EVENT_ROUTE_RESOLVED: the resources are created and             *)
(* rdma_connect is called for rdma_ctx->cm_id, whatever identifier the     *)
(* event is about; librdmacm refuses an identifier without a route.        *)
HandleRouteResolved(id) ==
  /\ GetCmEvent(id, "ROUTE_RESOLVED", "route_ok")
  /\ LET c == [cm EXCEPT ![id] = "route_ok"]
     IN  \/ CreateFails(chan[id], "ROUTE_RESOLVED", id, c)
         \/ \E recv \in BOOLEAN, f \in CreateFaults(res, Done, 0) :
              \/ f # "none" /\ Crash(f)
              \/ /\ f = "none"
                 /\ LET r == Created(res, Done, 0, recv)
                        o == orphans \cup Overwritten(res, Done, 0)
                    IN  \/ TearDown(chan[id], "ROUTE_RESOLVED", id, r, o, c)
                        \/ /\ c[cm_id] = "route_ok"
                           /\ cm' = [c EXCEPT ![cm_id] = "connect_sent"]
                           /\ res' = r
                           /\ orphans' = o
                           /\ loop' = Resume(chan[id], id)
                           /\ UNCHANGED <<cm_id, connected, unacked, status, up>>
  /\ UNCHANGED <<appVars, chan>>

(* RDMA_CM_EVENT_CONNECT_REQUEST on listener l announcing identifier new:  *)
(* rdma_accept is called for rdma_ctx->cm_id, the listener, not for new;   *)
(* the source does not say whether librdmacm accepts that, so both results *)
(* are possible.  The unacknowledged event counts for the listener.        *)
HandleConnectRequest(l, new) ==
  /\ status = "up"
  /\ loop[chan[l]] \in Waiting
  /\ cm[l] = "listening"
  /\ cm[new] = "unused"
  /\ chan' = [chan EXCEPT ![new] = chan[l]]
  /\ LET c == [cm EXCEPT ![new] = "requested"]
     IN  \/ CreateFails(chan[l], "CONNECT_REQUEST", l, c)
         \/ \E recv \in BOOLEAN, f \in CreateFaults(res, Done, 0) :
              \/ f # "none" /\ Crash(f)
              \/ /\ f = "none"
                 /\ LET r == Created(res, Done, 0, recv)
                        o == orphans \cup Overwritten(res, Done, 0)
                    IN  \/ TearDown(chan[l], "CONNECT_REQUEST", l, r, o, c)
                        \/ /\ ConnectInit(chan[l], new, c)
                           /\ res' = r
                           /\ orphans' = o
  /\ UNCHANGED appVars

\* RDMA_CM_EVENT_ESTABLISHED.
HandleEstablished(id) ==
  /\ GetCmEvent(id, "ESTABLISHED", "established")
  /\ \/ \E f \in CmIdFaults : Crash(f)
     \/ /\ CmIdFaults = {}
        /\ ConnectInit(chan[id], id, [cm EXCEPT ![id] = "established"])
        /\ UNCHANGED <<res, orphans>>
  /\ UNCHANGED <<appVars, chan>>

\* The error events: acknowledged first, then the context is torn down.
HandleEventError(id) ==
  /\ \E e \in ErrorEvents :
       /\ GetCmEvent(id, e, "closed")
       /\ TearDown(chan[id], e, NoId, res, orphans, [cm EXCEPT ![id] = "closed"])
  /\ UNCHANGED <<appVars, chan>>

\* Mutant: the event is acknowledged after the teardown, at the end of the loop.
HandleDisconnectedAckLast(id) ==
  /\ GetCmEvent(id, "DISCONNECTED", "timewait")
  /\ TearDown(chan[id], "DISCONNECTED", id, res, orphans, [cm EXCEPT ![id] = "timewait"])
  /\ UNCHANGED <<appVars, chan>>

\* RDMA_CM_EVENT_DISCONNECTED: acknowledged first as well.
HandleDisconnected(id) ==
  /\ GetCmEvent(id, "DISCONNECTED", "timewait")
  /\ TearDown(chan[id], "DISCONNECTED", NoId, res, orphans, [cm EXCEPT ![id] = "timewait"])
  /\ UNCHANGED <<appVars, chan>>

\* Any other event is acknowledged and ignored.
HandleUnknown(id) ==
  /\ GetCmEvent(id, "TIMEWAIT_EXIT", "closed")
  /\ cm' = [cm EXCEPT ![id] = "closed"]
  /\ loop' = Resume(chan[id], id)
  /\ UNCHANGED <<appVars, cm_id, res, connected, chan, unacked, status, orphans, up>>

(* rdma_get_cm_event fails: *event is copied before the result is tested,  *)
(* a NULL pointer at first, later the event that was acknowledged last.    *)
GetCmEventFails(ch) ==
  /\ status = "up"
  /\ \/ /\ loop[ch] \in {"null", "closed"}
        /\ Crash("null_deref")
     \/ /\ loop[ch] \in {"stale", "closed"}
        /\ Crash("wild_use")
     \/ /\ loop[ch] \in {"stale", "closed"}
        /\ loop' = [loop EXCEPT ![ch] = "ended"]
        /\ UNCHANGED <<cm_id, res, connected, cm, unacked, status, orphans, up>>
  /\ UNCHANGED <<appVars, chan>>

-----------------------------------------------------------------------------
Application ==
  \/ FsRdmaCreateCtx
  \/ FsRdmaConnect
  \/ FsRdmaListen
  \/ FsRdmaDestroyCtx

Handle(id) ==
  \/ HandleAddrResolved(id)
  \/ HandleRouteResolved(id)
  \/ HandleEstablished(id)
  \/ HandleEventError(id)
  \/ HandleDisconnected(id)
  \/ HandleUnknown(id)

Next ==
  \/ Application
  \/ \E id \in CmIds : Handle(id)
  \/ \E l, new \in CmIds : HandleConnectRequest(l, new)
  \/ \E ch \in CmIds : GetCmEventFails(ch)

Spec == Init /\ [][Next]_vars

(* The CM answers every operation the code has started: rdma_resolve_addr  *)
(* and rdma_resolve_route within TIMEOUT_IN_MS, rdma_connect after its     *)
(* retries, rdma_disconnect; and a waiting loop takes the event.  Nothing  *)
(* is assumed about when a peer disconnects or a client calls.             *)
Outstanding == {"addr_query", "route_query", "connect_sent", "disconnecting"}

Progress(id) == cm[id] \in Outstanding /\ Handle(id)

FairSpec == Spec /\ \A id \in CmIds : WF_vars(Progress(id))

-----------------------------------------------------------------------------
(* Properties.                                                             *)

\* The event loop of an earlier context runs beside the current context.
Overlap == \E ch \in CmIds \ {cm_channel} : loop[ch] \in Waiting

(* The clean-up code never releases a completion queue, a protection       *)
(* domain or an array that it has released before or that was never        *)
(* assigned, although the error exit of fs_rdma_create_resources and the   *)
(* fs_rdma_teardown that follows it release the same fields of a context   *)
(* malloc left uninitialised, and although a second event may tear the     *)
(* same context down again.  The exception is an application that calls    *)
(* fs_rdma_create_ctx while the event loop of an earlier context runs:     *)
(* then that loop can meet rdma_ctx half made.                             *)
CleanupTouchesOwned == status \in {"double_free", "wild_release"} => Overlap

(* As long as the application has created one context and has not called   *)
(* fs_rdma_destroy_ctx, no handler hands librdmacm an identifier that is   *)
(* destroyed, even when events of other connections arrive after a         *)
(* teardown.                                                               *)
DestroyedIdUnused == status = "dead_id" => ctxs > 1 \/ app \in {"destroy", "done"}

(* The event loop acknowledges error and disconnect events before it tears *)
(* down, so that rdma_destroy_id does not wait for the loop's own event:   *)
(* a loop that hangs on such an event hangs because another one hangs in a *)
(* handler that tears down before its event is acknowledged.               *)
HangRoot ==
  \A ch \in CmIds : loop[ch] \in AckedFirst =>
    \E root \in CmIds : loop[root] \in HandledFirst \ {"ESTABLISHED"}

(* While connected is set by an ESTABLISHED event, the context has all the *)
(* resources that fs_rdma_create_resources makes and tests for (recv_cq is *)
(* not tested): no failing run of it, on behalf of whichever event, leaves *)
(* a connected context with released or missing queue pairs and buffers.   *)
(* With an unknown connection type the queue pairs and buffers are never   *)
(* made.                                                                   *)
ConnectedHasResources ==
  up # NoId =>
    /\ cm_id = up
    /\ cm[up] \in {"established", "disconnecting", "destroyed"}
    /\ connected
    /\ \A f \in {"context", "pd", "send_cq"} : res.ptr[f] = "live"
    /\ TypeKnown => /\ res.on_id
                    /\ \A a \in Arrays : res.ptr[a] = "live" /\ res.n[a] = QpCount

(* The connection of the current context is either being served, with      *)
(* connected set on its behalf, or being disconnected: it never stays      *)
(* established behind a connected flag that means something else, such as  *)
(* the value malloc left there.                                            *)
EstablishedIsServed ==
  (cm_id \in CmIds /\ cm[cm_id] = "established") => up = cm_id

(* The queue pair as the users of the context see it.  It is gone once the *)
(* clean-up has dropped the qp array.                                      *)
QpState ==
  IF res.on_id THEN "alive"
  ELSE IF stage \in Allocated /\ res.ptr["qp"] = "null" THEN "destroyed"
  ELSE "none"

Life == INSTANCE QueuePairLife WITH ctx <- ctxs, qp <- QpState

(* The context keeps the promise its users rely on, through every failure  *)
(* of fs_rdma_create_resources, every late event and every replacement of  *)
(* the context: connected is only set over an existing queue pair, and no  *)
(* event brings a queue pair back that a teardown has destroyed.           *)
ImplementsLife == Life!Spec

(* A client's connection attempt comes to an end: it is connected, or      *)
(* closed, or the process or the loop that would drive it is gone.         *)
Settled(id) ==
  \/ up = id
  \/ cm[id] \in {"closed", "timewait", "destroyed"}
  \/ status # "up"
  \/ loop[chan[id]] \notin Waiting

ConnectSettles == \A id \in CmIds : cm[id] = "addr_query" ~> Settled(id)

(* Comment at the QP creation of fs_rdma_create_resources: without a       *)
(* shared receive queue rdma_ctx->srq is NULL when the QP is created.      *)
SrqNullWhenUnused == res.on_id /\ ~UseSrq => res.ptr["srq"] = "null"

(* "peer disconnected, cleaning up": once the teardown has destroyed the   *)
(* identifier nothing of the context is left alive.                        *)
CleanupComplete ==
  status = "up" /\ stage = "ready" /\ cm_id = NoId =>
    orphans = {} /\ \A f \in Fields : res.ptr[f] # "live"

(* Comment in fs_rdma_create_ctx: the cm_id is created as the identifier   *)
(* of the connection.  So handling an event of a connection that the       *)
(* application opened changes the state of no other connection.            *)
EventsStayOnTheirConnection ==
  [][\A id \in Channels : Handle(id) => \A j \in CmIds \ {id} : cm'[j] = cm[j]]_vars

=============================================================================
