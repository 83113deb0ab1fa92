------------------------------- MODULE CmReads -------------------------------
(***************************************************************************)
(* One context of src/c/transport.c with everything that runs on it: the   *)
(* event loop and the application's calls of CmTransport, and the calls of *)
(* fs_rdma_do_reads of RdmaReads, whose queue pair and connected flag are  *)
(* now those of the context.  A step is a step of one of the two; a fault  *)
(* in either ends the process for both.                                    *)
(*                                                                         *)
(* The calls of fs_rdma_do_reads find the context through their peer, so   *)
(* no further context is created here.                                     *)
(***************************************************************************)
EXTENDS CmTransport

CONSTANTS
  Posts,      \* the posts whose reads go through the context
  MaxChunks,  \* bound: read chunks per call
  MaxCalls    \* bound: calls of fs_rdma_do_reads per post

ASSUME ReadsAssumption == MaxChunks \in Nat \ {0} /\ MaxCalls \in Nat

VARIABLES
  post_status,  \* "up", or "no_qp" once ibv_post_send was given a queue pair that
                \*   does not exist
  refs, held, inflight, pc, calls, reads, count, total_ref, late  \* see RdmaReads

Reads == INSTANCE RdmaReads WITH qp <- QpState, status <- post_status

readVars == <<post_status, refs, held, inflight, pc, calls, reads, count, total_ref, late>>
ctxVars  == <<appVars, cm_id, res, cm, chan, loop, unacked, status, orphans, up>>
sysVars  == <<ctxVars, connected, readVars>>

-----------------------------------------------------------------------------
(* The context right after fs_rdma_create_ctx, called by a server or from  *)
(* fs_rdma_connect; the posts belong to their callers.                     *)
SysInit ==
  /\ app = "idle"
  /\ stage = "ready"
  /\ ctxs = 1
  /\ cm_id \in CmIds
  /\ cm_channel = cm_id
  /\ res = [ptr   |-> [f \in Fields |-> IF f \in Arrays THEN "live" ELSE "junk"],
            n     |-> [a \in Arrays |-> 0],
            on_id |-> FALSE]
  /\ connected \in BOOLEAN
  /\ \E s \in {"idle", "addr_query"} : cm = [i \in CmIds |-> IF i = cm_id THEN s ELSE "unused"]
  /\ chan = [i \in CmIds |-> i]
  /\ loop = [i \in CmIds |-> IF i = cm_id THEN "null" ELSE "none"]
  /\ unacked = {}
  /\ status = "up"
  /\ orphans = {}
  /\ up = NoId
  /\ Reads!Init

(* The context's own steps, between those of the readers.                  *)
ContextStep ==
  \/ FsRdmaListen
  \/ FsRdmaDestroyCtx
  \/ \E id \in CmIds : Handle(id)
  \/ \E l, new \in CmIds : HandleConnectRequest(l, new)
  \/ \E ch \in CmIds : GetCmEventFails(ch)

(* A step of a call of fs_rdma_do_reads, of a completion or of a caller.   *)
ReadStep(p) == Reads!DoReads(p) \/ Reads!CallStep(p) \/ Reads!Complete(p) \/ Reads!Release(p)

SysNext ==
  \/ post_status = "up" /\ ContextStep /\ UNCHANGED readVars
  \/ status = "up" /\ UNCHANGED ctxVars /\ \E p \in Posts : ReadStep(p)

SysSpec == SysInit /\ [][SysNext]_sysVars

-----------------------------------------------------------------------------
(* The event loop of the context is an environment as RdmaReads assumes    *)
(* it: whatever events, failures and late teardowns happen to the context, *)
(* the calls of fs_rdma_do_reads behave as RdmaReads says, so that what is *)
(* shown there about the references of posts holds in the whole program.   *)
ImplementsReads == Reads!Spec

(* While the context serves an established connection, no call of          *)
(* fs_rdma_do_reads gives ibv_post_send a queue pair that does not exist,  *)
(* although the call looked at connected some steps earlier and without a  *)
(* lock: this happens only before the connection is established, by a      *)
(* connected flag that malloc left set, or after a teardown.               *)
ServedReadsFindQp == post_status = "no_qp" => up = NoId

=============================================================================
