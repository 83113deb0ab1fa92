------------------------------ MODULE RdmaReads ------------------------------
(***************************************************************************)
(* fs_rdma_do_reads of src/c/transport.c: one call fills a list of RDMA    *)
(* READ work requests, takes a reference on its post for each of them,     *)
(* posts the list and, when something fails, gives back the references of  *)
(* the requests that are not on their way.  Other threads run between any  *)
(* two of its steps: the completion handler, which drops the reference of  *)
(* a finished request, calls for other posts, and the event loop, which    *)
(* creates and destroys the queue pair and sets connected as QueuePairLife *)
(* says.  The posts belong to one context.                                 *)
(***************************************************************************)
EXTENDS Naturals

CONSTANTS
  Posts,      \* the posts (struct fs_rdma_post_t)
  MaxChunks,  \* bound: read chunks per call
  MaxCalls    \* bound: calls of fs_rdma_do_reads per post

ASSUME MaxChunksAssumption == MaxChunks \in Nat \ {0}
ASSUME MaxCallsAssumption  == MaxCalls \in Nat

VARIABLES
  connected,  \* priv->connected
  qp,         \* the queue pair peer->qp, see QueuePairLife
  status,     \* "up", or "no_qp" once a queue pair was used that does not exist
  refs,       \* external: reference count of each post; freed at 0
  held,       \* external: the caller still holds its own reference
  inflight,   \* external: work requests of the post not yet completed
  pc,         \* where the post's call of fs_rdma_do_reads is
  calls,      \* calls made so far
  reads,      \* post->ctx.fs_rdma_reads
  count,      \* post->ctx.count
  total_ref,  \* local: references the call answers for
  late        \* history: the call began after the teardown

vars == <<connected, qp, status, refs, held, inflight, pc, calls, reads, count, total_ref, late>>

Life == INSTANCE QueuePairLife WITH ctx <- 0

\* A post is "idle" between calls.
Places == {"idle", "ready", "fill", "post", "unref"}

TypeOK ==
  /\ connected \in BOOLEAN
  /\ qp \in Life!QpStates
  /\ status \in {"up", "no_qp"}
  /\ refs \in [Posts -> Nat]
  /\ held \in [Posts -> BOOLEAN]
  /\ inflight \in [Posts -> Nat]
  /\ pc \in [Posts -> Places]
  /\ calls \in [Posts -> 0..MaxCalls]
  /\ reads \in [Posts -> 0..MaxChunks]
  /\ count \in [Posts -> Nat]
  /\ total_ref \in [Posts -> 0..MaxChunks]
  /\ late \in [Posts -> BOOLEAN]

Init ==
  /\ Life!Init
  /\ status = "up"
  /\ refs = [p \in Posts |-> 1]
  /\ held = [p \in Posts |-> TRUE]
  /\ inflight = [p \in Posts |-> 0]
  /\ pc = [p \in Posts |-> "idle"]
  /\ calls = [p \in Posts |-> 0]
  /\ reads = [p \in Posts |-> 0]
  /\ count = [p \in Posts |-> 0]
  /\ total_ref = [p \in Posts |-> 0]
  /\ late = [p \in Posts |-> FALSE]

At(p, place)   == status = "up" /\ pc[p] = place
Goto(p, place) == pc' = [pc EXCEPT ![p] = place]

-----------------------------------------------------------------------------
(* The call is made with k read chunks.  Without any it returns -1; so it  *)
(* does, with the number of reads stored, when there is no buffer for them *)
(* or no list to keep the buffer in.                                       *)
DoReads(p) ==
  /\ At(p, "idle")
  /\ held[p]
  /\ calls[p] < MaxCalls
  /\ calls' = [calls EXCEPT ![p] = @ + 1]
  /\ late' = [late EXCEPT ![p] = qp = "destroyed"]
  /\ \/ UNCHANGED <<reads, pc>>
     \/ \E k \in 1..MaxChunks :
          /\ reads' = [reads EXCEPT ![p] = k]
          /\ pc' \in {pc, [pc EXCEPT ![p] = "ready"]}
  /\ UNCHANGED <<connected, qp, status, refs, held, inflight, count, total_ref>>

(* The connected flag is read, outside any lock; then the scatter list and *)
(* the work requests are allocated, which may fail.                        *)
CheckConnected(p) ==
  /\ At(p, "ready")
  /\ \/ Goto(p, "idle")
     \/ connected /\ Goto(p, "fill")
  /\ UNCHANGED <<connected, qp, status, refs, held, inflight, calls, reads, count, total_ref, late>>

\* Mutant: the loop does not stop at the end of the chunk list.
RegisterChunkOneMore(p) ==
  /\ At(p, "fill")
  /\ count' = [count EXCEPT ![p] = @ + 1]
  /\ refs' = [refs EXCEPT ![p] = @ + 1]
  /\ total_ref' = [total_ref EXCEPT ![p] = @ + 1]
  /\ Goto(p, IF total_ref[p] = reads[p] THEN "post" ELSE "fill")
  /\ UNCHANGED <<connected, qp, status, held, inflight, calls, reads, late>>

(* One iteration of the loop over the chunks: the next vector entry is     *)
(* taken and registered; then the work request gets its reference.         *)
RegisterChunk(p) ==
  /\ At(p, "fill")
  /\ count' = [count EXCEPT ![p] = @ + 1]
  /\ \/ /\ Goto(p, "unref")
        /\ UNCHANGED <<refs, total_ref>>
     \/ /\ refs' = [refs EXCEPT ![p] = @ + 1]
        /\ total_ref' = [total_ref EXCEPT ![p] = @ + 1]
        /\ Goto(p, IF total_ref[p] + 1 = reads[p] THEN "post" ELSE "fill")
  /\ UNCHANGED <<connected, qp, status, held, inflight, calls, reads, late>>

\* Mutant: the references of the requests before bad_wr are given back too.
PostSendFailsForgetsPosted(p) ==
  /\ \E k \in 0..(reads[p] - 1) : inflight' = [inflight EXCEPT ![p] = @ + k]
  /\ UNCHANGED total_ref
  /\ Goto(p, "unref")

\* Mutant: the references are not given back when there is no bad_wr.
PostSendFailsLeaks(p) ==
  \/ /\ UNCHANGED inflight
     /\ total_ref' = [total_ref EXCEPT ![p] = 0]
     /\ Goto(p, "idle")
  \/ \E k \in 0..(reads[p] - 1) :
       /\ inflight' = [inflight EXCEPT ![p] = @ + k]
       /\ total_ref' = [total_ref EXCEPT ![p] = @ - k]
       /\ Goto(p, "unref")

(* ibv_post_send fails: without a bad_wr nothing was posted; otherwise the *)
(* requests before bad_wr, k of them, are on their way and the call no     *)
(* longer answers for their references.                                    *)
PostSendFails(p) ==
  /\ \/ UNCHANGED <<inflight, total_ref>>
     \/ \E k \in 0..(reads[p] - 1) :
          /\ inflight' = [inflight EXCEPT ![p] = @ + k]
          /\ total_ref' = [total_ref EXCEPT ![p] = @ - k]
  /\ Goto(p, "unref")

PostSendSucceeds(p) ==
  /\ inflight' = [inflight EXCEPT ![p] = @ + reads[p]]
  /\ total_ref' = [total_ref EXCEPT ![p] = 0]
  /\ Goto(p, "idle")

PostSend(p) ==
  /\ At(p, "post")
  /\ \/ /\ qp # "alive"
        /\ status' = "no_qp"
        /\ UNCHANGED <<inflight, total_ref, pc>>
     \/ /\ qp = "alive"
        /\ PostSendSucceeds(p) \/ PostSendFails(p)
        /\ UNCHANGED status
  /\ UNCHANGED <<connected, qp, refs, held, calls, reads, count, late>>

\* Mutant: the loop condition is evaluated after the decrement.
UnrefOneTooFew(p) ==
  /\ At(p, "unref")
  /\ \/ /\ total_ref[p] > 1
        /\ refs' = [refs EXCEPT ![p] = @ - 1]
        /\ total_ref' = [total_ref EXCEPT ![p] = @ - 1]
        /\ UNCHANGED pc
     \/ /\ total_ref[p] <= 1
        /\ total_ref' = [total_ref EXCEPT ![p] = 0]
        /\ Goto(p, "idle")
        /\ UNCHANGED refs
  /\ UNCHANGED <<connected, qp, status, held, inflight, calls, reads, count, late>>

\* The loop at the exit that gives the remaining references back.
Unref(p) ==
  /\ At(p, "unref")
  /\ \/ /\ total_ref[p] > 0
        /\ refs' = [refs EXCEPT ![p] = @ - 1]
        /\ total_ref' = [total_ref EXCEPT ![p] = @ - 1]
        /\ UNCHANGED pc
     \/ /\ total_ref[p] = 0
        /\ Goto(p, "idle")
        /\ UNCHANGED <<refs, total_ref>>
  /\ UNCHANGED <<connected, qp, status, held, inflight, calls, reads, count, late>>

-----------------------------------------------------------------------------
\* External: a work request completes and its handler drops the reference.
Complete(p) ==
  /\ status = "up"
  /\ qp = "alive"
  /\ inflight[p] > 0
  /\ inflight' = [inflight EXCEPT ![p] = @ - 1]
  /\ refs' = [refs EXCEPT ![p] = @ - 1]
  /\ UNCHANGED <<connected, qp, status, held, pc, calls, reads, count, total_ref, late>>

\* External: the caller is done with the post.
Release(p) ==
  /\ At(p, "idle")
  /\ held[p]
  /\ held' = [held EXCEPT ![p] = FALSE]
  /\ refs' = [refs EXCEPT ![p] = @ - 1]
  /\ UNCHANGED <<connected, qp, status, inflight, pc, calls, reads, count, total_ref, late>>

(* The event loop: fs_rdma_create_resources, the ESTABLISHED event and     *)
(* fs_rdma_teardown, after which requests under way are never completed.   *)
EventLoop ==
  /\ status = "up"
  /\ Life!CreateQp \/ Life!Establish \/ Life!DestroyQp
  /\ UNCHANGED <<status, refs, held, inflight, pc, calls, reads, count, total_ref, late>>

CallStep(p) == CheckConnected(p) \/ RegisterChunk(p) \/ PostSend(p) \/ Unref(p)

Next ==
  \/ \E p \in Posts : DoReads(p) \/ CallStep(p) \/ Complete(p) \/ Release(p)
  \/ EventLoop

Spec == Init /\ [][Next]_vars

(* A thread inside fs_rdma_do_reads goes on, a queue pair completes what   *)
(* was posted on it, with an error if need be, and the caller drops its    *)
(* reference in the end.                                                   *)
FairSpec ==
  /\ Spec
  /\ \A p \in Posts : WF_vars(CallStep(p)) /\ WF_vars(Complete(p)) /\ WF_vars(Release(p))

-----------------------------------------------------------------------------
\* The owners of a post: the caller, the requests under way, a running call.
Owners(p) == (IF held[p] THEN 1 ELSE 0) + inflight[p] + total_ref[p]

(* Every reference of a post is accounted for: one of the caller, one for  *)
(* each work request under way, and those a running call answers for.  In  *)
(* particular a list that ibv_post_send accepted only up to bad_wr leaves  *)
(* exactly the references of the accepted requests.                        *)
RefBalance == \A p \in Posts : refs[p] = Owners(p)

PostOwners == [p \in Posts |-> Owners(p)]
FreedPosts == {p \in Posts : refs[p] = 0}

Shared == INSTANCE SharedPost WITH owners <- PostOwners, freed <- FreedPosts

(* The counting implements shared ownership: a post is freed in the very   *)
(* step in which the caller, the last request under way or the call itself *)
(* lets go of it, and no step of a call, such as handing a request over to *)
(* the queue pair, loses an owner or makes one of a freed post.            *)
ImplementsSharedPost == Shared!Spec

(* A post is not freed under a running call or under a work request whose  *)
(* completion will use it as its wr_id, whichever step of the call failed. *)
PostOutlivesReads ==
  \A p \in Posts : inflight[p] > 0 \/ pc[p] # "idle" => refs[p] > 0

(* A post for which reads were asked is freed in the end, whatever fails,  *)
(* unless a teardown destroyed the queue pair or a stale connected flag    *)
(* let a call use one that does not exist.                                 *)
PostReclaimed ==
  \A p \in Posts : pc[p] = "ready" ~> (refs[p] = 0 \/ qp = "destroyed" \/ status = "no_qp")

(* Message of fs_rdma_do_reads: "transport not connected to peer, not      *)
(* doing rdma reads".  So a call that begins when the connection is torn   *)
(* down already does not get as far as ibv_post_send.                      *)
NoReadsAfterTeardown ==
  \A p \in Posts : late[p] => pc[p] # "post"

=============================================================================
