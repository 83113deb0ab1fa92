---------------------------- MODULE QueuePairLife ----------------------------
(***************************************************************************)
(* What src/c/transport.c promises the users of a connection about the     *)
(* queue pair of the current context and about its connected flag:         *)
(* connected is only set over a queue pair that exists, a queue pair that  *)
(* is gone does not come back within a context, and connected is never     *)
(* reset.  CmTransport implements this specification; RdmaReads runs in an *)
(* environment that behaves like it.                                       *)
(***************************************************************************)
VARIABLES
  ctx,        \* which context is the current one
  connected,  \* rdma_ctx->connected = 1
  qp          \* the queue pair of the current context

QpStates == {"none", "alive", "destroyed"}

\* The flag is what malloc left there.
Fresh(c, q) == c \in BOOLEAN /\ q = "none"

Init == Fresh(connected, qp)

\* fs_rdma_create_ctx replaces the context.
NewContext == ctx' # ctx /\ Fresh(connected', qp')

\* fs_rdma_create_resources succeeds.
CreateQp ==
  /\ qp = "none"
  /\ qp' = "alive"
  /\ UNCHANGED <<ctx, connected>>

\* fs_rdma_cm_handle_connect_init accepts an ESTABLISHED event.
Establish ==
  /\ qp = "alive"
  /\ ~connected
  /\ connected' = TRUE
  /\ UNCHANGED <<ctx, qp>>

\* A teardown, also one that follows a failing fs_rdma_create_resources.
DestroyQp ==
  /\ qp # "destroyed"
  /\ qp' = "destroyed"
  /\ UNCHANGED <<ctx, connected>>

Next == NewContext \/ CreateQp \/ Establish \/ DestroyQp

Spec == Init /\ [][Next]_<<ctx, connected, qp>>
=============================================================================
