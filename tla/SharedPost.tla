----------------------------- MODULE SharedPost -----------------------------
(***************************************************************************)
(* What the reference count of a post (struct fs_rdma_post_t) promises to  *)
(* those who share the post: it is freed at the moment its last owner lets *)
(* it go, not before and not later, and nobody becomes an owner of a freed *)
(* post.  RdmaReads implements this specification.                         *)
(***************************************************************************)
EXTENDS Naturals

CONSTANT Posts

VARIABLES
  owners,  \* how many owners each post has
  freed    \* the posts that are freed

Init ==
  /\ owners = [p \in Posts |-> 1]
  /\ freed = {}

\* fs_rdma_post_ref on behalf of a new owner.
Share(p) ==
  /\ owners[p] > 0
  /\ owners' = [owners EXCEPT ![p] = @ + 1]
  /\ UNCHANGED freed

\* fs_rdma_post_unref.
Drop(p) ==
  /\ owners[p] > 0
  /\ owners' = [owners EXCEPT ![p] = @ - 1]
  /\ freed' = IF owners[p] = 1 THEN freed \cup {p} ELSE freed

Next == \E p \in Posts : Share(p) \/ Drop(p)

Spec == Init /\ [][Next]_<<owners, freed>>
=============================================================================
