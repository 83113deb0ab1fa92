--------------------------- MODULE RdmaReads_proof ---------------------------
(***************************************************************************)
(* For any set of posts, any number of chunks and any number of calls the  *)
(* references that fs_rdma_do_reads takes and gives back are balanced.     *)
(***************************************************************************)
EXTENDS RdmaReads, TLAPS

(* What the balance rests on: how many references a call answers for at    *)
(* each of its steps, and that the caller holds its own while it runs.     *)
CallInv ==
  \A p \in Posts :
    /\ pc[p] \in {"idle", "ready"} => total_ref[p] = 0
    /\ pc[p] \in {"ready", "fill", "post"} => reads[p] > 0
    /\ pc[p] = "fill" => total_ref[p] < reads[p]
    /\ pc[p] = "post" => total_ref[p] = reads[p]
    /\ pc[p] # "idle" => held[p]

IInv == TypeOK /\ CallInv /\ RefBalance

USE MaxChunksAssumption, MaxCallsAssumption

(* The initial states satisfy the inductive invariant of the reference     *)
(* counting in fs_rdma_do_reads.                                           *)
LEMMA InitInv == Init => IInv
BY SMT DEF Init, IInv, TypeOK, CallInv, RefBalance, Owners, Places, Life!Init, Life!Fresh, Life!QpStates

(* Every step of fs_rdma_do_reads, of the completion handler, of the       *)
(* caller and of the event loop preserves the inductive invariant.         *)
LEMMA NextInv == IInv /\ [Next]_vars => IInv'
<1> SUFFICES ASSUME IInv, [Next]_vars PROVE IInv'
  OBVIOUS
<1> USE DEF IInv, TypeOK, CallInv, RefBalance, Owners, Places, At, Goto, Life!QpStates
<1>1. ASSUME NEW p \in Posts, DoReads(p) PROVE IInv'
  BY <1>1, SMT DEF DoReads
<1>2. ASSUME NEW p \in Posts, CheckConnected(p) PROVE IInv'
  BY <1>2, SMT DEF CheckConnected
<1>3. ASSUME NEW p \in Posts, RegisterChunk(p) PROVE IInv'
  BY <1>3, SMT DEF RegisterChunk
<1>4. ASSUME NEW p \in Posts, PostSend(p) PROVE IInv'
  <2>1. CASE qp # "alive"
    BY <1>4, <2>1, SMT DEF PostSend
  <2>2. CASE qp = "alive" /\ PostSendSucceeds(p)
    BY <1>4, <2>2, SMT DEF PostSend, PostSendSucceeds
  <2>3. CASE qp = "alive" /\ PostSendFails(p)
    BY <1>4, <2>3, SMT DEF PostSend, PostSendFails
  <2> QED
    BY <1>4, <2>1, <2>2, <2>3 DEF PostSend
<1>5. ASSUME NEW p \in Posts, Unref(p) PROVE IInv'
  BY <1>5, SMT DEF Unref
<1>6. ASSUME NEW p \in Posts, Complete(p) PROVE IInv'
  BY <1>6, SMT DEF Complete
<1>7. ASSUME NEW p \in Posts, Release(p) PROVE IInv'
  BY <1>7, SMT DEF Release
<1>8. CASE EventLoop
  <2>1. qp' \in Life!QpStates /\ connected' \in BOOLEAN
    BY <1>8 DEF EventLoop, Life!CreateQp, Life!Establish, Life!DestroyQp
  <2> QED
    BY <1>8, <2>1 DEF EventLoop
<1>9. CASE UNCHANGED vars
  BY <1>9, SMT DEF vars
<1> QED
  BY <1>1, <1>2, <1>3, <1>4, <1>5, <1>6, <1>7, <1>8, <1>9 DEF Next, CallStep

(* The variables of fs_rdma_do_reads keep their types; in particular no    *)
(* reference count becomes negative.                                       *)
THEOREM TypeCorrect == Spec => []TypeOK
<1>1. IInv => TypeOK
  BY DEF IInv
<1> QED
  BY InitInv, NextInv, <1>1, PTL DEF Spec

(* Every reference of a post is accounted for at every moment, whichever   *)
(* step of fs_rdma_do_reads fails and whenever completions arrive.         *)
THEOREM RefsBalanced == Spec => []RefBalance
<1>1. IInv => RefBalance
  BY DEF IInv
<1> QED
  BY InitInv, NextInv, <1>1, PTL DEF Spec

(* No post is freed under a running call of fs_rdma_do_reads or under a    *)
(* work request that has not completed.                                    *)
THEOREM PostsOutliveReads == Spec => []PostOutlivesReads
<1>1. IInv => PostOutlivesReads
  BY SMT DEF IInv, TypeOK, CallInv, RefBalance, Owners, PostOutlivesReads
<1> QED
  BY InitInv, NextInv, <1>1, PTL DEF Spec

(* The invariant identifies the owners of the posts with the counts kept   *)
(* in the code.                                                            *)
LEMMA OwnersCounted ==
  ASSUME IInv
  PROVE  PostOwners = refs
<1>1. \A p \in Posts : Owners(p) = refs[p]
  BY DEF IInv, RefBalance
<1>2. PostOwners = [p \in Posts |-> refs[p]]
  BY <1>1 DEF PostOwners
<1> QED
  BY <1>2, SMT DEF IInv, TypeOK

(* Every step of fs_rdma_do_reads and of its environment is a step of the  *)
(* abstract specification or leaves it unchanged: registering a chunk      *)
(* makes an owner, and the call, the completion handler and the caller let *)
(* go; handing requests over to the queue pair changes nothing.            *)
LEMMA StepShared ==
  IInv /\ IInv' /\ [Next]_vars => [Shared!Next]_<<PostOwners, FreedPosts>>
<1> SUFFICES ASSUME IInv, IInv', [Next]_vars
             PROVE  Shared!Next \/ UNCHANGED <<PostOwners, FreedPosts>>
  OBVIOUS
<1>1. PostOwners = refs /\ PostOwners' = refs'
  <2>1. \A p \in Posts : Owners(p)' = refs'[p]
    BY DEF IInv, RefBalance
  <2>2. PostOwners' = [p \in Posts |-> refs'[p]]
    BY <2>1 DEF PostOwners
  <2>3. PostOwners' = refs'
    BY <2>2, SMT DEF IInv, TypeOK
  <2> QED
    BY OwnersCounted, <2>3
<1>2. refs \in [Posts -> Nat] /\ total_ref \in [Posts -> Nat] /\ inflight \in [Posts -> Nat]
  BY SMT DEF IInv, TypeOK
<1>3. \A p \in Posts : held[p] \/ inflight[p] > 0 => refs[p] > 0
  BY <1>2, SMT DEF IInv, RefBalance, Owners
<1>4. \A p \in Posts : pc[p] # "idle" => refs[p] > 0
  BY <1>3 DEF IInv, CallInv
<1>5. ASSUME refs' = refs PROVE UNCHANGED <<PostOwners, FreedPosts>>
  BY <1>1, <1>5 DEF FreedPosts
<1>6. ASSUME NEW p \in Posts, refs[p] > 0, refs' = [refs EXCEPT ![p] = @ + 1] PROVE Shared!Share(p)
  <2>1. FreedPosts' = FreedPosts
    BY <1>2, <1>6, SMT DEF FreedPosts
  <2> QED
    BY <1>1, <1>6, <2>1 DEF Shared!Share
<1>7. ASSUME NEW p \in Posts, refs[p] > 0, refs' = [refs EXCEPT ![p] = @ - 1] PROVE Shared!Drop(p)
  <2>1. FreedPosts' = IF refs[p] = 1 THEN FreedPosts \cup {p} ELSE FreedPosts
    BY <1>2, <1>7, SMT DEF FreedPosts
  <2> QED
    BY <1>1, <1>7, <2>1 DEF Shared!Drop
<1>8. ASSUME NEW p \in Posts, DoReads(p) \/ CheckConnected(p) \/ PostSend(p) PROVE refs' = refs
  BY <1>8 DEF DoReads, CheckConnected, PostSend
<1>9. ASSUME NEW p \in Posts, RegisterChunk(p)
      PROVE  refs' = refs \/ (refs[p] > 0 /\ refs' = [refs EXCEPT ![p] = @ + 1])
  <2>1. pc[p] = "fill"
    BY <1>9 DEF RegisterChunk, At
  <2>2. refs[p] > 0
    BY <2>1, <1>4, SMT
  <2>3. refs' = refs \/ refs' = [refs EXCEPT ![p] = @ + 1]
    BY <1>9 DEF RegisterChunk
  <2> QED
    BY <2>2, <2>3
<1>10. ASSUME NEW p \in Posts, Unref(p) \/ Complete(p) \/ Release(p)
       PROVE  refs' = refs \/ (refs[p] > 0 /\ refs' = [refs EXCEPT ![p] = @ - 1])
  <2>1. CASE Unref(p)
    <3>1. pc[p] = "unref"
      BY <2>1 DEF Unref, At
    <3>2. refs[p] > 0
      BY <3>1, <1>4, SMT
    <3>3. refs' = refs \/ refs' = [refs EXCEPT ![p] = @ - 1]
      BY <2>1 DEF Unref
    <3> QED
      BY <3>2, <3>3
  <2>2. CASE Complete(p)
    BY <2>2, <1>3 DEF Complete
  <2>3. CASE Release(p)
    BY <2>3, <1>3 DEF Release
  <2> QED
    BY <1>10, <2>1, <2>2, <2>3
<1>11. CASE EventLoop \/ UNCHANGED vars
  BY <1>5, <1>11 DEF EventLoop, vars
<1> QED
  BY <1>5, <1>6, <1>7, <1>8, <1>9, <1>10, <1>11 DEF Next, CallStep, Shared!Next

(* The reference counting of fs_rdma_do_reads implements shared ownership, *)
(* for any number of posts, chunks and calls.                              *)
THEOREM SharedOwnership == Spec => ImplementsSharedPost
<1>1. Init => Shared!Init
  BY SMT DEF Init, Shared!Init, Owners, PostOwners, FreedPosts
<1> QED
  BY <1>1, InitInv, NextInv, StepShared, PTL DEF Spec, ImplementsSharedPost, Shared!Spec

=============================================================================
