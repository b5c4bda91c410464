----------------------- MODULE EffectLifecycleProofs -----------------------
(***************************************************************************)
(* Proofs about EffectLifecycle, for any sets of runs, keys, workers and   *)
(* approvals and any number of leases.                                     *)
(*                                                                         *)
(* The argument: a row is claimed at most once, because no action leads    *)
(* from a claimed status back to a claimable one.  Hence as long as a      *)
(* worker has a task, the row of that task still carries the worker's name *)
(* and token (TaskIsRecorded), two workers never share a key, and what     *)
(* SIDE_EFFECTS says of the key is decided by how far that one worker got  *)
(* (HappenedOnce).  Each operation is then one step of EffectPromise or    *)
(* none.  A second invariant (GInv) is about leases and approvals: a grant *)
(* is for ever, and the row of a lease has the newest fence token.         *)
(***************************************************************************)
EXTENDS EffectLifecycle, TLAPS

----------------------------------------------------------------------------
(* Type correctness. *)

\* A change of status on the same side of the claim keeps the CHECK of the row.
LEMMA StatusChange ==
  ASSUME NEW row \in EffectRow, NEW s,
         \/ row.status \in Unclaimed /\ s \in Unclaimed
         \/ row.status \in Claimed /\ s \in Claimed
  PROVE  [row EXCEPT !.status = s] \in EffectRow
  BY DEF EffectRow, ClaimFieldsTogether, Statuses, Unclaimed, Claimed

\* The row claim() writes is a good row, whatever the row was.
LEMMA ClaimedRow ==
  ASSUME NEW row \in EffectRow, NEW w \in Workers, NEW token \in Nat \ {0}
  PROVE  [row EXCEPT !.status = "claimed", !.claim_owner = w,
                     !.claim_token = token, !.lease_expired = FALSE] \in EffectRow
<1> DEFINE new == [row EXCEPT !.status = "claimed", !.claim_owner = w,
                              !.claim_token = token, !.lease_expired = FALSE]
<1>1. /\ new.status = "claimed"
      /\ new.claim_owner = w
      /\ new.claim_token = token
  BY DEF EffectRow
<1>2. new \in [run_id : Runs \cup {None}, status : Statuses,
              claim_owner : Workers \cup {None}, claim_token : Nat,
              lease_expired : BOOLEAN, result_ref : Workers \cup {None}]
  BY DEF EffectRow, Statuses, Claimed
<1>3. ClaimFieldsTogether(new)
  BY <1>1 DEF ClaimFieldsTogether, Unclaimed
<1> QED BY <1>2, <1>3 DEF EffectRow

\* The row the settlement writes is a good row if the row was claimed.
LEMMA SettledRow ==
  ASSUME NEW row \in EffectRow, NEW w \in Workers, row.status \in Claimed
  PROVE  [row EXCEPT !.status = "succeeded", !.result_ref = w] \in EffectRow
  BY DEF EffectRow, ClaimFieldsTogether, Statuses, Unclaimed, Claimed

\* The typing of the tables, the workers and the histories is preserved by every
\* operation of the ledger, and so is the CHECK on claim_owner and claim_token
\* (spec/effect_lifecycle_test.py, DDL).
THEOREM TypeCorrect == Spec => []TypeOK
<1>1. Init => TypeOK
  <2>1. NoEffect \in EffectRow
    BY DEF NoEffect, EffectRow, ClaimFieldsTogether, Statuses, Unclaimed, Claimed
  <2>2. NoLease \in LeaseRow /\ NoApproval \in ApprovalRow /\ Idle \in Task
    BY DEF NoLease, LeaseRow, NoApproval, ApprovalRow, Idle, Task
  <2> QED BY <2>1, <2>2 DEF Init, TypeOK
<1>2. TypeOK /\ [Next]_vars => TypeOK'
  <2> SUFFICES ASSUME TypeOK, [Next]_vars PROVE TypeOK'
    OBVIOUS
  <2> USE DEF TypeOK
  <2>1. ASSUME NEW r \in Runs, NEW w \in Workers, take_run_lease(r, w) PROVE TypeOK'
    BY <2>1 DEF take_run_lease, LeaseRow
  <2>2. ASSUME NEW r \in Runs, expire_run_lease(r) PROVE TypeOK'
    BY <2>2 DEF expire_run_lease, LeaseRow
  <2>3. ASSUME NEW k \in Keys, NEW r \in Runs, intend(k, r) PROVE TypeOK'
    <3>1. [NoEffect EXCEPT !.run_id = r, !.status = "intended"] \in EffectRow
      BY DEF NoEffect, EffectRow, ClaimFieldsTogether, Statuses, Unclaimed, Claimed
    <3> QED BY <2>3, <3>1 DEF intend
  <2>4. ASSUME NEW k \in Keys, NEW a \in Approvals, NEW r \in Runs, require_approval(k, a, r)
        PROVE TypeOK'
    <3>1. Status(k) = "intended" => [effect_ledger[k] EXCEPT !.status = "awaiting_approval"]
                                      \in EffectRow
      BY StatusChange DEF Status, Unclaimed
    <3>2. [run_id |-> r, action_ref |-> k, status |-> "pending"] \in ApprovalRow
      BY DEF ApprovalRow
    <3> QED BY <2>4, <3>1, <3>2 DEF require_approval
  <2>5. ASSUME NEW a \in Approvals, NEW d \in {"approved", "denied"}, decide(a, d) PROVE TypeOK'
    <3> DEFINE key == approvals[a].action_ref
    <3>1. [approvals[a] EXCEPT !.status = d] \in ApprovalRow
      BY DEF ApprovalRow
    <3>2. key \in Keys /\ Deniable(key)
            => [effect_ledger[key] EXCEPT !.status = "denied"] \in EffectRow
      BY StatusChange DEF Deniable, Status, Unclaimed
    <3>3. effect_ledger' \in [Keys -> EffectRow]
      <4>1. CASE d = "denied" /\ Deniable(key)
        <5>1. effect_ledger' = [effect_ledger EXCEPT ![key] =
                                  [effect_ledger[key] EXCEPT !.status = "denied"]]
          BY <2>5, <4>1 DEF decide
        <5> QED BY <3>2, <4>1, <5>1
      <4>2. CASE ~(d = "denied" /\ Deniable(key))
        BY <2>5, <4>2 DEF decide
      <4> QED BY <4>1, <4>2
    <3>4. approvals' \in [Approvals -> ApprovalRow]
      BY <2>5, <3>1 DEF decide
    <3> QED BY <2>5, <3>3, <3>4 DEF decide
  <2>6. ASSUME NEW w \in Workers, NEW k \in Keys, NEW f \in 1..MaxFence, claim(w, k, f)
        PROVE TypeOK'
    <3>1. [effect_ledger[k] EXCEPT !.status = "claimed", !.claim_owner = w,
              !.claim_token = minted + 1, !.lease_expired = FALSE] \in EffectRow
      <4>1. effect_ledger[k] \in EffectRow /\ minted + 1 \in Nat \ {0}
        OBVIOUS
      <4> QED BY <4>1, ClaimedRow
    <3>2. [key |-> k, token |-> minted + 1, ran |-> FALSE] \in Task
      BY DEF Task
    <3> QED BY <2>6, <3>1, <3>2 DEF claim
  <2>7. ASSUME NEW w \in Workers, dispatch(w) PROVE TypeOK'
    <3>1. [task[w] EXCEPT !.ran = TRUE] \in Task
      BY DEF Task
    <3>2. task[w].key \in Keys => Append(SIDE_EFFECTS[task[w].key], w) \in Seq(Workers)
      OBVIOUS
    <3>3. task' \in [Workers -> Task]
      BY <2>7, <3>1 DEF dispatch
    <3>4. SIDE_EFFECTS' \in [Keys -> Seq(Workers)]
      BY <2>7, <3>2 DEF dispatch
    <3> QED BY <2>7, <3>3, <3>4 DEF dispatch
  <2>8. ASSUME NEW w \in Workers, settle(w) PROVE TypeOK'
    <3> DEFINE key == task[w].key
    <3>1. key \in Keys /\ OwnsClaim(w, key, task[w].token)
            => [effect_ledger[key] EXCEPT !.status = "succeeded", !.result_ref = w] \in EffectRow
      BY SettledRow DEF OwnsClaim, Status, Claimed
    <3>2. effect_ledger' \in [Keys -> EffectRow]
      <4>1. CASE OwnsClaim(w, key, task[w].token)
        BY <2>8, <3>1, <4>1 DEF settle
      <4>2. CASE ~OwnsClaim(w, key, task[w].token)
        BY <2>8, <4>2 DEF settle
      <4> QED BY <4>1, <4>2
    <3>3. Idle \in Task
      BY DEF Idle, Task
    <3> QED BY <2>8, <3>2, <3>3 DEF settle
  <2>9. ASSUME NEW w \in Workers, crash(w) PROVE TypeOK'
    BY <2>9 DEF crash, Task, Idle
  <2>10. ASSUME NEW k \in Keys, effect_lease_expires(k) PROVE TypeOK'
    <3>1. [effect_ledger[k] EXCEPT !.lease_expired = TRUE] \in EffectRow
      BY DEF EffectRow, ClaimFieldsTogether
    <3> QED BY <2>10, <3>1 DEF effect_lease_expires
  <2>11. CASE sweep
    <3>1. \A k \in Stuck : [effect_ledger[k] EXCEPT !.status = "indeterminate"] \in EffectRow
      BY StatusChange DEF Stuck, Status, Claimed
    <3> QED BY <2>11, <3>1 DEF sweep
  <2>12. CASE UNCHANGED vars
    BY <2>12 DEF vars
  <2> QED
    BY <2>1, <2>2, <2>3, <2>4, <2>5, <2>6, <2>7, <2>8, <2>9, <2>10, <2>11, <2>12 DEF Next
<1> QED
  BY <1>1, <1>2, PTL DEF Spec

----------------------------------------------------------------------------
(* The inductive invariant behind the safety properties. *)

\* A worker's task is the claim the ledger records, however late the worker is.
TaskIsRecorded ==
  \A w \in Workers : task[w].key # None =>
     /\ task[w].key \in Keys
     /\ Status(task[w].key) \in Claimed
     /\ effect_ledger[task[w].key].claim_owner = w
     /\ effect_ledger[task[w].key].claim_token = task[w].token
     /\ SIDE_EFFECTS[task[w].key] = IF task[w].ran THEN <<w>> ELSE <<>>

\* What happened to effect k is at most one run, by the owner of its claim.
HappenedOnce ==
  \A k \in Keys :
     /\ Status(k) \in Unclaimed => SIDE_EFFECTS[k] = <<>>
     /\ Status(k) \in Claimed =>
          SIDE_EFFECTS[k] \in {<<>>, <<effect_ledger[k].claim_owner>>}
     /\ Status(k) = "succeeded" =>
          /\ SIDE_EFFECTS[k] = <<effect_ledger[k].claim_owner>>
          /\ effect_ledger[k].result_ref = effect_ledger[k].claim_owner

IInv == TaskIsRecorded /\ HappenedOnce

\* An operation that no worker and no side effect takes part in: a row stays on its
\* side of the claim, and a claimed row keeps its owner, token and result.
QuietRow(k) ==
  \/ Status(k) \in Unclaimed /\ Status(k)' \in Unclaimed
  \/ /\ Status(k) \in Claimed /\ Status(k)' \in Claimed
     /\ Status(k)' = "succeeded" => Status(k) = "succeeded"
     /\ effect_ledger'[k].claim_owner = effect_ledger[k].claim_owner
     /\ effect_ledger'[k].claim_token = effect_ledger[k].claim_token
     /\ effect_ledger'[k].result_ref = effect_ledger[k].result_ref

Quiet == UNCHANGED <<task, SIDE_EFFECTS>> /\ \A k \in Keys : QuietRow(k)

\* The statuses split in two, so a row of the ledger is on one side or the other.
LEMMA TwoSides ==
  ASSUME TypeOK, NEW k \in Keys
  PROVE  /\ effect_ledger[k] \in EffectRow
         /\ Status(k) \in Unclaimed \/ Status(k) \in Claimed
         /\ ~(Status(k) \in Unclaimed /\ Status(k) \in Claimed)
  BY DEF TypeOK, EffectRow, Statuses, Unclaimed, Claimed, Status

\* Quiet operations preserve the invariant.
LEMMA QuietKeepsIInv == TypeOK /\ IInv /\ Quiet => IInv'
<1> SUFFICES ASSUME TypeOK, IInv, Quiet PROVE IInv'
  OBVIOUS
<1>1. TaskIsRecorded'
  <2> SUFFICES ASSUME NEW w \in Workers, task[w].key # None
               PROVE  /\ task[w].key \in Keys
                      /\ Status(task[w].key)' \in Claimed
                      /\ effect_ledger'[task[w].key].claim_owner = w
                      /\ effect_ledger'[task[w].key].claim_token = task[w].token
                      /\ SIDE_EFFECTS[task[w].key] = IF task[w].ran THEN <<w>> ELSE <<>>
    BY DEF TaskIsRecorded, Quiet, Status
  <2> DEFINE k == task[w].key
  <2>1. /\ k \in Keys
        /\ Status(k) \in Claimed
        /\ effect_ledger[k].claim_owner = w
        /\ effect_ledger[k].claim_token = task[w].token
        /\ SIDE_EFFECTS[k] = IF task[w].ran THEN <<w>> ELSE <<>>
    BY DEF IInv, TaskIsRecorded
  <2>2. QuietRow(k)
    BY <2>1 DEF Quiet
  <2>3. Status(k) \notin Unclaimed
    BY <2>1, TwoSides
  <2> QED BY <2>1, <2>2, <2>3 DEF QuietRow
<1>2. HappenedOnce'
  <2> SUFFICES ASSUME NEW k \in Keys
               PROVE  /\ Status(k)' \in Unclaimed => SIDE_EFFECTS[k] = <<>>
                      /\ Status(k)' \in Claimed =>
                           SIDE_EFFECTS[k] \in {<<>>, <<effect_ledger'[k].claim_owner>>}
                      /\ Status(k)' = "succeeded" =>
                           /\ SIDE_EFFECTS[k] = <<effect_ledger'[k].claim_owner>>
                           /\ effect_ledger'[k].result_ref = effect_ledger'[k].claim_owner
    BY DEF HappenedOnce, Quiet, Status
  <2>1. /\ Status(k) \in Unclaimed => SIDE_EFFECTS[k] = <<>>
        /\ Status(k) \in Claimed =>
             SIDE_EFFECTS[k] \in {<<>>, <<effect_ledger[k].claim_owner>>}
        /\ Status(k) = "succeeded" =>
             /\ SIDE_EFFECTS[k] = <<effect_ledger[k].claim_owner>>
             /\ effect_ledger[k].result_ref = effect_ledger[k].claim_owner
    BY DEF IInv, HappenedOnce
  <2>2. QuietRow(k)
    BY DEF Quiet
  <2>3. CASE Status(k) \in Unclaimed /\ Status(k)' \in Unclaimed
    BY <2>1, <2>3 DEF Unclaimed, Claimed
  <2>4. CASE ~(Status(k) \in Unclaimed /\ Status(k)' \in Unclaimed)
    BY <2>1, <2>2, <2>4 DEF QuietRow, Unclaimed, Claimed
  <2> QED BY <2>3, <2>4
<1> QED BY <1>1, <1>2 DEF IInv

\* Every operation but claim, dispatch, settle and crash is quiet.
LEMMA QuietSteps ==
  ASSUME TypeOK,
         \/ \E r \in Runs, w \in Workers : take_run_lease(r, w)
         \/ \E r \in Runs : expire_run_lease(r)
         \/ \E k \in Keys, r \in Runs : intend(k, r)
         \/ \E k \in Keys, a \in Approvals, r \in Runs : require_approval(k, a, r)
         \/ \E a \in Approvals, d \in {"approved", "denied"} : decide(a, d)
         \/ \E k \in Keys : effect_lease_expires(k)
         \/ sweep
         \/ UNCHANGED vars
  PROVE  Quiet
<1> USE TwoSides DEF Quiet, QuietRow, Status
<1>0. effect_ledger \in [Keys -> EffectRow]
  BY DEF TypeOK
<1>1. ASSUME UNCHANGED <<effect_ledger, task, SIDE_EFFECTS>> PROVE Quiet
  BY <1>1
<1>2. ASSUME NEW k \in Keys, NEW r \in Runs, intend(k, r) PROVE Quiet
  <2>1. [NoEffect EXCEPT !.run_id = r, !.status = "intended"].status = "intended"
    BY DEF NoEffect
  <2> QED BY <1>0, <1>2, <2>1 DEF intend, Unclaimed
<1>3. ASSUME NEW k \in Keys, NEW a \in Approvals, NEW r \in Runs, require_approval(k, a, r)
      PROVE Quiet
  <2>1. [effect_ledger[k] EXCEPT !.status = "awaiting_approval"].status = "awaiting_approval"
    BY <1>0 DEF EffectRow
  <2> QED BY <1>0, <1>3, <2>1 DEF require_approval, Unclaimed
<1>4. ASSUME NEW a \in Approvals, NEW d \in {"approved", "denied"}, decide(a, d) PROVE Quiet
  <2> DEFINE key == approvals[a].action_ref
  <2>1. key \in Keys => [effect_ledger[key] EXCEPT !.status = "denied"].status = "denied"
    BY <1>0 DEF EffectRow
  <2>2. UNCHANGED <<task, SIDE_EFFECTS>>
    BY <1>4 DEF decide
  <2>3. ASSUME NEW k \in Keys PROVE QuietRow(k)
    <3>1. CASE effect_ledger' = effect_ledger
      BY <3>1
    <3>2. CASE effect_ledger' = [effect_ledger EXCEPT ![key] =
                                   [effect_ledger[key] EXCEPT !.status = "denied"]]
               /\ Deniable(key)
      BY <1>0, <2>1, <3>2 DEF Deniable, Unclaimed
    <3> QED BY <1>4, <3>1, <3>2 DEF decide
  <2> QED BY <2>2, <2>3
<1>5. ASSUME NEW k \in Keys, effect_lease_expires(k) PROVE Quiet
  <2> DEFINE row == [effect_ledger[k] EXCEPT !.lease_expired = TRUE]
  <2>1. /\ row.status = effect_ledger[k].status
        /\ row.claim_owner = effect_ledger[k].claim_owner
        /\ row.claim_token = effect_ledger[k].claim_token
        /\ row.result_ref = effect_ledger[k].result_ref
    BY <1>0 DEF EffectRow
  <2>2. effect_ledger' = [effect_ledger EXCEPT ![k] = row]
    BY <1>5 DEF effect_lease_expires
  <2>3. UNCHANGED <<task, SIDE_EFFECTS>>
    BY <1>5 DEF effect_lease_expires
  <2> HIDE DEF row
  <2> QED BY <1>0, <2>1, <2>2, <2>3
<1>6. ASSUME sweep PROVE Quiet
  <2>1. ASSUME NEW k \in Stuck
        PROVE  LET row == [effect_ledger[k] EXCEPT !.status = "indeterminate"] IN
               /\ row.status = "indeterminate"
               /\ row.claim_owner = effect_ledger[k].claim_owner
               /\ row.claim_token = effect_ledger[k].claim_token
               /\ row.result_ref = effect_ledger[k].result_ref
    BY <1>0 DEF Stuck, EffectRow
  <2>2. \A k \in Stuck : Status(k) = "claimed"
    BY DEF Stuck
  <2>3. \A k \in Keys : effect_ledger'[k] =
           IF k \in Stuck THEN [effect_ledger[k] EXCEPT !.status = "indeterminate"]
                          ELSE effect_ledger[k]
    BY <1>6 DEF sweep
  <2>4. UNCHANGED <<task, SIDE_EFFECTS>>
    BY <1>6 DEF sweep
  <2> QED BY <2>1, <2>2, <2>3, <2>4 DEF Claimed
<1> QED
  BY <1>1, <1>2, <1>3, <1>4, <1>5, <1>6 DEF take_run_lease, expire_run_lease, vars

\* A claim finds the row unclaimed, so nobody else has a task on it and nothing has
\* happened yet.
LEMMA ClaimKeepsIInv ==
  ASSUME TypeOK, IInv, NEW w \in Workers, NEW k \in Keys, NEW f, claim(w, k, f)
  PROVE  IInv'
<1> DEFINE row == [effect_ledger[k] EXCEPT !.status = "claimed", !.claim_owner = w,
                      !.claim_token = minted + 1, !.lease_expired = FALSE]
<1> DEFINE job == [key |-> k, token |-> minted + 1, ran |-> FALSE]
<1>1. Status(k) \in Unclaimed /\ SIDE_EFFECTS[k] = <<>>
  BY DEF claim, Claimable, Unclaimed, IInv, HappenedOnce
<1>2. effect_ledger[k] \in EffectRow
  BY DEF TypeOK
<1>3. row.status = "claimed" /\ row.claim_owner = w /\ row.claim_token = minted + 1
  BY <1>2 DEF EffectRow
<1>4. /\ effect_ledger' = [effect_ledger EXCEPT ![k] = row]
      /\ task' = [task EXCEPT ![w] = job]
      /\ UNCHANGED SIDE_EFFECTS
  BY DEF claim
<1>5. job.key = k /\ job.token = minted + 1 /\ job.ran = FALSE
  OBVIOUS
<1>6. \A j \in Keys : effect_ledger'[j] = IF j = k THEN row ELSE effect_ledger[j]
  BY <1>4 DEF TypeOK
<1>7. \A v \in Workers : task'[v] = IF v = w THEN job ELSE task[v]
  BY <1>4 DEF TypeOK
<1> HIDE DEF row, job
<1>8. TaskIsRecorded'
  <2> SUFFICES ASSUME NEW v \in Workers, task'[v].key # None
               PROVE  LET j == task'[v].key IN
                      /\ j \in Keys
                      /\ effect_ledger'[j].status \in Claimed
                      /\ effect_ledger'[j].claim_owner = v
                      /\ effect_ledger'[j].claim_token = task'[v].token
                      /\ SIDE_EFFECTS'[j] = IF task'[v].ran THEN <<v>> ELSE <<>>
    BY DEF TaskIsRecorded, Status
  <2>1. CASE v = w
    BY <1>1, <1>3, <1>4, <1>5, <1>6, <1>7, <2>1 DEF Claimed
  <2>2. CASE v # w
    <3>1. task'[v] = task[v] /\ Status(task[v].key) \in Claimed /\ task[v].key \in Keys
      BY <1>7, <2>2 DEF IInv, TaskIsRecorded
    <3>2. task[v].key # k
      BY <1>1, <3>1, TwoSides
    <3> QED BY <1>4, <1>6, <3>1, <3>2 DEF IInv, TaskIsRecorded, Status
  <2> QED BY <2>1, <2>2
<1>9. HappenedOnce'
  BY <1>1, <1>3, <1>4, <1>6 DEF IInv, HappenedOnce, Status, Unclaimed, Claimed
<1> QED BY <1>8, <1>9 DEF IInv

\* The side effect runs for the first time, and its runner owns the claim.
LEMMA DispatchKeepsIInv ==
  ASSUME TypeOK, IInv, NEW w \in Workers, dispatch(w)
  PROVE  IInv'
<1> DEFINE k == task[w].key
<1> DEFINE job == [task[w] EXCEPT !.ran = TRUE]
<1>1. /\ k \in Keys /\ Status(k) \in Claimed
      /\ effect_ledger[k].claim_owner = w
      /\ effect_ledger[k].claim_token = task[w].token
      /\ SIDE_EFFECTS[k] = <<>>
  BY DEF dispatch, IInv, TaskIsRecorded
<1>2. job.key = k /\ job.token = task[w].token /\ job.ran = TRUE
  BY DEF TypeOK, Task
<1>3. task' = [task EXCEPT ![w] = job] /\ UNCHANGED effect_ledger
  BY DEF dispatch
<1>4. \A v \in Workers : task'[v] = IF v = w THEN job ELSE task[v]
  BY <1>3 DEF TypeOK
<1>5. \A j \in Keys : SIDE_EFFECTS'[j] = IF j = k THEN <<w>> ELSE SIDE_EFFECTS[j]
  <2>1. Append(SIDE_EFFECTS[k], w) = <<w>>
    BY <1>1
  <2>2. SIDE_EFFECTS' = [SIDE_EFFECTS EXCEPT ![k] = Append(SIDE_EFFECTS[k], w)]
    BY DEF dispatch
  <2> QED BY <2>1, <2>2 DEF TypeOK
<1> HIDE DEF job
<1>6. TaskIsRecorded'
  <2> SUFFICES ASSUME NEW v \in Workers, task'[v].key # None
               PROVE  LET j == task'[v].key IN
                      /\ j \in Keys
                      /\ effect_ledger[j].status \in Claimed
                      /\ effect_ledger[j].claim_owner = v
                      /\ effect_ledger[j].claim_token = task'[v].token
                      /\ SIDE_EFFECTS'[j] = IF task'[v].ran THEN <<v>> ELSE <<>>
    BY <1>3 DEF TaskIsRecorded, Status
  <2>1. CASE v = w
    BY <1>1, <1>2, <1>4, <1>5, <2>1 DEF Status
  <2>2. CASE v # w
    <3>1. task'[v] = task[v]
      BY <1>4, <2>2
    <3>2. task[v].key \in Keys /\ effect_ledger[task[v].key].claim_owner = v
      BY <3>1 DEF IInv, TaskIsRecorded
    <3>3. task[v].key # k
      BY <1>1, <2>2, <3>2
    <3> QED BY <1>5, <3>1, <3>2, <3>3 DEF IInv, TaskIsRecorded, Status
  <2> QED BY <2>1, <2>2
<1>7. HappenedOnce'
  <2> SUFFICES ASSUME NEW j \in Keys
               PROVE  /\ Status(j) \in Unclaimed => SIDE_EFFECTS'[j] = <<>>
                      /\ Status(j) \in Claimed =>
                           SIDE_EFFECTS'[j] \in {<<>>, <<effect_ledger[j].claim_owner>>}
                      /\ Status(j) = "succeeded" =>
                           /\ SIDE_EFFECTS'[j] = <<effect_ledger[j].claim_owner>>
                           /\ effect_ledger[j].result_ref = effect_ledger[j].claim_owner
    BY <1>3 DEF HappenedOnce, Status
  <2>1. CASE j = k
    <3>1. Status(k) \notin Unclaimed
      BY <1>1, TwoSides
    <3>2. Status(k) = "succeeded" => FALSE
      <4>1. Status(k) = "succeeded" => SIDE_EFFECTS[k] = <<w>>
        BY <1>1 DEF IInv, HappenedOnce
      <4>2. Len(<<w>>) = 1 /\ Len(<<>>) = 0
        OBVIOUS
      <4> QED BY <1>1, <4>1, <4>2
    <3> QED BY <1>1, <1>5, <2>1, <3>1, <3>2
  <2>2. CASE j # k
    BY <1>5, <2>2 DEF IInv, HappenedOnce
  <2> QED BY <2>1, <2>2
<1> QED BY <1>6, <1>7 DEF IInv

\* The settlement matches the row exactly when nobody has given it a verdict, and then
\* the side effect has happened.
LEMMA SettleKeepsIInv ==
  ASSUME TypeOK, IInv, NEW w \in Workers, settle(w)
  PROVE  IInv'
<1> DEFINE k == task[w].key
<1> DEFINE row == [effect_ledger[k] EXCEPT !.status = "succeeded", !.result_ref = w]
<1>1. /\ k \in Keys /\ Status(k) \in Claimed
      /\ effect_ledger[k].claim_owner = w
      /\ SIDE_EFFECTS[k] = <<w>>
  BY DEF settle, MaySettle, IInv, TaskIsRecorded
<1>2. effect_ledger[k] \in EffectRow
  BY <1>1 DEF TypeOK
<1>3. /\ row.status = "succeeded" /\ row.result_ref = w /\ row.claim_owner = w
      /\ row.claim_token = effect_ledger[k].claim_token
  BY <1>1, <1>2 DEF EffectRow
<1>4. /\ effect_ledger' = [effect_ledger EXCEPT ![k] = row] \/ effect_ledger' = effect_ledger
      /\ task' = [task EXCEPT ![w] = Idle]
      /\ UNCHANGED SIDE_EFFECTS
  BY DEF settle
<1> HIDE DEF row
<1>5. \A j \in Keys : \/ effect_ledger'[j] = effect_ledger[j]
                      \/ j = k /\ effect_ledger'[j] = row
  BY <1>4 DEF TypeOK
<1>6. \A v \in Workers : task'[v] = IF v = w THEN Idle ELSE task[v]
  BY <1>4 DEF TypeOK
<1>7. TaskIsRecorded'
  <2> SUFFICES ASSUME NEW v \in Workers, task'[v].key # None
               PROVE  LET j == task'[v].key IN
                      /\ j \in Keys
                      /\ effect_ledger'[j].status \in Claimed
                      /\ effect_ledger'[j].claim_owner = v
                      /\ effect_ledger'[j].claim_token = task'[v].token
                      /\ SIDE_EFFECTS'[j] = IF task'[v].ran THEN <<v>> ELSE <<>>
    BY DEF TaskIsRecorded, Status
  <2>1. v # w /\ task'[v] = task[v]
    BY <1>6 DEF Idle
  <2>2. task[v].key \in Keys /\ effect_ledger[task[v].key].claim_owner = v
    BY <2>1 DEF IInv, TaskIsRecorded
  <2>3. task[v].key # k
    BY <1>1, <2>1, <2>2
  <2>4. effect_ledger'[task[v].key] = effect_ledger[task[v].key]
    BY <1>5, <2>2, <2>3
  <2> QED BY <1>4, <2>1, <2>2, <2>4 DEF IInv, TaskIsRecorded, Status
<1>8. HappenedOnce'
  <2> SUFFICES ASSUME NEW j \in Keys
               PROVE  /\ Status(j)' \in Unclaimed => SIDE_EFFECTS[j] = <<>>
                      /\ Status(j)' \in Claimed =>
                           SIDE_EFFECTS[j] \in {<<>>, <<effect_ledger'[j].claim_owner>>}
                      /\ Status(j)' = "succeeded" =>
                           /\ SIDE_EFFECTS[j] = <<effect_ledger'[j].claim_owner>>
                           /\ effect_ledger'[j].result_ref = effect_ledger'[j].claim_owner
    BY <1>4 DEF HappenedOnce, Status
  <2>1. CASE effect_ledger'[j] = effect_ledger[j]
    BY <2>1 DEF IInv, HappenedOnce, Status
  <2>2. CASE j = k /\ effect_ledger'[j] = row
    BY <1>1, <1>3, <2>2 DEF Status, Unclaimed
  <2> QED BY <1>5, <2>1, <2>2
<1> QED BY <1>7, <1>8 DEF IInv

\* A dead worker has no task, and the row keeps what it knew.
LEMMA CrashKeepsIInv ==
  ASSUME TypeOK, IInv, NEW w \in Workers, crash(w)
  PROVE  IInv'
<1>1. \A v \in Workers : task'[v].key # None => task'[v] = task[v]
  BY DEF crash, Idle, TypeOK
<1>2. UNCHANGED <<effect_ledger, SIDE_EFFECTS>>
  BY DEF crash
<1>3. TaskIsRecorded'
  BY <1>1, <1>2 DEF IInv, TaskIsRecorded, Status
<1>4. HappenedOnce'
  BY <1>2 DEF IInv, HappenedOnce, Status
<1> QED BY <1>3, <1>4 DEF IInv

\* IInv is an invariant of the ledger.
THEOREM Induction == Spec => []IInv
<1>1. Init => IInv
  BY DEF Init, IInv, TaskIsRecorded, HappenedOnce, Idle, NoEffect, Status, Unclaimed, Claimed
<1>2. TypeOK /\ IInv /\ [Next]_vars => IInv'
  <2> SUFFICES ASSUME TypeOK, IInv, [Next]_vars PROVE IInv'
    OBVIOUS
  <2>1. ASSUME NEW w \in Workers, NEW k \in Keys, NEW f \in 1..MaxFence, claim(w, k, f)
        PROVE IInv'
    BY <2>1, ClaimKeepsIInv
  <2>2. ASSUME NEW w \in Workers, dispatch(w) PROVE IInv'
    BY <2>2, DispatchKeepsIInv
  <2>3. ASSUME NEW w \in Workers, settle(w) PROVE IInv'
    BY <2>3, SettleKeepsIInv
  <2>4. ASSUME NEW w \in Workers, crash(w) PROVE IInv'
    BY <2>4, CrashKeepsIInv
  <2>5. ASSUME Quiet PROVE IInv'
    BY <2>5, QuietKeepsIInv
  <2> QED
    BY <2>1, <2>2, <2>3, <2>4, <2>5, QuietSteps DEF Next
<1> QED
  BY <1>1, <1>2, TypeCorrect, PTL DEF Spec

----------------------------------------------------------------------------
(* The safety properties. *)

\* What IInv says of the outside world.
LEMMA IInvImplies ==
  ASSUME TypeOK, IInv
  PROVE  AtMostOnce /\ HappenedIsRecorded /\ SucceededIsTrue
<1>1. ASSUME NEW k \in Keys PROVE Len(SIDE_EFFECTS[k]) <= 1
  <2>1. SIDE_EFFECTS[k] = <<>> \/ SIDE_EFFECTS[k] = <<effect_ledger[k].claim_owner>>
    BY TwoSides DEF IInv, HappenedOnce
  <2>2. \A o : Len(<<o>>) = 1
    OBVIOUS
  <2>3. CASE SIDE_EFFECTS[k] = <<>>
    BY <2>3
  <2>4. CASE SIDE_EFFECTS[k] = <<effect_ledger[k].claim_owner>>
    <3>1. Len(SIDE_EFFECTS[k]) = 1
      BY <2>2, <2>4, Zenon
    <3> QED BY <3>1
  <2> QED BY <2>1, <2>3, <2>4
<1>2. HappenedIsRecorded
  BY TwoSides DEF IInv, HappenedOnce, HappenedIsRecorded
<1>3. SucceededIsTrue
  BY DEF IInv, HappenedOnce, SucceededIsTrue
<1> QED BY <1>1, <1>2, <1>3 DEF AtMostOnce

\* I3: for any number of workers, leases and approvals, no side effect runs twice.
THEOREM SideEffectsHappenOnce == Spec => []AtMostOnce
  BY TypeCorrect, Induction, IInvImplies, PTL

\* A side effect that happened is on record as claimed, succeeded or indeterminate.
THEOREM LedgerNeverUnderReports == Spec => []HappenedIsRecorded
  BY TypeCorrect, Induction, IInvImplies, PTL

\* A succeeded row names the one worker that ran the side effect.
THEOREM LedgerNeverOverReports == Spec => []SucceededIsTrue
  BY TypeCorrect, Induction, IInvImplies, PTL

----------------------------------------------------------------------------
(* Leases, approvals and the effects they are for. *)

\* The fence tokens of a run are numbered as they are granted, and the row has the last.
LeasesAreNumbered == \A r \in Runs : run_leases[r].fence_token = Len(granted[r])

\* An effect belongs to a run, and one that was put to a human does not go back.
EffectsHaveARun == \A k \in Keys : Status(k) # "absent" => RunOf(k) \in Runs
AskedIsGated    == \A k \in asked : Status(k) \notin {"absent", "intended"}

GInv == LeasesAreNumbered /\ EffectsHaveARun /\ AskedIsGated /\ GatedIsApproved

\* A grant is for ever, and so is the run of an effect.
GrantsStand == \A a \in Approvals : approvals[a].status = "approved" => approvals'[a] = approvals[a]
KeepsItsRun(k) == Status(k) # "absent" => RunOf(k)' = RunOf(k)

\* What an operation does to row k when it is not a claim of k: the row stays on its side
\* of the claim, has a run once it is there, and does not go back to be intended again.
GoesOn(k) == /\ KeepsItsRun(k)
             /\ Status(k)' \in Claimed => Status(k) \in Claimed
             /\ Status(k) = "absent" => Status(k)' = "absent" \/ RunOf(k)' \in Runs
             /\ Status(k)' = "absent" => Status(k) = "absent"
             /\ Status(k)' = "intended" => Status(k) \in {"absent", "intended"}

LEMMA GoesOnKeepsApproved ==
  ASSUME TypeOK, NEW k \in Keys, GrantsStand, KeepsItsRun(k), Status(k) # "absent", Approved(k)
  PROVE  Approved(k)'
BY DEF GrantsStand, KeepsItsRun, Approved

\* Every operation but the claim.
LEMMA OthersGoOn ==
  ASSUME TypeOK,
         \/ \E r \in Runs, w \in Workers : take_run_lease(r, w)
         \/ \E r \in Runs : expire_run_lease(r)
         \/ \E k \in Keys, r \in Runs : intend(k, r)
         \/ \E k \in Keys, a \in Approvals, r \in Runs : require_approval(k, a, r)
         \/ \E a \in Approvals, d \in {"approved", "denied"} : decide(a, d)
         \/ \E w \in Workers : dispatch(w) \/ settle(w) \/ crash(w)
         \/ \E k \in Keys : effect_lease_expires(k)
         \/ sweep
         \/ UNCHANGED vars
  PROVE  GrantsStand /\ \A k \in Keys : GoesOn(k)
<1> USE TwoSides DEF GoesOn, KeepsItsRun, GrantsStand, Status, RunOf
<1>0. effect_ledger \in [Keys -> EffectRow] /\ approvals \in [Approvals -> ApprovalRow]
  BY DEF TypeOK
<1>1. ASSUME UNCHANGED <<effect_ledger, approvals>> PROVE GrantsStand /\ \A k \in Keys : GoesOn(k)
  BY <1>1
<1>2. ASSUME NEW k \in Keys, NEW r \in Runs, intend(k, r)
      PROVE  GrantsStand /\ \A j \in Keys : GoesOn(j)
  <2> DEFINE row == [NoEffect EXCEPT !.run_id = r, !.status = "intended"]
  <2>1. row.status = "intended" /\ row.run_id = r
    BY DEF NoEffect
  <2> HIDE DEF row
  <2>2. effect_ledger' = [effect_ledger EXCEPT ![k] = row]
    BY <1>2 DEF intend, row
  <2> QED BY <1>0, <1>2, <2>1, <2>2 DEF intend, Claimed
<1>3. ASSUME NEW k \in Keys, NEW a \in Approvals, NEW r \in Runs, require_approval(k, a, r)
      PROVE  GrantsStand /\ \A j \in Keys : GoesOn(j)
  <2> DEFINE row == [effect_ledger[k] EXCEPT !.status = "awaiting_approval"]
  <2>1. row.status = "awaiting_approval" /\ row.run_id = effect_ledger[k].run_id
    BY <1>0 DEF EffectRow
  <2>2. \/ effect_ledger' = effect_ledger
        \/ Status(k) = "intended" /\ effect_ledger' = [effect_ledger EXCEPT ![k] = row]
    BY <1>3 DEF require_approval
  <2> HIDE DEF row
  <2>3. \A j \in Keys : GoesOn(j)
    BY <1>0, <2>1, <2>2 DEF Claimed
  <2>4. GrantsStand
    BY <1>0, <1>3 DEF require_approval
  <2> QED BY <2>3, <2>4
<1>4. ASSUME NEW a \in Approvals, NEW d \in {"approved", "denied"}, decide(a, d)
      PROVE  GrantsStand /\ \A j \in Keys : GoesOn(j)
  <2> DEFINE key == approvals[a].action_ref
             row == [effect_ledger[key] EXCEPT !.status = "denied"]
  <2>1. key \in Keys => row.status = "denied" /\ row.run_id = effect_ledger[key].run_id
    BY <1>0 DEF EffectRow
  <2>2. \/ effect_ledger' = effect_ledger
        \/ Status(key) = "awaiting_approval" /\ effect_ledger' = [effect_ledger EXCEPT ![key] = row]
    BY <1>4 DEF decide, Deniable
  <2>3. GrantsStand
    BY <1>0, <1>4 DEF decide
  <2> HIDE DEF row, key
  <2>4. \A j \in Keys : GoesOn(j)
    BY <1>0, <2>1, <2>2 DEF Claimed
  <2> QED BY <2>3, <2>4
<1>5. ASSUME NEW w \in Workers, settle(w)
      PROVE  GrantsStand /\ \A j \in Keys : GoesOn(j)
  <2> DEFINE key == task[w].key
             row == [effect_ledger[key] EXCEPT !.status = "succeeded", !.result_ref = w]
  <2>1. key \in Keys => row.status = "succeeded" /\ row.run_id = effect_ledger[key].run_id
    BY <1>0 DEF EffectRow
  <2>2. \/ effect_ledger' = effect_ledger
        \/ Status(key) = "claimed" /\ effect_ledger' = [effect_ledger EXCEPT ![key] = row]
    BY <1>5 DEF settle, OwnsClaim
  <2>3. approvals' = approvals
    BY <1>5 DEF settle
  <2> HIDE DEF row, key
  <2> QED BY <1>0, <2>1, <2>2, <2>3 DEF Claimed
<1>6. ASSUME NEW k \in Keys, effect_lease_expires(k)
      PROVE  GrantsStand /\ \A j \in Keys : GoesOn(j)
  <2> DEFINE row == [effect_ledger[k] EXCEPT !.lease_expired = TRUE]
  <2>1. row.status = effect_ledger[k].status /\ row.run_id = effect_ledger[k].run_id
    BY <1>0 DEF EffectRow
  <2>2. effect_ledger' = [effect_ledger EXCEPT ![k] = row] /\ approvals' = approvals
    BY <1>6 DEF effect_lease_expires
  <2> HIDE DEF row
  <2> QED BY <1>0, <2>1, <2>2
<1>7. ASSUME sweep PROVE GrantsStand /\ \A k \in Keys : GoesOn(k)
  <2>1. ASSUME NEW k \in Keys
        PROVE  LET row == [effect_ledger[k] EXCEPT !.status = "indeterminate"] IN
               row.status = "indeterminate" /\ row.run_id = effect_ledger[k].run_id
    BY <1>0 DEF EffectRow
  <2>2. \A k \in Stuck : Status(k) = "claimed"
    BY DEF Stuck
  <2>3. \A k \in Keys : effect_ledger'[k] =
           IF k \in Stuck THEN [effect_ledger[k] EXCEPT !.status = "indeterminate"]
                          ELSE effect_ledger[k]
    BY <1>7 DEF sweep
  <2>4. approvals' = approvals
    BY <1>7 DEF sweep
  <2> QED BY <2>1, <2>2, <2>3, <2>4 DEF Claimed
<1> QED
  BY <1>1, <1>2, <1>3, <1>4, <1>5, <1>6, <1>7
  DEF take_run_lease, expire_run_lease, dispatch, crash, vars

\* The claim of a gated effect reads the grant in the same UPDATE.
LEMMA ClaimKeepsGInv ==
  ASSUME TypeOK, GInv, NEW w \in Workers, NEW k \in Keys, NEW f, claim(w, k, f)
  PROVE  GInv'
<1> DEFINE row == [effect_ledger[k] EXCEPT !.status = "claimed", !.claim_owner = w,
                      !.claim_token = minted + 1, !.lease_expired = FALSE]
<1>1. row.status = "claimed" /\ row.run_id = RunOf(k)
  BY TwoSides DEF EffectRow, RunOf
<1>2. /\ effect_ledger' = [effect_ledger EXCEPT ![k] = row]
      /\ UNCHANGED <<approvals, run_leases, granted, asked>>
      /\ Status(k) # "absent" /\ (Status(k) = "intended" \/ Approved(k))
  BY DEF claim, Claimable
<1> HIDE DEF row
<1>3. /\ Status(k)' = "claimed" /\ RunOf(k)' = RunOf(k)
      /\ \A j \in Keys \ {k} : Status(j)' = Status(j) /\ RunOf(j)' = RunOf(j)
  BY <1>1, <1>2 DEF TypeOK, Status, RunOf
<1>4. \A j \in Keys : Approved(j) => Approved(j)'
  BY <1>2, <1>3 DEF Approved
<1>5. LeasesAreNumbered' /\ EffectsHaveARun' /\ AskedIsGated'
  BY <1>2, <1>3 DEF GInv, LeasesAreNumbered, EffectsHaveARun, AskedIsGated, TypeOK
<1>6. GatedIsApproved'
  BY <1>2, <1>3, <1>4 DEF GInv, AskedIsGated, GatedIsApproved, TypeOK
<1> QED BY <1>5, <1>6 DEF GInv

\* Only an effect that is put to a human now is new among the asked.
LEMMA AskedGrows ==
  ASSUME TypeOK, [Next]_vars
  PROVE  \A k \in asked' : k \in asked \/ Status(k)' = "awaiting_approval"
<1>1. ASSUME NEW k \in Keys, NEW a \in Approvals, NEW r \in Runs, require_approval(k, a, r),
             Status(k) = "intended"
      PROVE  Status(k)' = "awaiting_approval"
  <2>1. [effect_ledger[k] EXCEPT !.status = "awaiting_approval"].status = "awaiting_approval"
    BY TwoSides DEF EffectRow
  <2>2. effect_ledger' = [effect_ledger EXCEPT ![k] =
                            [effect_ledger[k] EXCEPT !.status = "awaiting_approval"]]
    BY <1>1 DEF require_approval
  <2> QED BY <2>1, <2>2 DEF TypeOK, Status
<1>2. ASSUME NEW k \in Keys, NEW a \in Approvals, NEW r \in Runs, require_approval(k, a, r)
      PROVE  \/ asked' = asked
             \/ asked' = asked \cup {k} /\ Status(k) = "intended"
  BY <1>2 DEF require_approval
<1>3. ASSUME asked' # asked
      PROVE  \E k \in Keys, a \in Approvals, r \in Runs : require_approval(k, a, r)
  BY <1>3 DEF Next, vars, take_run_lease, expire_run_lease, intend, decide, claim, dispatch,
              settle, crash, effect_lease_expires, sweep
<1> QED BY <1>1, <1>2, <1>3

\* The row of a lease and the list of the granted ones change together.
LEMMA LeasesStayNumbered ==
  ASSUME TypeOK, LeasesAreNumbered, [Next]_vars
  PROVE  LeasesAreNumbered'
<1>1. ASSUME NEW r \in Runs, NEW w \in Workers, take_run_lease(r, w) PROVE LeasesAreNumbered'
  <2> DEFINE row == [holder |-> w, fence_token |-> Len(granted[r]) + 1, expired |-> FALSE]
  <2>1. /\ run_leases' = [run_leases EXCEPT ![r] = row]
        /\ granted' = [granted EXCEPT ![r] = Append(granted[r], w)]
    BY <1>1 DEF take_run_lease
  <2>2. Len(Append(granted[r], w)) = row.fence_token
    BY DEF TypeOK
  <2> HIDE DEF row
  <2> QED BY <2>1, <2>2 DEF TypeOK, LeasesAreNumbered
<1>2. ASSUME NEW r \in Runs, expire_run_lease(r) PROVE LeasesAreNumbered'
  BY <1>2 DEF expire_run_lease, TypeOK, LeaseRow, LeasesAreNumbered
<1>3. CASE UNCHANGED <<run_leases, granted>>
  BY <1>3 DEF LeasesAreNumbered
<1> QED BY <1>1, <1>2, <1>3 DEF Next, vars, intend, require_approval, decide, claim, dispatch,
           settle, crash, effect_lease_expires, sweep

\* GInv is an invariant of the ledger.
LEMMA GInvHolds == Spec => []GInv
<1>1. Init => GInv
  BY DEF Init, GInv, LeasesAreNumbered, EffectsHaveARun, AskedIsGated, GatedIsApproved,
         NoLease, NoEffect, Status
<1>2. TypeOK /\ GInv /\ [Next]_vars => GInv'
  <2> SUFFICES ASSUME TypeOK, GInv, [Next]_vars PROVE GInv'
    OBVIOUS
  <2>1. ASSUME NEW w \in Workers, NEW k \in Keys, NEW f \in 1..MaxFence, claim(w, k, f)
        PROVE  GInv'
    BY <2>1, ClaimKeepsGInv
  <2>2. ASSUME GrantsStand, \A k \in Keys : GoesOn(k) PROVE GInv'
    <3>1. AskedIsGated'
      BY <2>2, AskedGrows DEF GInv, AskedIsGated, GoesOn, TypeOK
    <3>2. GatedIsApproved'
      <4> SUFFICES ASSUME NEW k \in asked', Status(k)' \in Claimed PROVE Approved(k)'
        BY DEF GatedIsApproved
      <4>1. k \in asked /\ k \in Keys
        BY AskedGrows DEF TypeOK, Claimed
      <4>2. Status(k) \in Claimed /\ KeepsItsRun(k)
        BY <2>2, <4>1 DEF GoesOn
      <4>3. Approved(k) /\ Status(k) # "absent"
        BY <4>1, <4>2 DEF GInv, GatedIsApproved, Claimed
      <4> QED BY <2>2, <4>1, <4>2, <4>3, GoesOnKeepsApproved
    <3>3. EffectsHaveARun'
      BY <2>2 DEF GInv, EffectsHaveARun, GoesOn, KeepsItsRun
    <3> QED BY <3>1, <3>2, <3>3, LeasesStayNumbered DEF GInv
  <2> QED BY <2>1, <2>2, OthersGoOn DEF Next
<1> QED BY <1>1, <1>2, TypeCorrect, PTL DEF Spec

\* An effect that was put to a human is claimed only under a grant for its own run, and
\* the grant stands (spec/effect_lifecycle_test.py, I2 and I5).
THEOREM GatedEffectsAreApproved == Spec => []GatedIsApproved
  BY GInvHolds, PTL DEF GInv

\* I6: only claim() claims, and it has compared the fence token with the row of the lease,
\* which has the newest token (spec/effect_lifecycle_test.py, I6).
THEOREM NewestLeaseAlwaysClaims == Spec => NewestLeaseClaims
<1> DEFINE Newest(k) == claimed_under'[k] # claimed_under[k] =>
                          LET r == RunOf(k) IN
                          /\ claimed_under'[k] = Len(granted[r])
                          /\ granted[r][Len(granted[r])] = effect_ledger'[k].claim_owner
                          /\ ~run_leases[r].expired
<1>1. ASSUME TypeOK, GInv, NEW w \in Workers, NEW k \in Keys, NEW f, claim(w, k, f),
             NEW j \in Keys
      PROVE  Newest(j)
  <2>1. RunOf(k) \in Runs
    BY <1>1 DEF claim, GInv, EffectsHaveARun
  <2>2. /\ run_leases[RunOf(k)].fence_token = f /\ ~run_leases[RunOf(k)].expired
        /\ granted[RunOf(k)][f] = w
        /\ claimed_under' = [claimed_under EXCEPT ![k] = f]
    BY <1>1 DEF claim, HoldsRunLease
  <2>3. f = Len(granted[RunOf(k)])
    BY <1>1, <2>1, <2>2 DEF GInv, LeasesAreNumbered
  <2>4. effect_ledger'[k].claim_owner = w
    <3> DEFINE row == [effect_ledger[k] EXCEPT !.status = "claimed", !.claim_owner = w,
                          !.claim_token = minted + 1, !.lease_expired = FALSE]
    <3>1. row.claim_owner = w /\ effect_ledger' = [effect_ledger EXCEPT ![k] = row]
      BY <1>1, TwoSides DEF claim, EffectRow
    <3> HIDE DEF row
    <3> QED BY <1>1, <3>1 DEF TypeOK
  <2>5. j # k => claimed_under'[j] = claimed_under[j]
    BY <1>1, <2>2 DEF TypeOK
  <2>6. claimed_under'[k] = f
    BY <1>1, <2>2 DEF TypeOK
  <2> QED BY <2>2, <2>3, <2>4, <2>5, <2>6
<1>2. ASSUME [Next]_vars, claimed_under' # claimed_under
      PROVE  \E w \in Workers, k \in Keys, f \in 1..MaxFence : claim(w, k, f)
  BY <1>2 DEF Next, vars, take_run_lease, expire_run_lease, intend, require_approval, decide,
              dispatch, settle, crash, effect_lease_expires, sweep
<1>3. TypeOK /\ GInv /\ [Next]_vars => [\A k \in Keys : Newest(k)]_vars
  BY <1>1, <1>2
<1> QED BY <1>3, TypeCorrect, GInvHolds, PTL DEF Spec, NewestLeaseClaims

----------------------------------------------------------------------------
(* Refinement of EffectPromise. *)

LEMMA Verdicts ==
  ASSUME NEW k \in Keys, TypeOK
  PROVE  /\ Status(k) \in {"absent", "intended", "awaiting_approval"} => VerdictOf(k) = "wanted"
         /\ Status(k) = "denied" => VerdictOf(k) = "refused"
         /\ Status(k) = "claimed" => VerdictOf(k) = "attempted"
         /\ Status(k) = "succeeded" => VerdictOf(k) = "done"
         /\ Status(k) = "indeterminate" => VerdictOf(k) = "unknown"
BY DEF VerdictOf

\* An operation on effect k leaves the rows and the side effects of the others.
OnlyTouches(k) == \A j \in Keys \ {k} : /\ effect_ledger'[j].status = effect_ledger[j].status
                                        /\ SIDE_EFFECTS'[j] = SIDE_EFFECTS[j]

LEMMA OthersStand ==
  ASSUME NEW k, OnlyTouches(k)
  PROVE  \A j \in Keys \ {k} : /\ VerdictOf(j)' = VerdictOf(j)
                               /\ Len(SIDE_EFFECTS[j])' = Len(SIDE_EFFECTS[j])
BY DEF OnlyTouches, VerdictOf, Status

\* What changes neither a verdict nor a side effect is no step of the promise.
LEMMA NoVerdict ==
  ASSUME \A j \in Keys : VerdictOf(j)' = VerdictOf(j), UNCHANGED SIDE_EFFECTS
  PROVE  UNCHANGED Promise!vars
BY DEF Promise!vars

LEMMA SameStatus ==
  ASSUME \A j \in Keys : effect_ledger'[j].status = effect_ledger[j].status, UNCHANGED SIDE_EFFECTS
  PROVE  UNCHANGED Promise!vars
<1>1. \A j \in Keys : VerdictOf(j)' = VerdictOf(j)
  BY DEF VerdictOf, Status
<1> QED BY <1>1, NoVerdict

\* Operations that come before the claim, and those that touch no effect.
LEMMA PreparingIsNoStep ==
  ASSUME TypeOK,
         \/ \E r \in Runs, w \in Workers : take_run_lease(r, w)
         \/ \E r \in Runs : expire_run_lease(r)
         \/ \E k \in Keys, r \in Runs : intend(k, r)
         \/ \E k \in Keys, a \in Approvals, r \in Runs : require_approval(k, a, r)
         \/ \E w \in Workers : crash(w)
         \/ \E k \in Keys : effect_lease_expires(k)
         \/ UNCHANGED vars
  PROVE  UNCHANGED Promise!vars
<1>0. TypeOK /\ effect_ledger \in [Keys -> EffectRow]
  BY DEF TypeOK
<1>1. ASSUME UNCHANGED <<effect_ledger, SIDE_EFFECTS>> PROVE UNCHANGED Promise!vars
  BY <1>1, SameStatus
<1>2. ASSUME NEW k \in Keys, OnlyTouches(k), UNCHANGED SIDE_EFFECTS,
             Status(k) \in {"absent", "intended"},
             Status(k)' \in {"intended", "awaiting_approval"}
      PROVE  UNCHANGED Promise!vars
  <2>1. VerdictOf(k) = "wanted" /\ VerdictOf(k)' = "wanted"
    BY <1>2 DEF VerdictOf
  <2> QED BY <1>2, <2>1, OthersStand, NoVerdict
<1>3. ASSUME NEW k \in Keys, NEW r \in Runs, intend(k, r) PROVE UNCHANGED Promise!vars
  <2> DEFINE row == [NoEffect EXCEPT !.run_id = r, !.status = "intended"]
  <2>1. row.status = "intended"
    BY DEF NoEffect
  <2>2. Status(k) = "absent" /\ effect_ledger' = [effect_ledger EXCEPT ![k] = row]
        /\ UNCHANGED SIDE_EFFECTS
    BY <1>3 DEF intend
  <2> HIDE DEF row
  <2>3. Status(k)' = "intended" /\ OnlyTouches(k)
    BY <1>0, <2>1, <2>2 DEF Status, OnlyTouches
  <2> QED BY <1>2, <2>2, <2>3
<1>4. ASSUME NEW k \in Keys, NEW a \in Approvals, NEW r \in Runs, require_approval(k, a, r)
      PROVE  UNCHANGED Promise!vars
  <2> DEFINE row == [effect_ledger[k] EXCEPT !.status = "awaiting_approval"]
  <2>1. row.status = "awaiting_approval"
    BY <1>0 DEF EffectRow
  <2>2. /\ \/ effect_ledger' = effect_ledger
           \/ Status(k) = "intended" /\ effect_ledger' = [effect_ledger EXCEPT ![k] = row]
        /\ UNCHANGED SIDE_EFFECTS
    BY <1>4 DEF require_approval
  <2> HIDE DEF row
  <2>3. ASSUME effect_ledger' # effect_ledger
        PROVE  Status(k)' = "awaiting_approval" /\ Status(k) = "intended" /\ OnlyTouches(k)
    BY <1>0, <2>1, <2>2, <2>3 DEF Status, OnlyTouches
  <2> QED BY <1>1, <1>2, <2>2, <2>3
<1>5. ASSUME NEW k \in Keys, effect_lease_expires(k) PROVE UNCHANGED Promise!vars
  <2>1. [effect_ledger[k] EXCEPT !.lease_expired = TRUE].status = effect_ledger[k].status
    BY <1>0 DEF EffectRow
  <2>2. effect_ledger' = [effect_ledger EXCEPT ![k] =
                            [effect_ledger[k] EXCEPT !.lease_expired = TRUE]]
        /\ UNCHANGED SIDE_EFFECTS
    BY <1>5 DEF effect_lease_expires
  <2> QED BY <1>0, <2>1, <2>2, SameStatus
<1> QED BY <1>1, <1>3, <1>4, <1>5 DEF take_run_lease, expire_run_lease, crash, vars

\* One effect moves from one verdict to another.
LEMMA OneVerdict ==
  ASSUME TypeOK, NEW k \in Keys, NEW row,
         effect_ledger' = [effect_ledger EXCEPT ![k] = row], UNCHANGED SIDE_EFFECTS
  PROVE  /\ Status(k) \in {"intended", "awaiting_approval"} /\ row.status = "denied"
              => Promise!Refuse(k)
         /\ Status(k) \in {"intended", "awaiting_approval"} /\ row.status = "claimed"
              => Promise!Attempt(k)
         /\ Status(k) = "claimed" /\ row.status = "succeeded" /\ Len(SIDE_EFFECTS[k]) = 1
              => Promise!Conclude(k)
<1>1. Status(k)' = row.status /\ OnlyTouches(k)
  BY DEF TypeOK, Status, OnlyTouches
<1>2. /\ Status(k) \in {"intended", "awaiting_approval"} => VerdictOf(k) = "wanted"
      /\ Status(k) = "claimed" => VerdictOf(k) = "attempted"
      /\ row.status = "denied" => VerdictOf(k)' = "refused"
      /\ row.status = "claimed" => VerdictOf(k)' = "attempted"
      /\ row.status = "succeeded" => VerdictOf(k)' = "done"
  BY <1>1 DEF VerdictOf, Status
<1>3. \A j \in Keys \ {k} : VerdictOf(j)' = VerdictOf(j)
  BY <1>1, OthersStand
<1> QED BY <1>2, <1>3 DEF Promise!Refuse, Promise!Attempt, Promise!Conclude

\* The side effect happens while the effect is attempted, or after it was written off.
LEMMA DispatchHappens ==
  ASSUME TypeOK, IInv, NEW w \in Workers, dispatch(w)
  PROVE  \E k \in Keys : Promise!Happen(k)
<1>0. PICK k \in Keys : k = task[w].key
  BY DEF dispatch, IInv, TaskIsRecorded
<1>1. /\ Status(k) \in Claimed /\ SIDE_EFFECTS[k] = <<>>
      /\ SIDE_EFFECTS' = [SIDE_EFFECTS EXCEPT ![k] = Append(SIDE_EFFECTS[k], w)]
      /\ UNCHANGED effect_ledger
  BY <1>0 DEF dispatch, IInv, TaskIsRecorded
<1>2. Status(k) # "succeeded"
  <2>1. Status(k) = "succeeded" => SIDE_EFFECTS[k] = <<effect_ledger[k].claim_owner>>
    BY <1>1 DEF IInv, HappenedOnce
  <2>2. Len(<<effect_ledger[k].claim_owner>>) = 1 /\ Len(<<>>) = 0
    OBVIOUS
  <2> QED BY <1>1, <2>1, <2>2
<1>3. VerdictOf(k) \in {"attempted", "unknown"}
  BY <1>1, <1>2, Verdicts DEF Claimed
<1>4. Len(SIDE_EFFECTS[k]) = 0 /\ Len(SIDE_EFFECTS'[k]) = 1
      /\ \A j \in Keys \ {k} : SIDE_EFFECTS'[j] = SIDE_EFFECTS[j]
  BY <1>1 DEF TypeOK
<1>5. \A j \in Keys : VerdictOf(j)' = VerdictOf(j)
  BY <1>1 DEF VerdictOf, Status
<1>6. Promise!Happen(k)
  BY <1>3, <1>4, <1>5 DEF Promise!Happen
<1> QED BY <1>6

\* The sweeper writes off the attempts whose lease has run out.
LEMMA SweepWritesOff ==
  ASSUME TypeOK, sweep
  PROVE  Promise!WriteOff(Stuck)
<1>1. \A j \in Stuck : [effect_ledger[j] EXCEPT !.status = "indeterminate"].status = "indeterminate"
  BY DEF Stuck, TypeOK, EffectRow
<1>2. \A j \in Keys : /\ j \in Stuck => Status(j) = "claimed" /\ Status(j)' = "indeterminate"
                      /\ j \notin Stuck => Status(j)' = Status(j)
  BY <1>1 DEF sweep, Stuck, Status
<1>3. \A j \in Keys : /\ j \in Stuck => VerdictOf(j) = "attempted" /\ VerdictOf(j)' = "unknown"
                      /\ j \notin Stuck => VerdictOf(j)' = VerdictOf(j)
  BY <1>2 DEF VerdictOf
<1>4. Stuck \subseteq Keys /\ UNCHANGED SIDE_EFFECTS
  BY DEF Stuck, sweep
<1> QED BY <1>3, <1>4 DEF Promise!WriteOff

\* A denial, a claim and a settlement, each a step of the promise or none.
LEMMA VerdictSteps ==
  ASSUME TypeOK, IInv,
         \/ \E a \in Approvals, d \in {"approved", "denied"} : decide(a, d)
         \/ \E w \in Workers, k \in Keys, f \in 1..MaxFence : claim(w, k, f)
         \/ \E w \in Workers : settle(w)
  PROVE  Promise!Next \/ UNCHANGED Promise!vars
<1>1. ASSUME NEW a \in Approvals, NEW d \in {"approved", "denied"}, decide(a, d)
      PROVE  Promise!Next \/ UNCHANGED Promise!vars
  <2> DEFINE k == approvals[a].action_ref
             row == [effect_ledger[k] EXCEPT !.status = "denied"]
  <2>1. /\ \/ effect_ledger' = effect_ledger
           \/ Deniable(k) /\ effect_ledger' = [effect_ledger EXCEPT ![k] = row]
        /\ UNCHANGED SIDE_EFFECTS
    BY <1>1 DEF decide
  <2>2. k \in Keys => row.status = "denied"
    BY DEF TypeOK, EffectRow
  <2>3. k \notin Keys => effect_ledger' = effect_ledger
    BY <2>1 DEF TypeOK
  <2> HIDE DEF k, row
  <2>4. CASE effect_ledger' = effect_ledger
    BY <2>1, <2>4, SameStatus
  <2>5. CASE effect_ledger' # effect_ledger
    BY <2>1, <2>2, <2>3, <2>5, OneVerdict DEF Deniable, Promise!Next
  <2> QED BY <2>4, <2>5
<1>2. ASSUME NEW w \in Workers, NEW k \in Keys, NEW f \in 1..MaxFence, claim(w, k, f)
      PROVE  Promise!Next
  <2> DEFINE row == [effect_ledger[k] EXCEPT !.status = "claimed", !.claim_owner = w,
                        !.claim_token = minted + 1, !.lease_expired = FALSE]
  <2>1. row.status = "claimed"
    BY DEF TypeOK, EffectRow
  <2>2. /\ Status(k) \in {"intended", "awaiting_approval"}
        /\ effect_ledger' = [effect_ledger EXCEPT ![k] = row] /\ UNCHANGED SIDE_EFFECTS
    BY <1>2 DEF claim, Claimable
  <2> HIDE DEF row
  <2> QED BY <2>1, <2>2, OneVerdict DEF Promise!Next
<1>3. ASSUME NEW w \in Workers, settle(w) PROVE Promise!Next \/ UNCHANGED Promise!vars
  <2> DEFINE k == task[w].key
             row == [effect_ledger[k] EXCEPT !.status = "succeeded", !.result_ref = w]
  <2>1. /\ \/ effect_ledger' = effect_ledger
           \/ Status(k) = "claimed" /\ effect_ledger' = [effect_ledger EXCEPT ![k] = row]
        /\ UNCHANGED SIDE_EFFECTS
    BY <1>3 DEF settle, OwnsClaim
  <2>2. k \in Keys /\ SIDE_EFFECTS[k] = <<w>>
    BY <1>3 DEF settle, MaySettle, IInv, TaskIsRecorded
  <2>3. row.status = "succeeded"
    BY <2>2 DEF TypeOK, EffectRow
  <2>4. Len(SIDE_EFFECTS[k]) = 1
    BY <2>2
  <2> HIDE DEF k, row
  <2>5. CASE effect_ledger' = effect_ledger
    BY <2>1, <2>5, SameStatus
  <2>6. CASE effect_ledger' # effect_ledger
    BY <2>1, <2>2, <2>3, <2>4, <2>6, OneVerdict DEF Promise!Next
  <2> QED BY <2>5, <2>6
<1> QED BY <1>1, <1>2, <1>3

\* The ledger implements the promise: effect by effect, every operation is one step of it
\* or none.
THEOREM LedgerKeepsPromise == Spec => KeepsPromise
<1>1. Init => Promise!Init
  <2> SUFFICES ASSUME Init PROVE Promise!Init
    OBVIOUS
  <2>1. \A k \in Keys : Status(k) = "absent" /\ Len(SIDE_EFFECTS[k]) = 0
    BY DEF Init, NoEffect, Status
  <2>2. \A k \in Keys : VerdictOf(k) = "wanted"
    BY <2>1 DEF VerdictOf
  <2> QED BY <2>1, <2>2 DEF Promise!Init
<1>2. TypeOK /\ IInv /\ [Next]_vars => [Promise!Next]_(Promise!vars)
  <2> SUFFICES ASSUME TypeOK, IInv, [Next]_vars PROVE Promise!Next \/ UNCHANGED Promise!vars
    OBVIOUS
  <2>1. ASSUME NEW w \in Workers, dispatch(w) PROVE Promise!Next
    BY <2>1, DispatchHappens DEF Promise!Next
  <2>2. CASE sweep
    <3>1. Stuck \in SUBSET Keys
      BY DEF Stuck
    <3> QED BY <2>2, <3>1, SweepWritesOff DEF Promise!Next
  <2> QED BY <2>1, <2>2, VerdictSteps, PreparingIsNoStep DEF Next
<1> QED BY <1>1, <1>2, TypeCorrect, Induction, PTL DEF Spec, KeepsPromise, Promise!Spec
=============================================================================
