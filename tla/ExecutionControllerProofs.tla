--------------------- MODULE ExecutionControllerProofs ---------------------
(***************************************************************************)
(* Machine-checked proofs about the execution controllers: what they       *)
(* report is so, a recovery goes on from the fence before it, the          *)
(* authority's contract is kept, and, when every controller has an owner   *)
(* of its own, a fence launches one worker.                                *)
(***************************************************************************)
EXTENDS ExecutionController, TLAPS

---------------------------------------------------------------------------
(* The inductive invariant.                                                *)

AfterLaunch == {"spawned", "monitor", "renew", "checkpoint", "terminal", "snapshot",
                "reconcile", "publish", "failing", "fail_event", "fail_reconcile"}
Holding     == {"verify", "resume", "evidence", "started", "heartbeat", "launch"} \cup AfterLaunch
Ended       == {"terminal", "snapshot", "reconcile", "publish", "failing", "fail_event",
                "fail_reconcile"}
Working     == {"spawned", "monitor", "renew", "checkpoint", "failing"}

(* The task record: fences follow the clock, and only a running task has a *)
(* lease, which is of its last fence.                                      *)
TaskOK ==
  /\ clock <= MaxClock /\ task.fence <= clock + 1
  /\ task.status = "running" => /\ 1 <= task.fence /\ task.fence <= task.lease.expires
                                /\ task.lease.fence = task.fence /\ task.lease.session = Session
                                /\ task.lease.expires <= clock + LeaseSeconds
  /\ task.status # "running" => task.lease = NoLease
  /\ task.status \in {"open", "claimed"} => task.fence = 0
  /\ task.status \in Terminal => 1 <= task.fence

(* What a receipt says of the task, now and for good.                      *)
ReceiptOK(r, t) ==
  /\ r.request.revision < t.revision
  /\ r.id[2] <= t.fence /\ r.lease.fence <= t.fence
  /\ r.id[1] = "CLAIM" => t.status # "open"
  /\ r.id[1] = "LEASE" => t.status \notin {"open", "claimed"} /\ r.lease.fence = 1
  /\ r.id[1] = "RECOVER" => r.id[2] >= 1 /\ r.lease.fence = r.id[2] + 1
  /\ r.id[1] \in {"HEARTBEAT", "MONITOR"} => r.lease.fence = r.id[2]
  /\ r.id[1] \in {"RECONCILE", "FAILURE-RECONCILE"} =>
       t.status \in Terminal /\ t.fence = r.id[2]

(* What a controller knows, with the state of its worker.                  *)
LocalOK(me, w, t, ended) ==
  /\ me.pc \in Holding => 1 <= me.lease.fence /\ me.lease.fence <= t.fence
  /\ me.pc = "recover" => /\ 1 <= me.prior /\ me.prior = me.lease.fence
                          /\ me.lease.fence <= t.fence
                          /\ me.revision <= t.revision
                          /\ me.revision = t.revision => me.lease = t.lease
  /\ me.pc \in {"claim", "lease"} => me.lease = NoLease
  /\ me.pc \in {"verify", "resume"} => me.prior = me.lease.fence - 1
  /\ me.status # "none" => me.pc \in Ended
  /\ me.status = "completed" => me.lease.fence \in ended
  /\ w # "none" => me.pc \in Working
  /\ w = "ok" => me.lease.fence \in ended
  /\ me.pc = "publish" /\ ReconcileTerminal =>
       t.status \in Terminal /\ t.fence = me.lease.fence

IInv ==
  /\ TypeOK /\ TaskOK
  /\ \A r \in operations : ReceiptOK(r, task)
  /\ \A c \in Controllers : LocalOK(ctl[c], worker[c], task, finished)
  /\ DoneByItsWorker /\ EvidenceFollowsAuthority

---------------------------------------------------------------------------
OwnersAreDistinct == \A c, d \in Controllers : OwnerOf[c] = OwnerOf[d] => c = d

Grants(r) == r.id[1] \in {"LEASE", "RECOVER"}

(* A controller has a fence, or may be answered with it.                   *)
Has(c, f) == ctl[c].pc \in Holding /\ ctl[c].lease.fence = f
MayTake(c, f) ==
  \E r \in operations :
    /\ r.lease.fence = f /\ r.request.owner = OwnerOf[c]
    /\ \/ ctl[c].pc = "lease" /\ r.id[1] = "LEASE"
       \/ ctl[c].pc = "recover" /\ r.id[1] = "RECOVER" /\ r.request.revision = ctl[c].revision
Involved(c, f) == Has(c, f) \/ MayTake(c, f)

(* The claimer that was not answered is still the claimer.                 *)
ClaimOK(c) ==
  ctl[c].pc = "claim" =>
    \A r \in operations : r.id[1] = "CLAIM" /\ r.request.owner = OwnerOf[c] =>
                            task.status = "claimed" /\ task.owner = OwnerOf[c]

(* The failure path of a controller whose lease is still the task's.       *)
FailureOK(c) ==
  ctl[c].pc \in FailureCalls /\ task.lease = ctl[c].lease => ctl[c].revision = task.revision

FailureOnce ==
  \A r \in operations, c \in Controllers :
    r.id[1] = "FAILURE-TERMINAL" /\ Involved(c, r.id[2]) => ctl[c].pc = "fail_reconcile"

GrantsDiffer ==
  \A r, s \in operations : Grants(r) /\ Grants(s) /\ r.lease.fence = s.lease.fence => r = s

OneEach ==
  \A c, d \in Controllers, f \in Fences : Involved(c, f) /\ Involved(d, f) => c = d

(* Once a worker ran under a fence, whoever has the fence is past there.   *)
LaunchedOnce ==
  \A f \in Fences :
    /\ launches[f] <= 1
    /\ task.fence < f => launches[f] = 0
    /\ launches[f] = 1 => \A c \in Controllers : Involved(c, f) => ctl[c].pc \in AfterLaunch

AloneInv ==
  /\ GrantsDiffer /\ OneEach /\ FailureOnce /\ LaunchedOnce
  /\ \A c \in Controllers : ClaimOK(c) /\ FailureOK(c)
---------------------------------------------------------------------------
(* Data.                                                                   *)

LEMMA NothingIs ==
  /\ NoLease \in Leases /\ NoLease.fence = 0
  /\ Idle \in Locals /\ Idle.pc = "idle" /\ Idle.status = "none" /\ Idle.lease = NoLease
<1>1. NoLease \in Leases /\ NoLease.fence = 0
  BY DEF NoLease, Leases, OwnersOrNone, SessionOrNone
<1>2. QED
  BY <1>1 DEF Idle, Locals, Pcs, Statuses

(* The write of each step.                                                 *)
LEMMA CallIs ==
  ASSUME NEW c \in Controllers
  PROVE
    /\ ctl[c].pc = "claim" =>
         CallOf(c) = Write("CLAIM", 0, ClaimRequest(ctl[c].revision, OwnerOf[c]), "lease")
    /\ ctl[c].pc = "lease" =>
         CallOf(c) = Write("LEASE", 0, LeaseRequest(ctl[c].revision, OwnerOf[c], Session), "evidence")
    /\ ctl[c].pc = "recover" =>
         CallOf(c) = Write("RECOVER", 0, RecoverRequest(ctl[c].revision, OwnerOf[c], Session), "verify")
    /\ ctl[c].pc = "started" =>
         CallOf(c) = Write("SESSION-STARTED", 0,
                           EventRequest(ctl[c].revision, ctl[c].lease, Session, "session_started"), "heartbeat")
    /\ ctl[c].pc = "heartbeat" =>
         CallOf(c) = Write("HEARTBEAT", 0, HeartbeatRequest(ctl[c].revision, ctl[c].lease), "launch")
    /\ ctl[c].pc = "renew" =>
         CallOf(c) = Write("MONITOR", ctl[c].beats, HeartbeatRequest(ctl[c].revision, ctl[c].lease), "checkpoint")
    /\ ctl[c].pc = "terminal" =>
         CallOf(c) = Write("SESSION-TERMINAL", 0,
                           EventRequest(ctl[c].revision, ctl[c].lease, Session, ctl[c].status), "snapshot")
    /\ ctl[c].pc = "reconcile" =>
         CallOf(c) = Write("RECONCILE", 0,
                           ReconcileRequest(ctl[c].revision, ctl[c].lease,
                             IF ctl[c].status = "completed" THEN "done" ELSE "failed"), "publish")
    /\ ctl[c].pc = "fail_event" =>
         CallOf(c) = Write("FAILURE-TERMINAL", 0,
                           EventRequest(ctl[c].revision, ctl[c].lease, Session, "failed"), "fail_reconcile")
    /\ ctl[c].pc = "fail_reconcile" =>
         CallOf(c) = Write("FAILURE-RECONCILE", 0,
                           ReconcileRequest(ctl[c].revision, ctl[c].lease, "failed"), "idle")
BY DEF CallOf

(* A request is well-typed when its parts are.                             *)
LEMMA RequestIs ==
  ASSUME NEW op, NEW n \in Nat, NEW o \in OwnersOrNone, NEW s \in SessionOrNone, NEW l \in Leases,
         NEW arg \in {"session_started"} \cup Statuses \cup Terminal,
         op \in {"claim", "lease", "recover", "heartbeat", "event", "reconcile"}
  PROVE  Request(op, n, o, s, l, arg) \in Requests
BY DEF Request, Requests

(* What each step asks for, and where it goes.                             *)
Asks(c, kind, op, next) ==
  /\ CallOf(c).kind = kind /\ CallOf(c).request.op = op /\ CallOf(c).next = next

LEMMA CallFields ==
  ASSUME TypeOK, NEW c \in Controllers, ctl[c].pc \in Calls
  PROVE  /\ CallOf(c).request \in Requests /\ CallOf(c).request.revision = ctl[c].revision
         /\ CallOf(c).n \in Nat /\ CallOf(c).kind \in Kinds
         /\ ctl[c].pc = "claim" => /\ Asks(c, "CLAIM", "claim", "lease")
                                   /\ CallOf(c).request.owner = OwnerOf[c]
         /\ ctl[c].pc = "lease" => /\ Asks(c, "LEASE", "lease", "evidence")
                                   /\ CallOf(c).request.owner = OwnerOf[c]
                                   /\ CallOf(c).request.session = Session
         /\ ctl[c].pc = "recover" => /\ Asks(c, "RECOVER", "recover", "verify")
                                     /\ CallOf(c).request.owner = OwnerOf[c]
                                     /\ CallOf(c).request.session = Session
         /\ ctl[c].pc \notin {"claim", "lease", "recover"} => CallOf(c).request.lease = ctl[c].lease
         /\ ctl[c].pc = "started" => Asks(c, "SESSION-STARTED", "event", "heartbeat")
         /\ ctl[c].pc = "heartbeat" => Asks(c, "HEARTBEAT", "heartbeat", "launch")
         /\ ctl[c].pc = "renew" => Asks(c, "MONITOR", "heartbeat", "checkpoint")
         /\ ctl[c].pc = "terminal" => Asks(c, "SESSION-TERMINAL", "event", "snapshot")
         /\ ctl[c].pc = "reconcile" => /\ Asks(c, "RECONCILE", "reconcile", "publish")
                                       /\ CallOf(c).request.arg = IF ctl[c].status = "completed" THEN "done" ELSE "failed"
         /\ ctl[c].pc = "fail_event" => /\ Asks(c, "FAILURE-TERMINAL", "event", "fail_reconcile")
                                        /\ CallOf(c).request.session = Session
         /\ ctl[c].pc = "fail_reconcile" => /\ Asks(c, "FAILURE-RECONCILE", "reconcile", "idle")
                                            /\ CallOf(c).request.arg = "failed"
<1>1. ctl[c].revision \in Nat /\ ctl[c].lease \in Leases /\ ctl[c].beats \in Nat /\ ctl[c].status \in Statuses
  BY DEF TypeOK, Locals
<1>2. OwnerOf[c] \in OwnersOrNone /\ None \in OwnersOrNone
  BY OwnerAssumption DEF OwnersOrNone
<1>3. Session \in SessionOrNone /\ None \in SessionOrNone
  BY DEF SessionOrNone
<1>4. {"none", "session_started", "failed", "done", ctl[c].status}
        \subseteq {"session_started"} \cup Statuses \cup Terminal
  BY <1>1 DEF Statuses, Terminal
<1>5. CASE ctl[c].pc = "claim"
  BY <1>1, <1>2, <1>3, <1>4, <1>5, CallIs, NothingIs, RequestIs
     DEF Write, ClaimRequest, Request, Requests, Kinds, Asks
<1>6. CASE ctl[c].pc = "lease"
  BY <1>1, <1>2, <1>3, <1>4, <1>6, CallIs, NothingIs, RequestIs
     DEF Write, LeaseRequest, Request, Requests, Kinds, Asks
<1>7. CASE ctl[c].pc = "recover"
  BY <1>1, <1>2, <1>3, <1>4, <1>7, CallIs, NothingIs, RequestIs
     DEF Write, RecoverRequest, Request, Requests, Kinds, Asks
<1>8. CASE ctl[c].pc = "started"
  BY <1>1, <1>2, <1>3, <1>4, <1>8, CallIs, RequestIs DEF Write, EventRequest, Request, Requests, Kinds, Asks
<1>9. CASE ctl[c].pc = "heartbeat"
  BY <1>1, <1>2, <1>3, <1>4, <1>9, CallIs, RequestIs DEF Write, HeartbeatRequest, Request, Requests, Kinds, Asks
<1>10. CASE ctl[c].pc = "renew"
  BY <1>1, <1>2, <1>3, <1>4, <1>10, CallIs, RequestIs DEF Write, HeartbeatRequest, Request, Requests, Kinds, Asks
<1>11. CASE ctl[c].pc = "terminal"
  BY <1>1, <1>2, <1>3, <1>4, <1>11, CallIs, RequestIs DEF Write, EventRequest, Request, Requests, Kinds, Asks
<1>12. CASE ctl[c].pc = "reconcile"
  BY <1>1, <1>2, <1>3, <1>4, <1>12, CallIs, RequestIs DEF Write, ReconcileRequest, Request, Requests, Kinds, Asks
<1>13. CASE ctl[c].pc = "fail_event"
  BY <1>1, <1>2, <1>3, <1>4, <1>13, CallIs, RequestIs DEF Write, EventRequest, Request, Requests, Kinds, Asks
<1>14. CASE ctl[c].pc = "fail_reconcile"
  BY <1>1, <1>2, <1>3, <1>4, <1>14, CallIs, RequestIs DEF Write, ReconcileRequest, Request, Requests, Kinds, Asks
<1>15. QED
  BY <1>5, <1>6, <1>7, <1>8, <1>9, <1>10, <1>11, <1>12, <1>13, <1>14
     DEF Calls, GuardedCalls, FailureCalls
---------------------------------------------------------------------------
(* What a committed write does.                                            *)

Holds(c) == task.status = "running" /\ task.lease = ctl[c].lease /\ clock < task.lease.expires

Claiming(c) ==
  /\ ctl[c].pc = "claim" /\ task.status = "open"
  /\ task'.status = "claimed" /\ task'.owner = OwnerOf[c]
  /\ task'.lease = task.lease /\ task'.fence = task.fence
Granting(c) ==
  /\ \/ ctl[c].pc = "lease" /\ task.status = "claimed" /\ task.owner = OwnerOf[c]
     \/ ctl[c].pc = "recover" /\ task.status = "running" /\ task.lease.expires <= clock
  /\ task'.status = "running" /\ task'.fence = task.fence + 1
  /\ task'.lease = NewLease(OwnerOf[c], Session, task.fence + 1, clock)
Renewing(c) ==
  /\ ctl[c].pc \in {"heartbeat", "renew"} /\ Holds(c)
  /\ task'.status = task.status /\ task'.fence = task.fence
  /\ task'.lease = [task.lease EXCEPT !.expires = clock + LeaseSeconds]
Logging(c) ==
  /\ ctl[c].pc \in {"started", "terminal", "fail_event"} /\ Holds(c)
  /\ task'.status = task.status /\ task'.fence = task.fence /\ task'.lease = task.lease
Closing(c) ==
  /\ ctl[c].pc \in {"reconcile", "fail_reconcile"} /\ Holds(c)
  /\ task'.status \in Terminal /\ task'.fence = task.fence /\ task'.lease = NoLease
  /\ task'.status = "done" => ctl[c].pc = "reconcile" /\ ctl[c].status = "completed"

LEMMA EffectIs ==
  ASSUME NEW t, NEW req, NEW now
  PROVE  /\ req.op = "claim" => Effect(t, req, now) = Claimed(t, req.owner)
         /\ req.op \in {"lease", "recover"} =>
              Effect(t, req, now) = Granted(t, req.owner, req.session, now)
         /\ req.op = "heartbeat" => Effect(t, req, now) = Renewed(t, now)
         /\ req.op = "event" => Effect(t, req, now) = Logged(t)
         /\ req.op = "reconcile" => Effect(t, req, now) = Reconciled(t, req.arg)
BY DEF Effect

(* The effects, field by field.                                            *)
LEMMA ClaimedIs ==
  ASSUME NEW t \in Tasks, NEW o \in OwnersOrNone
  PROVE  /\ Claimed(t, o) \in Tasks
         /\ Claimed(t, o).revision = t.revision + 1 /\ Claimed(t, o).status = "claimed"
         /\ Claimed(t, o).owner = o /\ Claimed(t, o).fence = t.fence /\ Claimed(t, o).lease = t.lease
<1> DEFINE u == [t EXCEPT !.revision = t.revision + 1]
           v == [u EXCEPT !.status = "claimed"]
<1>1. u \in Tasks
  BY DEF Tasks
<1>2. v \in Tasks
  BY <1>1 DEF Tasks, Status
<1>3. [v EXCEPT !.owner = o] \in Tasks
  BY <1>2 DEF Tasks
<1>4. Claimed(t, o) = [v EXCEPT !.owner = o]
  BY DEF Claimed, Tasks
<1>5. QED
  BY <1>3, <1>4 DEF Tasks

LEMMA GrantedIs ==
  ASSUME NEW t \in Tasks, NEW o \in OwnersOrNone, NEW s \in SessionOrNone, NEW now \in Nat
  PROVE  /\ NewLease(o, s, t.fence + 1, now) \in Leases
         /\ Granted(t, o, s, now) \in Tasks
         /\ Granted(t, o, s, now).revision = t.revision + 1
         /\ Granted(t, o, s, now).status = "running" /\ Granted(t, o, s, now).fence = t.fence + 1
         /\ Granted(t, o, s, now).lease = NewLease(o, s, t.fence + 1, now)
<1> DEFINE lease == NewLease(o, s, t.fence + 1, now)
           u == [t EXCEPT !.revision = t.revision + 1]
           v == [u EXCEPT !.status = "running"]
           x == [v EXCEPT !.owner = o]
           y == [x EXCEPT !.fence = t.fence + 1]
<1>1. lease \in Leases
  BY LeaseSecondsAssumption DEF NewLease, Leases, Tasks
<1>2. u \in Tasks
  BY DEF Tasks
<1>3. v \in Tasks
  BY <1>2 DEF Tasks, Status
<1>4. x \in Tasks
  BY <1>3 DEF Tasks
<1>5. y \in Tasks
  <2>1. t.fence + 1 \in Nat
    BY DEF Tasks
  <2>2. QED
    BY <1>4, <2>1 DEF Tasks
<1>6. [y EXCEPT !.lease = lease] \in Tasks
  BY <1>1, <1>5 DEF Tasks
<1>7. Granted(t, o, s, now) = [y EXCEPT !.lease = lease]
  BY DEF Granted, Tasks
<1> HIDE DEF lease
<1>8. /\ Granted(t, o, s, now).revision = t.revision + 1
      /\ Granted(t, o, s, now).status = "running" /\ Granted(t, o, s, now).fence = t.fence + 1
      /\ Granted(t, o, s, now).lease = lease
  BY <1>7 DEF Tasks
<1>9. QED
  BY <1>1, <1>6, <1>7, <1>8 DEF lease

LEMMA RenewedIs ==
  ASSUME NEW t \in Tasks, NEW now \in Nat
  PROVE  /\ Renewed(t, now) \in Tasks
         /\ Renewed(t, now).revision = t.revision + 1
         /\ Renewed(t, now).status = t.status /\ Renewed(t, now).fence = t.fence
         /\ Renewed(t, now).lease = [t.lease EXCEPT !.expires = now + LeaseSeconds]
<1> DEFINE lease == [t.lease EXCEPT !.expires = now + LeaseSeconds]
           u == [t EXCEPT !.revision = t.revision + 1]
<1>1. lease \in Leases
  BY LeaseSecondsAssumption DEF Leases, Tasks
<1>2. u \in Tasks
  BY DEF Tasks
<1>3. [u EXCEPT !.lease = lease] \in Tasks
  BY <1>1, <1>2 DEF Tasks
<1>4. Renewed(t, now) = [u EXCEPT !.lease = lease]
  BY DEF Renewed, Tasks
<1> HIDE DEF lease
<1>5. /\ Renewed(t, now).revision = t.revision + 1 /\ Renewed(t, now).status = t.status
      /\ Renewed(t, now).fence = t.fence /\ Renewed(t, now).lease = lease
  BY <1>4 DEF Tasks
<1>6. QED
  BY <1>3, <1>4, <1>5 DEF lease

LEMMA LoggedIs ==
  ASSUME NEW t \in Tasks
  PROVE  /\ Logged(t) \in Tasks /\ Logged(t).revision = t.revision + 1
         /\ Logged(t).status = t.status /\ Logged(t).fence = t.fence /\ Logged(t).lease = t.lease
BY DEF Logged, Tasks

LEMMA ReconciledIs ==
  ASSUME NEW t \in Tasks, NEW st \in Terminal
  PROVE  /\ Reconciled(t, st) \in Tasks /\ Reconciled(t, st).revision = t.revision + 1
         /\ Reconciled(t, st).status = st /\ Reconciled(t, st).fence = t.fence
         /\ Reconciled(t, st).lease = NoLease
<1> DEFINE u == [t EXCEPT !.revision = t.revision + 1]
           v == [u EXCEPT !.status = st]
           x == [v EXCEPT !.owner = None]
<1>1. u \in Tasks
  BY DEF Tasks
<1>2. v \in Tasks
  BY <1>1 DEF Tasks, Status
<1>3. x \in Tasks
  BY <1>2 DEF Tasks, OwnersOrNone
<1>4. [x EXCEPT !.lease = NoLease] \in Tasks
  BY <1>3, NothingIs DEF Tasks
<1>5. Reconciled(t, st) = [x EXCEPT !.lease = NoLease]
  BY DEF Reconciled, Tasks
<1>6. QED
  BY <1>4, <1>5 DEF Tasks

(* Only a running task has a lease to hold.                                *)
LEMMA HeldIsRunning ==
  ASSUME TaskOK, NEW c \in Controllers, HoldsLease(task, ctl[c].lease, clock)
  PROVE  Holds(c)
BY DEF HoldsLease, Holds, TaskOK

(* A commit, as the authority's one of five.                               *)
LEMMA CommitIs ==
  ASSUME TypeOK, TaskOK, NEW c \in Controllers, Commit(c)
  PROVE  /\ task' \in Tasks /\ ctl[c].revision = task.revision /\ task'.revision = task.revision + 1
         /\ Claiming(c) \/ Granting(c) \/ Renewing(c) \/ Logging(c) \/ Closing(c)
<1> DEFINE req == CallOf(c).request
<1>1. /\ ctl[c].pc \in Calls /\ Accepts(task, req, clock) /\ task' = Effect(task, req, clock)
  BY DEF Commit
<1>2. task \in Tasks /\ clock \in Nat /\ req \in Requests /\ req.revision = ctl[c].revision
  BY <1>1, CallFields DEF TypeOK
<1>3. task.revision = req.revision
  BY <1>1 DEF Accepts
<1>4. OwnerOf[c] \in OwnersOrNone /\ Session \in SessionOrNone
  BY OwnerAssumption DEF OwnersOrNone, SessionOrNone
<1>5. CASE ctl[c].pc = "claim"
  <2>1. req.op = "claim" /\ req.owner = OwnerOf[c]
    BY <1>1, <1>5, CallFields DEF Asks
  <2>2. task.status = "open" /\ task' = Claimed(task, OwnerOf[c])
    BY <1>1, <2>1, EffectIs DEF Accepts
  <2>3. QED
    BY <1>2, <1>3, <1>4, <1>5, <2>2, ClaimedIs DEF Claiming, Tasks
<1>6. CASE ctl[c].pc \in {"lease", "recover"}
  <2>1. /\ req.op \in {"lease", "recover"} /\ req.owner = OwnerOf[c] /\ req.session = Session
        /\ req.op = "lease" <=> ctl[c].pc = "lease"
    BY <1>1, <1>6, CallFields DEF Asks
  <2>2. task' = Granted(task, OwnerOf[c], Session, clock)
    BY <1>1, <2>1, EffectIs
  <2>3. \/ ctl[c].pc = "lease" /\ task.status = "claimed" /\ task.owner = OwnerOf[c]
        \/ ctl[c].pc = "recover" /\ task.status = "running" /\ task.lease.expires <= clock
    BY <1>1, <1>6, <2>1 DEF Accepts, LeaseIsOver
  <2>4. QED
    BY <1>2, <1>3, <1>4, <2>2, <2>3, GrantedIs DEF Granting
<1>7. CASE ctl[c].pc \in {"heartbeat", "renew"}
  <2>1. req.op = "heartbeat" /\ req.lease = ctl[c].lease
    BY <1>1, <1>7, CallFields DEF Asks
  <2>2. Holds(c) /\ task' = Renewed(task, clock)
    BY <1>1, <2>1, EffectIs, HeldIsRunning DEF Accepts
  <2>3. QED
    BY <1>2, <1>3, <1>7, <2>2, RenewedIs DEF Renewing
<1>8. CASE ctl[c].pc \in {"started", "terminal", "fail_event"}
  <2>1. req.op = "event" /\ req.lease = ctl[c].lease
    BY <1>1, <1>8, CallFields DEF Asks
  <2>2. Holds(c) /\ task' = Logged(task)
    BY <1>1, <2>1, EffectIs, HeldIsRunning DEF Accepts
  <2>3. QED
    BY <1>2, <1>3, <1>8, <2>2, LoggedIs DEF Logging
<1>9. CASE ctl[c].pc \in {"reconcile", "fail_reconcile"}
  <2>1. /\ req.op = "reconcile" /\ req.lease = ctl[c].lease
        /\ req.arg = "done" => ctl[c].pc = "reconcile" /\ ctl[c].status = "completed"
    BY <1>1, <1>9, CallFields DEF Asks
  <2>2. Holds(c) /\ req.arg \in Terminal /\ task' = Reconciled(task, req.arg)
    BY <1>1, <2>1, EffectIs, HeldIsRunning DEF Accepts
  <2>3. QED
    BY <1>2, <1>3, <1>9, <2>1, <2>2, ReconciledIs DEF Closing
<1>10. QED
  BY <1>1, <1>5, <1>6, <1>7, <1>8, <1>9 DEF Calls, GuardedCalls, FailureCalls
---------------------------------------------------------------------------
(* What a controller takes in.                                             *)
Taken(c, me, r) ==
  IF ctl[c].pc = "fail_reconcile" THEN me = Idle
  ELSE /\ me.pc = CallOf(c).next /\ me.revision = r.revision
       /\ me.beats = ctl[c].beats /\ me.prior = ctl[c].prior /\ me.status = ctl[c].status
       /\ me.lease = IF ctl[c].pc \in {"lease", "recover", "heartbeat", "renew"}
                     THEN r.lease ELSE ctl[c].lease

LEMMA TakeIs ==
  ASSUME TypeOK, NEW c \in Controllers, ctl[c].pc \in Calls,
         NEW r \in Receipts, Take(c, r)
  PROVE  \E me \in Locals : ctl' = [ctl EXCEPT ![c] = me] /\ Taken(c, me, r)
<1> DEFINE old == ctl[c]
           lease == IF CallOf(c).request.op \in {"lease", "recover", "heartbeat"} THEN r.lease ELSE old.lease
<1>1. old \in Locals /\ r.revision \in Nat /\ lease \in Leases
  BY DEF TypeOK, Locals, Receipts
<1>2. CASE CallOf(c).next = "idle"
  <2>1. ctl[c].pc = "fail_reconcile"
    BY <1>2, CallFields DEF Asks, Calls, GuardedCalls, FailureCalls
  <2>2. ctl' = [ctl EXCEPT ![c] = Idle]
    BY <1>2 DEF Take
  <2>3. QED
    BY <2>1, <2>2, NothingIs DEF Taken
<1>3. CASE CallOf(c).next # "idle"
  <2>1. /\ ctl[c].pc # "fail_reconcile" /\ CallOf(c).next \in Pcs
        /\ CallOf(c).request.op \in {"lease", "recover", "heartbeat"}
             <=> ctl[c].pc \in {"lease", "recover", "heartbeat", "renew"}
    BY <1>3, CallFields DEF Asks, Calls, GuardedCalls, FailureCalls, Pcs
  <2> DEFINE m1 == [old EXCEPT !.pc = CallOf(c).next]
             m2 == [m1 EXCEPT !.revision = r.revision]
             m3 == [m2 EXCEPT !.lease = lease]
  <2>2. m1 \in Locals
    BY <1>1, <2>1 DEF Locals
  <2>3. m2 \in Locals
    BY <1>1, <2>2 DEF Locals
  <2>4. m3 \in Locals
    BY <1>1, <2>3 DEF Locals
  <2>5. ctl' = [ctl EXCEPT ![c] = m3]
    <3> DEFINE new == IF CallOf(c).next = "idle" THEN Idle
                      ELSE [old EXCEPT !.pc = CallOf(c).next, !.revision = r.revision, !.lease = lease]
    <3>1. ctl' = [ctl EXCEPT ![c] = new]
      BY DEF Take
    <3>2. new = m3
      BY <1>1, <1>3 DEF Locals
    <3>3. QED
      BY <3>1, <3>2
  <2> HIDE DEF lease
  <2>6. /\ m3.pc = CallOf(c).next /\ m3.revision = r.revision /\ m3.lease = lease
        /\ m3.beats = old.beats /\ m3.prior = old.prior /\ m3.status = old.status
    BY <1>1 DEF Locals
  <2>7. Taken(c, m3, r)
    BY <2>1, <2>6 DEF Taken, lease
  <2>8. QED
    BY <2>4, <2>5, <2>7
<1>4. QED
  BY <1>2, <1>3

(* The receipt of a commit, and what became of its answer.                 *)
LEMMA CommitLeaves ==
  ASSUME TypeOK, TaskOK, NEW c \in Controllers, Commit(c)
  PROVE  /\ UNCHANGED <<clock, checkpoint, evidence, worker, launches, finished>> /\ faults' \in Nat
         /\ \E r \in Receipts :
              /\ operations' = operations \cup {r} /\ r.id[1] = CallOf(c).kind /\ r.id[2] = ctl[c].lease.fence
              /\ r.request = CallOf(c).request /\ r.lease = task'.lease
              /\ r.revision = task'.revision
              /\ \A s \in operations : s.id # IdOf(c)
              /\ \E me \in Locals :
                   /\ ctl' = [ctl EXCEPT ![c] = me]
                   /\ \/ Taken(c, me, r)
                      \/ me = Idle /\ ctl[c].pc \in FailureCalls /\ faults' # faults
                      \/ me = ctl[c] /\ ctl[c].pc \notin FailureCalls
<1> DEFINE r == [id |-> IdOf(c), request |-> CallOf(c).request, revision |-> task'.revision, lease |-> task'.lease]
<1>1. /\ ctl[c].pc \in Calls /\ operations' = operations \cup {r} /\ Remembered(c) = {}
      /\ UNCHANGED <<clock, checkpoint, evidence, worker, launches, finished>>
      /\ \/ Take(c, r) /\ faults' = faults
         \/ faults' = faults + 1 /\ IF ctl[c].pc \in FailureCalls THEN Leave(c) ELSE ctl' = ctl
  BY DEF Commit, files, processes
<1>2. r \in Receipts
  <2>1. task' \in Tasks
    BY CommitIs
  <2>2. CallOf(c).request \in Requests /\ CallOf(c).kind \in Kinds /\ CallOf(c).n \in Nat
    BY <1>1, CallFields
  <2>3. ctl[c].lease.fence \in Nat
    BY DEF TypeOK, Locals, Leases
  <2>4. QED
    BY <2>1, <2>2, <2>3 DEF Receipts, IdOf, Tasks
<1>3. r.id[1] = CallOf(c).kind /\ r.id[2] = ctl[c].lease.fence
  BY DEF IdOf
<1>4. \A s \in operations : s.id # IdOf(c)
  BY <1>1 DEF Remembered
<1>5. faults' \in Nat /\ (faults' = faults + 1 => faults' # faults)
  BY <1>1 DEF TypeOK
<1>6. \E me \in Locals :
        /\ ctl' = [ctl EXCEPT ![c] = me]
        /\ \/ Taken(c, me, r)
           \/ me = Idle /\ ctl[c].pc \in FailureCalls /\ faults' # faults
           \/ me = ctl[c] /\ ctl[c].pc \notin FailureCalls
  <2>1. CASE Take(c, r)
    <3> HIDE DEF r
    <3>1. QED
      BY <1>1, <1>2, <2>1, TakeIs
  <2>2. CASE ctl[c].pc \in FailureCalls /\ Leave(c) /\ faults' = faults + 1
    <3> HIDE DEF r
    <3>1. QED
      BY <1>5, <2>2, NothingIs DEF Leave
  <2>3. CASE ctl[c].pc \notin FailureCalls /\ ctl' = ctl
    <3>1. ctl' = [ctl EXCEPT ![c] = ctl[c]] /\ ctl[c] \in Locals
      BY <2>3 DEF TypeOK
    <3>2. QED
      BY <2>3, <3>1
  <2>4. QED
    BY <1>1, <2>1, <2>2, <2>3
<1>7. r.request = CallOf(c).request /\ r.lease = task'.lease /\ r.revision = task'.revision
  OBVIOUS
<1> HIDE DEF r
<1>8. QED
  BY <1>1, <1>2, <1>3, <1>4, <1>5, <1>6, <1>7

---------------------------------------------------------------------------
(* The invariant and the authority's writes.                               *)

LEMMA TaskKeeps ==
  ASSUME TypeOK, TaskOK, \A d \in Controllers : LocalOK(ctl[d], worker[d], task, finished),
         NEW c \in Controllers, Commit(c)
  PROVE  /\ TaskOK' /\ task.status \notin Terminal
         /\ task.fence <= task'.fence /\ task'.status # "open"
         /\ task.status \notin {"open", "claimed"} => task'.status \notin {"open", "claimed"}
<1>1. /\ task \in Tasks /\ task' \in Tasks /\ clock \in Nat /\ clock' = clock
      /\ Claiming(c) \/ Granting(c) \/ Renewing(c) \/ Logging(c) \/ Closing(c)
  BY CommitIs, CommitLeaves DEF TypeOK
<1>2. task.fence \in Nat /\ task.lease \in Leases /\ task.lease.expires \in Nat
  BY <1>1 DEF Tasks, Leases
<1>3. CASE Claiming(c)
  BY <1>1, <1>2, <1>3 DEF Claiming, TaskOK, Terminal
<1>4. CASE Granting(c)
  <2>1. /\ task'.lease.fence = task.fence + 1 /\ task'.lease.expires = clock + LeaseSeconds
        /\ task'.lease.session = Session
    BY <1>4 DEF Granting, NewLease
  <2>2. task'.fence = task.fence + 1 /\ task'.status = "running" /\ task.fence <= clock
    BY <1>1, <1>2, <1>4 DEF Granting, TaskOK
  <2>3. QED
    BY <1>1, <1>2, <1>4, <2>1, <2>2, LeaseSecondsAssumption DEF Granting, TaskOK, Terminal
<1>5. CASE Renewing(c)
  <2>1. /\ task'.lease.fence = task.lease.fence /\ task'.lease.expires = clock + LeaseSeconds
        /\ task'.lease.session = task.lease.session
    BY <1>2, <1>5 DEF Renewing, Leases
  <2>2. QED
    BY <1>1, <1>2, <1>5, <2>1, LeaseSecondsAssumption DEF Renewing, Holds, TaskOK, Terminal
<1>6. CASE Logging(c)
  BY <1>1, <1>2, <1>6 DEF Logging, Holds, TaskOK, Terminal
<1>7. CASE Closing(c)
  BY <1>1, <1>2, <1>7 DEF Closing, Holds, TaskOK, Terminal
<1>8. QED
  BY <1>1, <1>3, <1>4, <1>5, <1>6, <1>7

(* What is taken in agrees with the task, a new receipt or an old one.      *)
LEMMA TakenIsOK ==
  ASSUME TypeOK, NEW c \in Controllers, ctl[c].pc \in Calls, NEW r \in Receipts, NEW t \in Tasks,
         LocalOK(ctl[c], worker[c], t, finished), ReceiptOK(r, t),
         r.id[1] = CallOf(c).kind, r.id[2] = ctl[c].lease.fence,
         NEW me \in Locals, Taken(c, me, r)
  PROVE  LocalOK(me, worker[c], t, finished)
<1>1. /\ ctl[c].lease.fence \in Nat /\ r.lease.fence \in Nat /\ me.lease.fence \in Nat /\ t.fence \in Nat
      /\ me.prior \in Nat /\ ctl[c].prior \in Nat
  BY DEF TypeOK, Locals, Leases, Receipts, Tasks
<1>2. CASE ctl[c].pc = "claim"
  <2>1. CallOf(c).next = "lease"
    BY <1>2, CallFields DEF Asks
  <2>2. QED
    BY <1>1, <1>2, <2>1 DEF Taken, LocalOK, Holding, AfterLaunch, Ended, Working
<1>3. CASE ctl[c].pc = "lease"
  <2>1. CallOf(c).next = "evidence" /\ r.id[1] = "LEASE"
    BY <1>3, CallFields DEF Asks
  <2>2. QED
    BY <1>1, <1>3, <2>1 DEF Taken, LocalOK, ReceiptOK, Holding, AfterLaunch, Ended, Working
<1>4. CASE ctl[c].pc = "recover"
  <2>1. CallOf(c).next = "verify" /\ r.id[1] = "RECOVER"
    BY <1>4, CallFields DEF Asks
  <2>2. QED
    BY <1>1, <1>4, <2>1 DEF Taken, LocalOK, ReceiptOK, Holding, AfterLaunch, Ended, Working
<1>5. CASE ctl[c].pc = "started"
  <2>1. CallOf(c).next = "heartbeat"
    BY <1>5, CallFields DEF Asks
  <2>2. QED
    BY <1>1, <1>5, <2>1 DEF Taken, LocalOK, Holding, AfterLaunch, Ended, Working
<1>6. CASE ctl[c].pc \in {"heartbeat", "renew"}
  <2>1. /\ r.id[1] \in {"HEARTBEAT", "MONITOR"}
        /\ CallOf(c).next = IF ctl[c].pc = "renew" THEN "checkpoint" ELSE "launch"
    BY <1>6, CallFields DEF Asks, Calls, GuardedCalls
  <2>2. r.lease.fence = ctl[c].lease.fence
    BY <2>1 DEF ReceiptOK
  <2>3. QED
    BY <1>1, <1>6, <2>1, <2>2 DEF Taken, LocalOK, Holding, AfterLaunch, Ended, Working
<1>7. CASE ctl[c].pc = "terminal"
  <2>1. CallOf(c).next = "snapshot"
    BY <1>7, CallFields DEF Asks
  <2>2. QED
    BY <1>1, <1>7, <2>1 DEF Taken, LocalOK, Holding, AfterLaunch, Ended, Working
<1>8. CASE ctl[c].pc = "reconcile"
  <2>1. CallOf(c).next = "publish" /\ r.id[1] = "RECONCILE"
    BY <1>8, CallFields DEF Asks
  <2>2. QED
    BY <1>1, <1>8, <2>1 DEF Taken, LocalOK, ReceiptOK, Holding, AfterLaunch, Ended, Working
<1>9. CASE ctl[c].pc = "fail_event"
  <2>1. CallOf(c).next = "fail_reconcile"
    BY <1>9, CallFields DEF Asks
  <2>2. QED
    BY <1>1, <1>9, <2>1 DEF Taken, LocalOK, Holding, AfterLaunch, Ended, Working
<1>10. CASE ctl[c].pc = "fail_reconcile"
  <2>1. me.pc = "idle" /\ me.status = "none" /\ worker[c] = "none"
    BY <1>10, NothingIs DEF Taken, LocalOK, Working
  <2>2. QED
    BY <2>1 DEF LocalOK, Holding, AfterLaunch
<1>11. QED
  BY <1>2, <1>3, <1>4, <1>5, <1>6, <1>7, <1>8, <1>9, <1>10 DEF Calls, GuardedCalls, FailureCalls

(* What held of a receipt or of a controller holds after another's commit. *)
LEMMA CommitSpares ==
  ASSUME TypeOK, TaskOK, \A d \in Controllers : LocalOK(ctl[d], worker[d], task, finished),
         NEW c \in Controllers, Commit(c)
  PROVE  /\ \A r \in Receipts : ReceiptOK(r, task) => ReceiptOK(r, task')
         /\ \A me \in Locals, w \in WorkerStates : LocalOK(me, w, task, finished) => LocalOK(me, w, task', finished)
<1>1. /\ task.status \notin Terminal /\ task.fence <= task'.fence /\ task'.status # "open"
      /\ task.status \notin {"open", "claimed"} => task'.status \notin {"open", "claimed"}
  BY TaskKeeps
<1>2. task'.revision = task.revision + 1 /\ task \in Tasks /\ task' \in Tasks /\ finished' = finished
  BY CommitIs, CommitLeaves DEF TypeOK
<1>3. ASSUME NEW r \in Receipts, ReceiptOK(r, task)
      PROVE  ReceiptOK(r, task')
  <2>1. r.request.revision \in Nat /\ r.id[2] \in Nat /\ r.lease.fence \in Nat
    BY DEF Receipts, Requests, Leases
  <2>2. QED
    BY <1>1, <1>2, <1>3, <2>1 DEF ReceiptOK, Tasks
<1>4. ASSUME NEW me \in Locals, NEW w \in WorkerStates, LocalOK(me, w, task, finished)
      PROVE  LocalOK(me, w, task', finished)
  <2>1. me.revision \in Nat /\ me.lease.fence \in Nat
    BY DEF Locals, Leases
  <2>2. QED
    BY <1>1, <1>2, <1>4, <2>1 DEF LocalOK, Tasks
<1>5. QED
  BY <1>3, <1>4

LEMMA CommitKeeps ==
  ASSUME IInv, NEW c \in Controllers, Commit(c)
  PROVE  IInv'
<1>0. TypeOK /\ TaskOK /\ \A d \in Controllers : LocalOK(ctl[d], worker[d], task, finished)
  BY DEF IInv
<1>1. /\ task' \in Tasks /\ ctl[c].revision = task.revision /\ task'.revision = task.revision + 1
      /\ Claiming(c) \/ Granting(c) \/ Renewing(c) \/ Logging(c) \/ Closing(c)
  BY <1>0, CommitIs
<1>2. PICK r \in Receipts :
        /\ operations' = operations \cup {r} /\ r.id[1] = CallOf(c).kind /\ r.id[2] = ctl[c].lease.fence
        /\ r.request = CallOf(c).request /\ r.lease = task'.lease
        /\ \E me \in Locals :
             /\ ctl' = [ctl EXCEPT ![c] = me]
             /\ Taken(c, me, r) \/ (me = Idle /\ ctl[c].pc \in FailureCalls) \/ me = ctl[c]
  BY <1>0, CommitLeaves
<1>3. PICK me \in Locals : /\ ctl' = [ctl EXCEPT ![c] = me]
                           /\ \/ Taken(c, me, r)
                              \/ me = Idle /\ ctl[c].pc \in FailureCalls
                              \/ me = ctl[c]
  BY <1>2
<1>4. UNCHANGED <<clock, checkpoint, evidence, worker, launches, finished>> /\ faults' \in Nat
  BY <1>0, CommitLeaves
<1>5. /\ TaskOK' /\ task.status \notin Terminal
      /\ task.fence <= task'.fence /\ task'.status # "open"
      /\ task.status \notin {"open", "claimed"} => task'.status \notin {"open", "claimed"}
  BY <1>0, TaskKeeps
<1>6. ctl[c].pc \in Calls
  BY DEF Commit
<1>7. /\ task.fence \in Nat /\ task'.fence \in Nat /\ task.revision \in Nat /\ ctl[c].lease.fence \in Nat
      /\ ctl[c].lease \in Leases /\ task.lease \in Leases
  BY <1>0, <1>1 DEF TypeOK, Tasks, Locals, Leases
<1>8. TypeOK'
  BY <1>0, <1>1, <1>2, <1>3, <1>4 DEF TypeOK
<1>9. ReceiptOK(r, task')
  <2>1. r.request.revision < task'.revision
    BY <1>0, <1>1, <1>2, <1>6, <1>7, CallFields
  <2>2. ctl[c].lease.fence <= task.fence
    BY <1>0, <1>6, <1>7, NothingIs DEF LocalOK, Calls, GuardedCalls, FailureCalls, Holding, AfterLaunch
  <2>3. task'.lease.fence <= task'.fence
    BY <1>1, <1>5, <1>7, NothingIs DEF TaskOK, Tasks, Status
  <2>4. CASE ctl[c].pc = "claim"
    <3>1. r.id[1] = "CLAIM"
      BY <1>0, <1>2, <1>6, <2>4, CallFields DEF Asks
    <3>2. QED
      BY <1>2, <1>5, <1>7, <2>1, <2>2, <2>3, <3>1 DEF ReceiptOK
  <2>5. CASE ctl[c].pc = "lease"
    <3>1. r.id[1] = "LEASE" /\ Granting(c)
      BY <1>0, <1>1, <1>2, <1>6, <2>5, CallFields
         DEF Asks, Claiming, Renewing, Logging, Closing
    <3>2. task.fence = 0 /\ r.lease.fence = task.fence + 1 /\ task'.status = "running"
      BY <1>0, <1>2, <2>5, <3>1 DEF Granting, TaskOK, NewLease
    <3>3. QED
      BY <1>2, <1>5, <1>7, <2>1, <2>2, <2>3, <3>1, <3>2 DEF ReceiptOK
  <2>6. CASE ctl[c].pc = "recover"
    <3>1. r.id[1] = "RECOVER" /\ Granting(c)
      BY <1>0, <1>1, <1>2, <1>6, <2>6, CallFields
         DEF Asks, Claiming, Renewing, Logging, Closing
    <3>2. r.lease.fence = task.fence + 1 /\ task.status = "running"
      BY <1>2, <2>6, <3>1 DEF Granting, NewLease
    <3>3. ctl[c].lease = task.lease /\ 1 <= ctl[c].lease.fence
      BY <1>0, <1>1, <2>6 DEF LocalOK
    <3>4. ctl[c].lease.fence = task.fence
      BY <1>0, <3>2, <3>3 DEF TaskOK
    <3>5. QED
      BY <1>2, <1>5, <1>7, <2>1, <2>2, <2>3, <3>1, <3>2, <3>3, <3>4 DEF ReceiptOK
  <2>7. CASE ctl[c].pc \in {"heartbeat", "renew"}
    <3>1. r.id[1] \in {"HEARTBEAT", "MONITOR"} /\ Renewing(c)
      BY <1>0, <1>1, <1>2, <1>6, <2>7, CallFields
         DEF Asks, Claiming, Granting, Logging, Closing
    <3>2. r.lease.fence = r.id[2]
      BY <1>2, <1>7, <3>1 DEF Renewing, Holds, Leases
    <3>3. QED
      BY <1>2, <1>5, <1>7, <2>1, <2>2, <2>3, <3>1, <3>2 DEF ReceiptOK
  <2>8. CASE ctl[c].pc \in {"started", "terminal", "fail_event"}
    <3>1. r.id[1] \in {"SESSION-STARTED", "SESSION-TERMINAL", "FAILURE-TERMINAL"}
      BY <1>0, <1>2, <1>6, <2>8, CallFields DEF Asks
    <3>2. QED
      BY <1>2, <1>5, <1>7, <2>1, <2>2, <2>3, <3>1 DEF ReceiptOK
  <2>9. CASE ctl[c].pc \in {"reconcile", "fail_reconcile"}
    <3>1. r.id[1] \in {"RECONCILE", "FAILURE-RECONCILE"} /\ Closing(c)
      BY <1>0, <1>1, <1>2, <1>6, <2>9, CallFields
         DEF Asks, Claiming, Granting, Logging, Renewing
    <3>2. task'.status \in Terminal /\ task'.fence = r.id[2]
      BY <1>0, <1>2, <3>1 DEF Closing, Holds, TaskOK
    <3>3. QED
      BY <1>2, <1>5, <1>7, <2>1, <2>2, <2>3, <3>1, <3>2 DEF ReceiptOK
  <2>10. QED
    BY <1>6, <2>4, <2>5, <2>6, <2>7, <2>8, <2>9 DEF Calls, GuardedCalls, FailureCalls
<1>10. \A s \in operations' : ReceiptOK(s, task')
  <2>1. \A s \in operations : ReceiptOK(s, task')
    BY <1>0, CommitSpares DEF IInv, TypeOK
  <2>2. QED
    BY <1>2, <1>9, <2>1
<1>11. LocalOK(me, worker[c], task', finished)
  <2>0. LocalOK(ctl[c], worker[c], task, finished) /\ LocalOK(ctl[c], worker[c], task', finished)
    BY <1>0, <1>4, CommitSpares DEF TypeOK
  <2>1. CASE me = ctl[c]
    BY <2>0, <2>1
  <2>2. CASE me = Idle /\ ctl[c].pc \in FailureCalls
    <3>1. worker[c] = "none"
      BY <2>0, <2>2 DEF LocalOK, Working, FailureCalls
    <3>2. QED
      BY <2>0, <2>2, <3>1, NothingIs DEF LocalOK, Holding, AfterLaunch, Working
  <2>3. CASE Taken(c, me, r)
    BY <1>0, <1>1, <1>2, <1>6, <1>9, <2>0, <2>3, TakenIsOK
  <2>4. QED
    BY <1>3, <2>1, <2>2, <2>3
<1>12. \A d \in Controllers : LocalOK(ctl'[d], worker'[d], task', finished')
  <2>1. \A d \in Controllers \ {c} : ctl'[d] = ctl[d] /\ ctl[d] \in Locals /\ worker[d] \in WorkerStates
    BY <1>0, <1>3 DEF TypeOK
  <2>2. ctl'[c] = me
    BY <1>0, <1>3 DEF TypeOK
  <2>3. \A d \in Controllers \ {c} : LocalOK(ctl[d], worker[d], task', finished)
    BY <1>0, <2>1, CommitSpares
  <2>4. QED
    BY <1>4, <1>11, <2>1, <2>2, <2>3
<1>13. DoneByItsWorker' /\ EvidenceFollowsAuthority'
  <2>1. task'.status = "done" => task'.fence \in finished
    <3>1. CASE Closing(c)
      BY <1>0, <3>1 DEF Closing, Holds, TaskOK, LocalOK
    <3>2. CASE ~Closing(c)
      BY <1>1, <1>5, <3>2 DEF Claiming, Granting, Renewing, Logging, Holds
    <3>3. QED
      BY <3>1, <3>2
  <2>2. QED
    BY <1>4, <1>5, <2>1 DEF IInv, DoneByItsWorker, EvidenceFollowsAuthority
<1>14. QED
  BY <1>5, <1>8, <1>10, <1>12, <1>13 DEF IInv

---------------------------------------------------------------------------
(* The invariant and the steps that ask nothing new of the authority.      *)

(* The controller becomes me and its worker w; the files may be written.   *)
Moves(c, me, w) ==
  /\ me \in Locals /\ w \in WorkerStates
  /\ ctl' = [ctl EXCEPT ![c] = me] /\ worker' = [worker EXCEPT ![c] = w]
  /\ UNCHANGED <<task, operations, clock>>
  /\ checkpoint' \in Fences \cup {0} /\ faults' \in Nat
  /\ finished \subseteq finished' /\ finished' \subseteq Fences
  /\ LocalOK(me, w, task, finished')

Files(c) ==
  \/ evidence' = evidence
  \/ /\ ctl[c].lease.fence \in Fences
     /\ \/ evidence' = [evidence EXCEPT ![ctl[c].lease.fence] = "spawn"]
        \/ /\ evidence' = [evidence EXCEPT ![ctl[c].lease.fence] = "terminal"]
           /\ ctl[c].pc = "publish"

Launches(c, me) ==
  \/ launches' = launches
  \/ /\ ctl[c].pc = "launch" /\ me.pc = "spawned" /\ ctl[c].lease.fence \in Fences
     /\ launches' = [launches EXCEPT ![ctl[c].lease.fence] = @ + 1]

(* How a controller gets on by itself: it is at no call, at the first one  *)
(* of a run or a recovery with what it has just read, or on with its lease.*)
Shape(c, me) ==
  \/ me.pc \notin Holding \cup {"claim", "lease", "recover"}
  \/ me.pc = "claim" /\ task.status = "open"
  \/ me.pc = "recover" /\ me.revision = task.revision
  \/ /\ ctl[c].pc \in Holding /\ ctl[c].pc # "fail_reconcile"
     /\ me.pc \in Holding /\ me.pc # "fail_reconcile" /\ me.lease = ctl[c].lease
     /\ ctl[c].pc \in AfterLaunch => me.pc \in AfterLaunch
     /\ me.pc = "fail_event" => me.revision = task.revision

(* The fence of a controller that has one is among those of the model.     *)
LEMMA FenceIsOne ==
  ASSUME IInv, NEW c \in Controllers, ctl[c].pc \in Holding
  PROVE  ctl[c].lease.fence \in Fences
<1>1. 1 <= ctl[c].lease.fence /\ ctl[c].lease.fence <= task.fence
  BY DEF IInv, LocalOK
<1>2. ctl[c].lease.fence \in Nat /\ task.fence \in Nat /\ clock \in Nat
  BY DEF IInv, TypeOK, Tasks, Locals, Leases
<1>3. task.fence <= clock + 1 /\ clock <= MaxClock /\ MaxClock \in Nat
  BY ControllerBounds DEF IInv, TaskOK
<1>4. QED
  BY <1>1, <1>2, <1>3 DEF Fences

LEMMA MovesKeep ==
  ASSUME IInv, NEW c \in Controllers, NEW me, NEW w, Moves(c, me, w), Files(c), Launches(c, me)
  PROVE  IInv'
<1>1. /\ me \in Locals /\ w \in WorkerStates
      /\ ctl' = [ctl EXCEPT ![c] = me] /\ worker' = [worker EXCEPT ![c] = w]
      /\ task' = task /\ operations' = operations /\ clock' = clock
      /\ finished \subseteq finished' /\ LocalOK(me, w, task, finished')
  BY DEF Moves
<1>2. TypeOK'
  <2>1. ctl' \in [Controllers -> Locals] /\ worker' \in [Controllers -> WorkerStates]
    BY <1>1 DEF IInv, TypeOK
  <2>2. evidence' \in [Fences -> {"none", "spawn", "terminal"}]
    BY DEF Files, IInv, TypeOK
  <2>3. launches' \in [Fences -> Nat]
    BY DEF Launches, IInv, TypeOK
  <2>4. QED
    BY <1>1, <2>1, <2>2, <2>3 DEF IInv, TypeOK, Moves
<1>3. TaskOK'
  BY <1>1 DEF IInv, TaskOK
<1>4. \A r \in operations' : ReceiptOK(r, task')
  BY <1>1 DEF IInv
<1>5. \A d \in Controllers : LocalOK(ctl'[d], worker'[d], task', finished')
  <2>1. ASSUME NEW d \in Controllers
        PROVE  LocalOK(ctl'[d], worker'[d], task', finished')
    <3>1. CASE d = c
      BY <1>1, <3>1 DEF IInv, TypeOK
    <3>2. CASE d # c
      <4>1. ctl'[d] = ctl[d] /\ worker'[d] = worker[d] /\ LocalOK(ctl[d], worker[d], task, finished)
        BY <1>1, <3>2 DEF IInv, TypeOK
      <4>2. LocalOK(ctl[d], worker[d], task, finished')
        BY <1>1, <4>1 DEF LocalOK
      <4>3. QED
        BY <1>1, <4>1, <4>2
    <3>3. QED
      BY <3>1, <3>2
  <2>2. QED
    BY <2>1
<1>6. DoneByItsWorker'
  BY <1>1 DEF IInv, DoneByItsWorker
<1>7. EvidenceFollowsAuthority'
  <2>1. ctl[c].pc = "publish" /\ ReconcileTerminal =>
          task.status \in Terminal /\ task.fence = ctl[c].lease.fence
    BY DEF IInv, LocalOK
  <2>2. evidence \in [Fences -> {"none", "spawn", "terminal"}] /\ EvidenceFollowsAuthority
    BY DEF IInv, TypeOK
  <2>3. QED
    BY <1>1, <2>1, <2>2 DEF Files, EvidenceFollowsAuthority
<1>8. QED
  BY <1>2, <1>3, <1>4, <1>5, <1>6, <1>7 DEF IInv

(* An old receipt is one the task still agrees with.                       *)
LEMMA ReplayIs ==
  ASSUME IInv, NEW c \in Controllers, Replay(c)
  PROVE  /\ ctl[c].pc \in Calls
         /\ \E me, r : /\ Moves(c, me, worker[c]) /\ Files(c) /\ launches' = launches
                       /\ r \in operations /\ r.id = IdOf(c) /\ r.request = CallOf(c).request
                       /\ Taken(c, me, r)
<1>1. PICK r \in operations : /\ r.id = IdOf(c) /\ r.request = CallOf(c).request /\ Take(c, r)
                              /\ ctl[c].pc \in Calls
  BY DEF Replay, Remembered
<1>2. r \in Receipts /\ TypeOK /\ task \in Tasks /\ ReceiptOK(r, task)
      /\ LocalOK(ctl[c], worker[c], task, finished)
  BY DEF IInv, TypeOK
<1>3. PICK me \in Locals : ctl' = [ctl EXCEPT ![c] = me] /\ Taken(c, me, r)
  BY <1>1, <1>2, TakeIs
<1>4. r.id[1] = CallOf(c).kind /\ r.id[2] = ctl[c].lease.fence
  BY <1>1 DEF IdOf
<1>5. LocalOK(me, worker[c], task, finished)
  BY <1>1, <1>2, <1>3, <1>4, TakenIsOK
<1>6. /\ UNCHANGED <<task, operations, clock, checkpoint, evidence, worker, launches, finished, faults>>
      /\ worker' = [worker EXCEPT ![c] = worker[c]] /\ worker[c] \in WorkerStates
  BY <1>2 DEF Replay, files, processes, TypeOK
<1>7. Moves(c, me, worker[c]) /\ Files(c) /\ launches' = launches
  BY <1>2, <1>3, <1>5, <1>6 DEF Moves, Files, TypeOK
<1>8. QED
  BY <1>1, <1>3, <1>7

(* A controller that leaves, whatever it was at.                           *)
LEMMA LeaveIs ==
  ASSUME IInv, NEW c \in Controllers, Leave(c), NEW w \in {"none", worker[c]},
         w = "none" \/ ctl[c].pc \notin Working, worker' = [worker EXCEPT ![c] = w],
         UNCHANGED <<task, operations, clock, checkpoint, finished>>, faults' \in Nat
  PROVE  Moves(c, Idle, w) /\ Shape(c, Idle)
<1>1. w = "none"
  BY DEF IInv, LocalOK
<1>2. LocalOK(Idle, "none", task, finished)
  BY NothingIs DEF LocalOK, Holding, AfterLaunch
<1>3. Idle \in Locals /\ ctl' = [ctl EXCEPT ![c] = Idle]
  BY NothingIs DEF Leave
<1>4. Shape(c, Idle)
  BY NothingIs DEF Shape, Holding, AfterLaunch
<1>5. QED
  BY <1>1, <1>2, <1>3, <1>4 DEF Moves, IInv, TypeOK, WorkerStates

(* A controller that has its lease goes on with it: to a place of the same *)
(* kind, the worker running or ended only where one may be.                *)
LEMMA GoesOn ==
  ASSUME IInv, NEW c \in Controllers, NEW me \in Locals, ctl' = [ctl EXCEPT ![c] = me],
         NEW w \in {"none", worker[c]}, worker' = [worker EXCEPT ![c] = w],
         UNCHANGED <<task, operations, clock, finished>>,
         checkpoint' \in Fences \cup {0}, faults' = faults,
         ctl[c].pc \in Holding, ctl[c].pc # "fail_reconcile", me.lease = ctl[c].lease,
         me.pc \in Holding \ {"verify", "resume", "fail_reconcile", "publish"},
         ctl[c].pc \in AfterLaunch => me.pc \in AfterLaunch,
         me.status = ctl[c].status, me.status # "none" => me.pc \in Ended,
         w # "none" => me.pc \in Working,
         me.pc = "fail_event" => me.revision = task.revision
  PROVE  Moves(c, me, w) /\ Shape(c, me)
<1>1. LocalOK(ctl[c], worker[c], task, finished) /\ worker[c] \in WorkerStates
  BY DEF IInv, TypeOK
<1>2. LocalOK(me, w, task, finished)
  BY <1>1 DEF LocalOK, Holding, AfterLaunch
<1>3. Shape(c, me)
  BY DEF Shape
<1>4. QED
  BY <1>1, <1>2, <1>3 DEF Moves, IInv, TypeOK, WorkerStates

(* The local state of a controller, field by field.                        *)
Local(pc, revision, lease, beats, prior, status) ==
  [pc |-> pc, revision |-> revision, lease |-> lease, beats |-> beats, prior |-> prior,
   status |-> status]

LEMMA LocalIs ==
  ASSUME NEW me \in Locals
  PROVE  me = Local(me.pc, me.revision, me.lease, me.beats, me.prior, me.status)
BY DEF Local, Locals

LEMMA LocalType ==
  ASSUME NEW p \in Pcs, NEW n \in Nat, NEW l \in Leases, NEW b \in Nat, NEW k \in Nat, NEW s \in Statuses
  PROVE  Local(p, n, l, b, k, s) \in Locals
BY DEF Local, Locals

(* One field replaced.                                                     *)
LEMMA SetPc ==
  ASSUME NEW me \in Locals, NEW x \in Pcs
  PROVE  /\ [me EXCEPT !.pc = x] \in Locals
         /\ [me EXCEPT !.pc = x] = Local(x, me.revision, me.lease, me.beats, me.prior, me.status)
<1> DEFINE m == [me EXCEPT !.pc = x]
<1>1. m \in Locals
  BY DEF Locals
<1>2. /\ m.pc = x /\ m.revision = me.revision /\ m.lease = me.lease
      /\ m.beats = me.beats /\ m.prior = me.prior /\ m.status = me.status
  BY DEF Locals
<1> HIDE DEF m
<1>3. m = Local(x, me.revision, me.lease, me.beats, me.prior, me.status)
  BY <1>1, <1>2, LocalIs
<1>4. QED
  BY <1>1, <1>3 DEF m

LEMMA SetRevision ==
  ASSUME NEW me \in Locals, NEW x \in Nat
  PROVE  /\ [me EXCEPT !.revision = x] \in Locals
         /\ [me EXCEPT !.revision = x] = Local(me.pc, x, me.lease, me.beats, me.prior, me.status)
<1> DEFINE m == [me EXCEPT !.revision = x]
<1>1. m \in Locals
  BY DEF Locals
<1>2. /\ m.pc = me.pc /\ m.revision = x /\ m.lease = me.lease
      /\ m.beats = me.beats /\ m.prior = me.prior /\ m.status = me.status
  BY DEF Locals
<1> HIDE DEF m
<1>3. m = Local(me.pc, x, me.lease, me.beats, me.prior, me.status)
  BY <1>1, <1>2, LocalIs
<1>4. QED
  BY <1>1, <1>3 DEF m

LEMMA SetLease ==
  ASSUME NEW me \in Locals, NEW x \in Leases
  PROVE  /\ [me EXCEPT !.lease = x] \in Locals
         /\ [me EXCEPT !.lease = x] = Local(me.pc, me.revision, x, me.beats, me.prior, me.status)
<1> DEFINE m == [me EXCEPT !.lease = x]
<1>1. m \in Locals
  BY DEF Locals
<1>2. /\ m.pc = me.pc /\ m.revision = me.revision /\ m.lease = x
      /\ m.beats = me.beats /\ m.prior = me.prior /\ m.status = me.status
  BY DEF Locals
<1> HIDE DEF m
<1>3. m = Local(me.pc, me.revision, x, me.beats, me.prior, me.status)
  BY <1>1, <1>2, LocalIs
<1>4. QED
  BY <1>1, <1>3 DEF m

LEMMA SetBeats ==
  ASSUME NEW me \in Locals, NEW x \in Nat
  PROVE  /\ [me EXCEPT !.beats = x] \in Locals
         /\ [me EXCEPT !.beats = x] = Local(me.pc, me.revision, me.lease, x, me.prior, me.status)
<1> DEFINE m == [me EXCEPT !.beats = x]
<1>1. m \in Locals
  BY DEF Locals
<1>2. /\ m.pc = me.pc /\ m.revision = me.revision /\ m.lease = me.lease
      /\ m.beats = x /\ m.prior = me.prior /\ m.status = me.status
  BY DEF Locals
<1> HIDE DEF m
<1>3. m = Local(me.pc, me.revision, me.lease, x, me.prior, me.status)
  BY <1>1, <1>2, LocalIs
<1>4. QED
  BY <1>1, <1>3 DEF m

LEMMA SetStatus ==
  ASSUME NEW me \in Locals, NEW x \in Statuses
  PROVE  /\ [me EXCEPT !.status = x] \in Locals
         /\ [me EXCEPT !.status = x] = Local(me.pc, me.revision, me.lease, me.beats, me.prior, x)
<1> DEFINE m == [me EXCEPT !.status = x]
<1>1. m \in Locals
  BY DEF Locals
<1>2. /\ m.pc = me.pc /\ m.revision = me.revision /\ m.lease = me.lease
      /\ m.beats = me.beats /\ m.prior = me.prior /\ m.status = x
  BY DEF Locals
<1> HIDE DEF m
<1>3. m = Local(me.pc, me.revision, me.lease, me.beats, me.prior, x)
  BY <1>1, <1>2, LocalIs
<1>4. QED
  BY <1>1, <1>3 DEF m

LEMMA SetPrior ==
  ASSUME NEW me \in Locals, NEW x \in Nat
  PROVE  /\ [me EXCEPT !.prior = x] \in Locals
         /\ [me EXCEPT !.prior = x] = Local(me.pc, me.revision, me.lease, me.beats, x, me.status)
<1> DEFINE m == [me EXCEPT !.prior = x]
<1>1. m \in Locals
  BY DEF Locals
<1>2. /\ m.pc = me.pc /\ m.revision = me.revision /\ m.lease = me.lease
      /\ m.beats = me.beats /\ m.prior = x /\ m.status = me.status
  BY DEF Locals
<1> HIDE DEF m
<1>3. m = Local(me.pc, me.revision, me.lease, me.beats, x, me.status)
  BY <1>1, <1>2, LocalIs
<1>4. QED
  BY <1>1, <1>3 DEF m

(* Several, as the actions replace them.                                   *)
LEMMA SetPcRevision ==
  ASSUME NEW me \in Locals, NEW p \in Pcs, NEW x \in Nat
  PROVE  /\ [me EXCEPT !.pc = p, !.revision = x] \in Locals
         /\ [me EXCEPT !.pc = p, !.revision = x] = Local(p, x, me.lease, me.beats, me.prior, me.status)
<1> DEFINE m == [me EXCEPT !.pc = p]
<1>1. m \in Locals /\ m = Local(p, me.revision, me.lease, me.beats, me.prior, me.status)
  BY SetPc
<1>2. [me EXCEPT !.pc = p, !.revision = x] = [m EXCEPT !.revision = x]
  OBVIOUS
<1> HIDE DEF m
<1>3. [m EXCEPT !.revision = x] \in Locals /\ [m EXCEPT !.revision = x] = Local(m.pc, x, m.lease, m.beats, m.prior, m.status)
  BY <1>1, SetRevision
<1>4. QED
  BY <1>1, <1>2, <1>3 DEF Local

LEMMA SetPcPrior ==
  ASSUME NEW me \in Locals, NEW p \in Pcs, NEW x \in Nat
  PROVE  /\ [me EXCEPT !.pc = p, !.prior = x] \in Locals
         /\ [me EXCEPT !.pc = p, !.prior = x] = Local(p, me.revision, me.lease, me.beats, x, me.status)
<1> DEFINE m == [me EXCEPT !.pc = p]
<1>1. m \in Locals /\ m = Local(p, me.revision, me.lease, me.beats, me.prior, me.status)
  BY SetPc
<1>2. [me EXCEPT !.pc = p, !.prior = x] = [m EXCEPT !.prior = x]
  OBVIOUS
<1> HIDE DEF m
<1>3. [m EXCEPT !.prior = x] \in Locals /\ [m EXCEPT !.prior = x] = Local(m.pc, m.revision, m.lease, m.beats, x, m.status)
  BY <1>1, SetPrior
<1>4. QED
  BY <1>1, <1>2, <1>3 DEF Local

LEMMA SetPcStatus ==
  ASSUME NEW me \in Locals, NEW p \in Pcs, NEW x \in Statuses
  PROVE  /\ [me EXCEPT !.pc = p, !.status = x] \in Locals
         /\ [me EXCEPT !.pc = p, !.status = x] = Local(p, me.revision, me.lease, me.beats, me.prior, x)
<1> DEFINE m == [me EXCEPT !.pc = p]
<1>1. m \in Locals /\ m = Local(p, me.revision, me.lease, me.beats, me.prior, me.status)
  BY SetPc
<1>2. [me EXCEPT !.pc = p, !.status = x] = [m EXCEPT !.status = x]
  OBVIOUS
<1> HIDE DEF m
<1>3. [m EXCEPT !.status = x] \in Locals /\ [m EXCEPT !.status = x] = Local(m.pc, m.revision, m.lease, m.beats, m.prior, x)
  BY <1>1, SetStatus
<1>4. QED
  BY <1>1, <1>2, <1>3 DEF Local

LEMMA SetPcRevisionLease ==
  ASSUME NEW me \in Locals, NEW p \in Pcs, NEW n \in Nat, NEW x \in Leases
  PROVE  /\ [me EXCEPT !.pc = p, !.revision = n, !.lease = x] \in Locals
         /\ [me EXCEPT !.pc = p, !.revision = n, !.lease = x] = Local(p, n, x, me.beats, me.prior, me.status)
<1> DEFINE m == [me EXCEPT !.pc = p, !.revision = n]
<1>1. m \in Locals /\ m = Local(p, n, me.lease, me.beats, me.prior, me.status)
  BY SetPcRevision
<1>2. [me EXCEPT !.pc = p, !.revision = n, !.lease = x] = [m EXCEPT !.lease = x]
  OBVIOUS
<1> HIDE DEF m
<1>3. [m EXCEPT !.lease = x] \in Locals /\ [m EXCEPT !.lease = x] = Local(m.pc, m.revision, x, m.beats, m.prior, m.status)
  BY <1>1, SetLease
<1>4. QED
  BY <1>1, <1>2, <1>3 DEF Local

LEMMA SetPcRevisionBeats ==
  ASSUME NEW me \in Locals, NEW p \in Pcs, NEW n \in Nat, NEW x \in Nat
  PROVE  /\ [me EXCEPT !.pc = p, !.revision = n, !.beats = x] \in Locals
         /\ [me EXCEPT !.pc = p, !.revision = n, !.beats = x] = Local(p, n, me.lease, x, me.prior, me.status)
<1> DEFINE m == [me EXCEPT !.pc = p, !.revision = n]
<1>1. m \in Locals /\ m = Local(p, n, me.lease, me.beats, me.prior, me.status)
  BY SetPcRevision
<1>2. [me EXCEPT !.pc = p, !.revision = n, !.beats = x] = [m EXCEPT !.beats = x]
  OBVIOUS
<1> HIDE DEF m
<1>3. [m EXCEPT !.beats = x] \in Locals /\ [m EXCEPT !.beats = x] = Local(m.pc, m.revision, m.lease, x, m.prior, m.status)
  BY <1>1, SetBeats
<1>4. QED
  BY <1>1, <1>2, <1>3 DEF Local

LEMMA SetRevisionPc ==
  ASSUME NEW me \in Locals, NEW p \in Pcs, NEW n \in Nat
  PROVE  /\ [me EXCEPT !.revision = n, !.pc = p] \in Locals
         /\ [me EXCEPT !.revision = n, !.pc = p] = Local(p, n, me.lease, me.beats, me.prior, me.status)
<1> DEFINE m == [me EXCEPT !.revision = n]
<1>1. m \in Locals /\ m = Local(me.pc, n, me.lease, me.beats, me.prior, me.status)
  BY SetRevision
<1>2. [me EXCEPT !.revision = n, !.pc = p] = [m EXCEPT !.pc = p]
  OBVIOUS
<1> HIDE DEF m
<1>3. [m EXCEPT !.pc = p] \in Locals /\ [m EXCEPT !.pc = p] = Local(p, m.revision, m.lease, m.beats, m.prior, m.status)
  BY <1>1, SetPc
<1>4. QED
  BY <1>1, <1>2, <1>3 DEF Local

LEMMA Gotos ==
  ASSUME ctl \in [Controllers -> Locals], NEW c \in Controllers, NEW p, NEW n, NEW l, NEW s
  PROVE
    /\ [ctl EXCEPT ![c].pc = p] = [ctl EXCEPT ![c] = [ctl[c] EXCEPT !.pc = p]]
    /\ [ctl EXCEPT ![c].pc = p, ![c].revision = n] = [ctl EXCEPT ![c] = [ctl[c] EXCEPT !.pc = p, !.revision = n]]
    /\ [ctl EXCEPT ![c].revision = n, ![c].pc = p] = [ctl EXCEPT ![c] = [ctl[c] EXCEPT !.revision = n, !.pc = p]]
    /\ [ctl EXCEPT ![c].pc = p, ![c].revision = n, ![c].lease = l] = [ctl EXCEPT ![c] = [ctl[c] EXCEPT !.pc = p, !.revision = n, !.lease = l]]
    /\ [ctl EXCEPT ![c].pc = p, ![c].revision = n, ![c].beats = @ + 1] = [ctl EXCEPT ![c] = [ctl[c] EXCEPT !.pc = p, !.revision = n, !.beats = ctl[c].beats + 1]]
    /\ [ctl EXCEPT ![c].pc = p, ![c].status = s] = [ctl EXCEPT ![c] = [ctl[c] EXCEPT !.pc = p, !.status = s]]
BY DEF Locals

---------------------------------------------------------------------------
(* The steps, one by one.                                                  *)

Near(c) ==
  \E me \in Locals, w \in WorkerStates :
    Moves(c, me, w) /\ Files(c) /\ Launches(c, me) /\ Shape(c, me)

LEMMA Here ==
  ASSUME IInv, NEW c \in Controllers
  PROVE  /\ TypeOK /\ ctl \in [Controllers -> Locals] /\ ctl[c] \in Locals
         /\ worker[c] \in WorkerStates /\ worker = [worker EXCEPT ![c] = worker[c]]
         /\ ctl[c].pc \in Pcs /\ ctl[c].revision \in Nat /\ ctl[c].lease \in Leases /\ ctl[c].beats \in Nat
         /\ ctl[c].prior \in Nat /\ ctl[c].status \in Statuses
         /\ task \in Tasks /\ task.revision \in Nat /\ task.lease \in Leases
         /\ checkpoint \in Fences \cup {0} /\ faults \in Nat /\ finished \subseteq Fences
         /\ LocalOK(ctl[c], worker[c], task, finished)
BY DEF IInv, TypeOK, Locals, Tasks

(* A controller that leaves with nothing else changed.                     *)
LEMMA Leaves ==
  ASSUME IInv, NEW c \in Controllers, Leave(c), ctl[c].pc \notin Working,
         UNCHANGED <<task, operations, clock, checkpoint, evidence, worker, launches, finished, faults>>
  PROVE  Near(c)
<1>1. Moves(c, Idle, worker[c]) /\ Shape(c, Idle)
  BY Here, LeaveIs
<1>2. QED
  BY <1>1, Here, NothingIs DEF Near, Files, Launches

(* A controller that goes on at another place with nothing else changed.   *)
LEMMA GoesTo ==
  ASSUME IInv, NEW c \in Controllers, NEW pc \in Pcs, Goto(c, pc),
         UNCHANGED <<task, operations, clock, checkpoint, evidence, worker, launches, finished, faults>>,
         ctl[c].pc \in Holding, ctl[c].pc # "fail_reconcile",
         pc \in Holding \ {"verify", "resume", "fail_reconcile", "publish", "fail_event"},
         ctl[c].pc \in AfterLaunch => pc \in AfterLaunch,
         ctl[c].status # "none" => pc \in Ended,
         worker[c] # "none" => pc \in Working
  PROVE  Near(c)
<1> DEFINE me == Local(pc, ctl[c].revision, ctl[c].lease, ctl[c].beats, ctl[c].prior, ctl[c].status)
<1>1. ctl' = [ctl EXCEPT ![c] = [ctl[c] EXCEPT !.pc = pc]]
  BY Here, Gotos DEF Goto
<1>2. [ctl[c] EXCEPT !.pc = pc] = me /\ me \in Locals
  BY Here, SetPc
<1>3. me.pc = pc /\ me.lease = ctl[c].lease /\ me.status = ctl[c].status
  BY DEF Local
<1> HIDE DEF me
<1>4. Moves(c, me, worker[c]) /\ Shape(c, me)
  BY <1>1, <1>2, <1>3, Here, GoesOn
<1>5. QED
  BY <1>2, <1>4, Here DEF Near, Files, Launches

LEMMA RefusedIs ==
  ASSUME IInv, NEW c \in Controllers, Refused(c)
  PROVE  Near(c)
<1>1. /\ ctl[c].pc \in Calls
      /\ UNCHANGED <<task, operations, clock, checkpoint, evidence, worker, launches, finished, faults>>
      /\ IF ctl[c].pc \in GuardedCalls THEN Goto(c, "failing") ELSE Leave(c)
  BY DEF Refused, files, processes
<1>2. CASE ctl[c].pc \in GuardedCalls
  BY <1>1, <1>2, GoesTo DEF GuardedCalls, Holding, AfterLaunch, Ended, Working, Pcs
<1>3. CASE ctl[c].pc \notin GuardedCalls
  BY <1>1, <1>3, Leaves DEF GuardedCalls, FailureCalls, Calls, Working
<1>4. QED
  BY <1>2, <1>3

(* A controller that begins or compares holds nothing.                     *)
LEMMA BeginIs ==
  ASSUME IInv, NEW c \in Controllers, Begin(c)
  PROVE  Near(c)
<1> DEFINE me == Local("claim", task.revision, NoLease, 0, 0, "none")
<1>1. /\ ctl[c].pc = "idle" /\ task.status = "open" /\ ctl' = [ctl EXCEPT ![c] = me]
      /\ UNCHANGED <<task, operations, clock, checkpoint, evidence, worker, launches, finished, faults>>
  <2>1. [Idle EXCEPT !.pc = "claim", !.revision = task.revision]
          = Local("claim", task.revision, Idle.lease, Idle.beats, Idle.prior, Idle.status)
    <3>1. "claim" \in Pcs /\ task.revision \in Nat
      BY Here DEF Pcs, Calls
    <3>2. QED
      BY <3>1, NothingIs, SetPcRevision
  <2>2. Idle.lease = NoLease /\ Idle.beats = 0 /\ Idle.prior = 0 /\ Idle.status = "none"
    BY DEF Idle
  <2>3. QED
    BY <2>1, <2>2 DEF Begin, files, processes
<1>2. me \in Locals
  <2>1. "claim" \in Pcs /\ task.revision \in Nat /\ 0 \in Nat /\ "none" \in Statuses
    BY Here DEF Pcs, Calls, Statuses
  <2>2. QED
    BY <2>1, NothingIs, LocalType
<1>3. me.pc = "claim" /\ me.lease = NoLease /\ me.status = "none"
  BY DEF Local
<1> HIDE DEF me
<1>4. worker[c] = "none"
  BY <1>1, Here DEF LocalOK, Working
<1>5. LocalOK(me, worker[c], task, finished)
  BY <1>3, <1>4 DEF LocalOK, Holding, AfterLaunch
<1>6. QED
  BY <1>1, <1>2, <1>3, <1>5, Here DEF Near, Moves, Files, Launches, Shape

LEMMA BeginRecoveryIs ==
  ASSUME IInv, NEW c \in Controllers, BeginRecovery(c)
  PROVE  Near(c)
<1> DEFINE me == Local("compare", 0, NoLease, 0, checkpoint, "none")
<1>1. /\ ctl[c].pc = "idle" /\ ctl' = [ctl EXCEPT ![c] = me]
      /\ UNCHANGED <<task, operations, clock, checkpoint, evidence, worker, launches, finished, faults>>
  <2>1. [Idle EXCEPT !.pc = "compare", !.prior = checkpoint]
          = Local("compare", Idle.revision, Idle.lease, Idle.beats, checkpoint, Idle.status)
    <3>1. "compare" \in Pcs /\ checkpoint \in Nat
      BY Here, ControllerBounds DEF Pcs, Fences
    <3>2. QED
      BY <3>1, NothingIs, SetPcPrior
  <2>2. Idle.revision = 0 /\ Idle.lease = NoLease /\ Idle.beats = 0 /\ Idle.status = "none"
    BY DEF Idle
  <2>3. QED
    BY <2>1, <2>2 DEF BeginRecovery, files, processes
<1>2. me \in Locals
  <2>1. checkpoint \in Nat
    BY Here, ControllerBounds DEF Fences
  <2>2. QED
    BY <2>1, NothingIs, LocalType DEF Pcs, Statuses
<1>3. me.pc = "compare" /\ me.status = "none"
  BY DEF Local
<1> HIDE DEF me
<1>4. worker[c] = "none"
  BY <1>1, Here DEF LocalOK, Working
<1>5. LocalOK(me, worker[c], task, finished)
  BY <1>3, <1>4 DEF LocalOK, Holding, AfterLaunch
<1>6. QED
  BY <1>1, <1>2, <1>3, <1>5, Here DEF Near, Moves, Files, Launches, Shape, Holding, AfterLaunch

LEMMA CompareFenceIs ==
  ASSUME IInv, NEW c \in Controllers, CompareFence(c)
  PROVE  Near(c)
<1>1. /\ ctl[c].pc = "compare"
      /\ UNCHANGED <<task, operations, clock, checkpoint, evidence, worker, launches, finished, faults>>
  BY DEF CompareFence, files, processes
<1>2. CASE task.lease # NoLease /\ task.lease.fence = ctl[c].prior
  <2> DEFINE me == Local("recover", task.revision, task.lease, ctl[c].beats, ctl[c].prior, ctl[c].status)
  <2>1. ctl' = [ctl EXCEPT ![c].pc = "recover", ![c].revision = task.revision, ![c].lease = task.lease]
    BY <1>2 DEF CompareFence
  <2>2. ctl' = [ctl EXCEPT ![c] = [ctl[c] EXCEPT !.pc = "recover", !.revision = task.revision, !.lease = task.lease]]
    BY <2>1, Here, Gotos
  <2>3. "recover" \in Pcs
    BY DEF Pcs, Calls
  <2>4. me \in Locals /\ ctl' = [ctl EXCEPT ![c] = me]
    <3>1. me \in Locals
      BY <2>3, Here, LocalType
    <3>2. [ctl[c] EXCEPT !.pc = "recover", !.revision = task.revision, !.lease = task.lease] = me
      BY <2>3, Here, SetPcRevisionLease
    <3>3. QED
      BY <2>2, <3>1, <3>2
  <2>5. /\ me.pc = "recover" /\ me.status = ctl[c].status /\ me.prior = ctl[c].prior
        /\ me.lease = task.lease /\ me.revision = task.revision
    BY DEF Local
  <2> HIDE DEF me
  <2>6. worker[c] = "none" /\ ctl[c].status = "none"
    BY <1>1, Here DEF LocalOK, Working, Ended
  <2>7. task.status = "running" /\ 1 <= task.fence /\ task.lease.fence = task.fence
    BY <1>2 DEF IInv, TaskOK
  <2>8. task.fence \in Nat
    BY Here DEF Tasks
  <2>9. LocalOK(me, worker[c], task, finished)
    BY <1>2, <2>5, <2>6, <2>7, <2>8, Here DEF LocalOK, Holding, AfterLaunch
  <2>10. QED
    BY <1>1, <2>4, <2>5, <2>9, Here DEF Near, Moves, Files, Launches, Shape
<1>3. CASE ~(task.lease # NoLease /\ task.lease.fence = ctl[c].prior)
  <2>1. Leave(c)
    BY <1>3 DEF CompareFence
  <2>2. QED
    BY <1>1, <2>1, Leaves DEF Working
<1>4. QED
  BY <1>2, <1>3

LEMMA VerifyCheckpointIs ==
  ASSUME IInv, NEW c \in Controllers, VerifyCheckpoint(c)
  PROVE  Near(c)
<1>1. /\ ctl[c].pc = "verify"
      /\ UNCHANGED <<task, operations, clock, checkpoint, evidence, worker, launches, finished, faults>>
      /\ Goto(c, "resume") \/ Leave(c)
  BY DEF VerifyCheckpoint, files, processes
<1>2. CASE Goto(c, "resume")
  <2> DEFINE me == Local("resume", ctl[c].revision, ctl[c].lease, ctl[c].beats, ctl[c].prior, ctl[c].status)
  <2>1. ctl' = [ctl EXCEPT ![c] = [ctl[c] EXCEPT !.pc = "resume"]]
    BY <1>2, Here, Gotos DEF Goto
  <2>2. "resume" \in Pcs
    BY DEF Pcs
  <2>3. me \in Locals /\ ctl' = [ctl EXCEPT ![c] = me]
    BY <2>1, <2>2, Here, SetPc
  <2>4. me.pc = "resume" /\ me.status = ctl[c].status /\ me.prior = ctl[c].prior /\ me.lease = ctl[c].lease
    BY DEF Local
  <2> HIDE DEF me
  <2>5. LocalOK(me, worker[c], task, finished)
    BY <1>1, <2>4, Here DEF LocalOK, Holding, AfterLaunch, Ended, Working
  <2>6. Shape(c, me)
    BY <1>1, <2>4 DEF Shape, Holding, AfterLaunch
  <2>7. QED
    BY <1>1, <2>3, <2>5, <2>6, Here DEF Near, Moves, Files, Launches
<1>3. CASE Leave(c)
  BY <1>1, <1>3, Leaves DEF Working
<1>4. QED
  BY <1>1, <1>2, <1>3

(* A new revision with the new place: the lease and the rest are kept.     *)
LEMMA Rereads ==
  ASSUME IInv, NEW c \in Controllers, NEW pc \in Pcs, NEW w \in {"none", worker[c]},
         \/ ctl' = [ctl EXCEPT ![c].pc = pc, ![c].revision = task.revision]
         \/ ctl' = [ctl EXCEPT ![c].revision = task.revision, ![c].pc = pc]
         \/ ctl' = [ctl EXCEPT ![c].pc = pc, ![c].revision = task.revision, ![c].beats = @ + 1],
         worker' = [worker EXCEPT ![c] = w],
         UNCHANGED <<task, operations, clock, checkpoint, evidence, launches, finished, faults>>,
         ctl[c].pc \in Holding, ctl[c].pc # "fail_reconcile",
         pc \in Holding \ {"verify", "resume", "fail_reconcile"},
         pc = "publish" => ~ReconcileTerminal,
         ctl[c].pc \in AfterLaunch => pc \in AfterLaunch,
         ctl[c].status # "none" => pc \in Ended,
         w # "none" => pc \in Working
  PROVE  Near(c)
<1>1. PICK me \in Locals : /\ ctl' = [ctl EXCEPT ![c] = me]
                           /\ me.pc = pc /\ me.revision = task.revision
                           /\ me.lease = ctl[c].lease /\ me.status = ctl[c].status
  <2> DEFINE m1 == Local(pc, task.revision, ctl[c].lease, ctl[c].beats, ctl[c].prior, ctl[c].status)
             m2 == Local(pc, task.revision, ctl[c].lease, ctl[c].beats + 1, ctl[c].prior, ctl[c].status)
  <2>0. /\ ctl[c] \in Locals /\ task.revision \in Nat /\ ctl[c].lease \in Leases /\ ctl[c].beats \in Nat
        /\ ctl[c].beats + 1 \in Nat /\ ctl[c].prior \in Nat /\ ctl[c].status \in Statuses
    BY Here
  <2>1. m1 \in Locals /\ m2 \in Locals
    BY <2>0, LocalType
  <2>2. /\ m1.pc = pc /\ m1.revision = task.revision /\ m1.lease = ctl[c].lease /\ m1.status = ctl[c].status
        /\ m2.pc = pc /\ m2.revision = task.revision /\ m2.lease = ctl[c].lease /\ m2.status = ctl[c].status
    BY DEF Local
  <2>3. /\ [ctl[c] EXCEPT !.pc = pc, !.revision = task.revision] = m1
        /\ [ctl[c] EXCEPT !.revision = task.revision, !.pc = pc] = m1
        /\ [ctl[c] EXCEPT !.pc = pc, !.revision = task.revision, !.beats = ctl[c].beats + 1] = m2
    <3>1. [ctl[c] EXCEPT !.pc = pc, !.revision = task.revision] = m1
      BY <2>0, SetPcRevision
    <3>2. [ctl[c] EXCEPT !.revision = task.revision, !.pc = pc] = m1
      BY <2>0, SetRevisionPc
    <3>3. [ctl[c] EXCEPT !.pc = pc, !.revision = task.revision, !.beats = ctl[c].beats + 1] = m2
      BY <2>0, SetPcRevisionBeats
    <3>4. QED
      BY <3>1, <3>2, <3>3
  <2>4. \/ ctl' = [ctl EXCEPT ![c] = [ctl[c] EXCEPT !.pc = pc, !.revision = task.revision]]
        \/ ctl' = [ctl EXCEPT ![c] = [ctl[c] EXCEPT !.revision = task.revision, !.pc = pc]]
        \/ ctl' = [ctl EXCEPT ![c] = [ctl[c] EXCEPT !.pc = pc, !.revision = task.revision, !.beats = ctl[c].beats + 1]]
    BY Here, Gotos
  <2> HIDE DEF m1, m2
  <2>5. QED
    BY <2>1, <2>2, <2>3, <2>4
<1>2. LocalOK(me, w, task, finished)
  BY <1>1, Here DEF LocalOK, Holding, AfterLaunch
<1>3. Shape(c, me)
  BY <1>1 DEF Shape
<1>4. w \in WorkerStates
  BY Here DEF WorkerStates
<1>5. QED
  BY <1>1, <1>2, <1>3, <1>4, Here DEF Near, Moves, Files, Launches

LEMMA ResumeIs ==
  ASSUME IInv, NEW c \in Controllers, Resume(c)
  PROVE  Near(c)
<1>1. /\ ctl[c].pc = "resume"
      /\ UNCHANGED <<task, operations, clock, checkpoint, evidence, worker, launches, finished, faults>>
      /\ ctl' = [ctl EXCEPT ![c].pc = "evidence", ![c].revision = task.revision] \/ Leave(c)
  BY DEF Resume, files, processes
<1>2. worker[c] = "none" /\ ctl[c].status = "none"
  BY <1>1, Here DEF LocalOK, Working, Ended
<1>3. worker' = [worker EXCEPT ![c] = worker[c]] /\ "evidence" \in Pcs
  BY <1>1, Here DEF Pcs
<1>4. CASE Leave(c)
  BY <1>1, <1>4, Leaves DEF Working
<1>5. CASE ctl' = [ctl EXCEPT ![c].pc = "evidence", ![c].revision = task.revision]
  BY <1>1, <1>2, <1>3, <1>5, Rereads DEF Holding, AfterLaunch
<1>6. QED
  BY <1>1, <1>4, <1>5

LEMMA CheckEvidenceIs ==
  ASSUME IInv, NEW c \in Controllers, CheckEvidence(c)
  PROVE  Near(c)
<1>1. /\ ctl[c].pc = "evidence" /\ (Goto(c, "started") \/ Leave(c))
      /\ UNCHANGED <<task, operations, clock, checkpoint, evidence, worker, launches, finished, faults>>
  BY DEF CheckEvidence, files, processes
<1>2. worker[c] = "none" /\ ctl[c].status = "none"
  BY <1>1, Here DEF LocalOK, Working, Ended
<1>3. CASE Goto(c, "started")
  BY <1>1, <1>2, <1>3, GoesTo DEF Holding, AfterLaunch, Pcs, Calls, GuardedCalls
<1>4. CASE Leave(c)
  BY <1>1, <1>4, Leaves DEF Working
<1>5. QED
  BY <1>1, <1>3, <1>4

LEMMA LaunchIs ==
  ASSUME IInv, NEW c \in Controllers, Launch(c)
  PROVE  Near(c)
<1>1. /\ ctl[c].pc = "launch"
      /\ UNCHANGED <<task, operations, clock, checkpoint, evidence, finished, faults>>
  BY DEF Launch, files
<1>2. worker[c] = "none" /\ ctl[c].status = "none" /\ ctl[c].lease.fence \in Fences
  BY <1>1, Here, FenceIsOne DEF LocalOK, Working, Ended, Holding
<1>3. CASE Goto(c, "failing") /\ UNCHANGED <<worker, launches>>
  BY <1>1, <1>2, <1>3, GoesTo DEF Holding, AfterLaunch, Pcs
<1>4. CASE /\ worker' = [worker EXCEPT ![c] = "running"] /\ Goto(c, "spawned")
           /\ launches' = [launches EXCEPT ![ctl[c].lease.fence] = @ + 1]
  <2> DEFINE me == Local("spawned", ctl[c].revision, ctl[c].lease, ctl[c].beats, ctl[c].prior, ctl[c].status)
  <2>1. ctl' = [ctl EXCEPT ![c] = [ctl[c] EXCEPT !.pc = "spawned"]]
    BY <1>4, Here, Gotos DEF Goto
  <2>2. "spawned" \in Pcs
    BY DEF Pcs
  <2>3. me \in Locals /\ ctl' = [ctl EXCEPT ![c] = me]
    BY <2>1, <2>2, Here, SetPc
  <2>4. me.pc = "spawned" /\ me.status = ctl[c].status /\ me.lease = ctl[c].lease
    BY DEF Local
  <2> HIDE DEF me
  <2>5. LocalOK(me, "running", task, finished)
    BY <1>1, <1>2, <2>4, Here DEF LocalOK, Holding, AfterLaunch, Working
  <2>6. Shape(c, me)
    BY <1>1, <2>4 DEF Shape, Holding, AfterLaunch
  <2>7. Launches(c, me)
    BY <1>1, <1>2, <1>4, <2>4 DEF Launches
  <2>8. Moves(c, me, "running") /\ Files(c) /\ "running" \in WorkerStates
    BY <1>1, <1>4, <2>3, <2>5, Here DEF Moves, Files, WorkerStates
  <2>9. QED
    BY <2>3, <2>6, <2>7, <2>8 DEF Near
<1>5. QED
  BY <1>3, <1>4 DEF Launch

(* On to a place with the files written meanwhile.                         *)
LEMMA GoesWriting ==
  ASSUME IInv, NEW c \in Controllers, Goto(c, "monitor"),
         ctl[c].pc \in {"spawned", "checkpoint"}, Files(c), checkpoint' \in Fences \cup {0},
         UNCHANGED <<task, operations, clock, worker, launches, finished, faults>>
  PROVE  Near(c)
<1> DEFINE me == Local("monitor", ctl[c].revision, ctl[c].lease, ctl[c].beats, ctl[c].prior, ctl[c].status)
<1>1. ctl' = [ctl EXCEPT ![c] = [ctl[c] EXCEPT !.pc = "monitor"]]
  BY Here, Gotos DEF Goto
<1>2. "monitor" \in Pcs
  BY DEF Pcs
<1>3. me \in Locals /\ ctl' = [ctl EXCEPT ![c] = me]
  BY <1>1, <1>2, Here, SetPc
<1>4. me.pc = "monitor" /\ me.status = ctl[c].status /\ me.lease = ctl[c].lease
  BY DEF Local
<1> HIDE DEF me
<1>5. LocalOK(me, worker[c], task, finished)
  BY <1>4, Here DEF LocalOK, Holding, AfterLaunch, Working, Ended
<1>6. Shape(c, me)
  BY <1>4 DEF Shape, Holding, AfterLaunch
<1>7. QED
  BY <1>3, <1>5, <1>6, Here DEF Near, Moves, Launches

LEMMA RecordSpawnIs ==
  ASSUME IInv, NEW c \in Controllers, RecordSpawn(c)
  PROVE  Near(c)
<1>1. /\ ctl[c].pc = "spawned" /\ Goto(c, "monitor")
      /\ evidence' = [evidence EXCEPT ![ctl[c].lease.fence] = "spawn"]
      /\ UNCHANGED <<task, operations, clock, checkpoint, worker, launches, finished, faults>>
  BY DEF RecordSpawn, processes
<1>2. Files(c)
  BY <1>1, FenceIsOne DEF Files, Holding, AfterLaunch
<1>3. QED
  BY <1>1, <1>2, GoesWriting, Here

LEMMA SaveCheckpointIs ==
  ASSUME IInv, NEW c \in Controllers, SaveCheckpoint(c)
  PROVE  Near(c)
<1>1. /\ ctl[c].pc = "checkpoint" /\ Goto(c, "monitor") /\ checkpoint' = ctl[c].lease.fence
      /\ UNCHANGED <<task, operations, clock, evidence, worker, launches, finished, faults>>
  BY DEF SaveCheckpoint, processes
<1>2. checkpoint' \in Fences
  BY <1>1, FenceIsOne DEF Holding, AfterLaunch
<1>3. QED
  BY <1>1, <1>2, GoesWriting DEF Files

LEMMA BeginRenewalIs ==
  ASSUME IInv, NEW c \in Controllers, BeginRenewal(c)
  PROVE  Near(c)
<1>1. /\ ctl[c].pc = "monitor"
      /\ UNCHANGED <<task, operations, clock, checkpoint, evidence, worker, launches, finished, faults>>
      /\ \/ ctl' = [ctl EXCEPT ![c].pc = "renew", ![c].revision = task.revision, ![c].beats = @ + 1]
         \/ Goto(c, "failing")
  BY DEF BeginRenewal, files, processes
<1>2. ctl[c].status = "none"
  BY <1>1, Here DEF LocalOK, Ended
<1>3. worker' = [worker EXCEPT ![c] = worker[c]] /\ "renew" \in Pcs /\ "failing" \in Pcs
  BY <1>1, Here DEF Pcs, Calls, GuardedCalls
<1>4. CASE ctl' = [ctl EXCEPT ![c].pc = "renew", ![c].revision = task.revision, ![c].beats = @ + 1]
  BY <1>1, <1>2, <1>3, <1>4, Rereads DEF Holding, AfterLaunch, Working
<1>5. CASE Goto(c, "failing")
  BY <1>1, <1>2, <1>3, <1>5, GoesTo DEF Holding, AfterLaunch, Working
<1>6. QED
  BY <1>1, <1>4, <1>5

(* The end of the worker, as the monitor saw it.                           *)
LEMMA WorkerGone ==
  ASSUME IInv, NEW c \in Controllers, ctl[c].pc = "monitor", NEW s \in Statuses,
         s = "completed" => worker[c] = "ok",
         ctl' = [ctl EXCEPT ![c].pc = "terminal", ![c].status = s],
         worker' = [worker EXCEPT ![c] = "none"],
         UNCHANGED <<task, operations, clock, checkpoint, evidence, launches, finished, faults>>
  PROVE  Near(c)
<1> DEFINE me == Local("terminal", ctl[c].revision, ctl[c].lease, ctl[c].beats, ctl[c].prior, s)
<1>1. ctl' = [ctl EXCEPT ![c] = [ctl[c] EXCEPT !.pc = "terminal", !.status = s]]
  BY Here, Gotos
<1>2. "terminal" \in Pcs
  BY DEF Pcs, Calls, GuardedCalls
<1>3. me \in Locals /\ ctl' = [ctl EXCEPT ![c] = me]
  <2>1. ctl[c] \in Locals
    BY Here
  <2> HIDE DEF IInv
  <2>2. [ctl[c] EXCEPT !.pc = "terminal", !.status = s] \in Locals
    BY <1>2, <2>1, SetPcStatus
  <2>3. [ctl[c] EXCEPT !.pc = "terminal", !.status = s] = me
    BY <1>2, <2>1, SetPcStatus
  <2>4. QED
    BY <1>1, <2>2, <2>3
<1>4. me.pc = "terminal" /\ me.status = s /\ me.lease = ctl[c].lease
  BY DEF Local
<1> HIDE DEF me
<1>5. LocalOK(me, "none", task, finished)
  BY <1>4, Here DEF LocalOK, Holding, AfterLaunch, Working, Ended
<1>6. Shape(c, me)
  BY <1>4 DEF Shape, Holding, AfterLaunch
<1>7. QED
  BY <1>3, <1>5, <1>6, Here DEF Near, Moves, Launches, Files, WorkerStates

LEMMA StopWorkerIs ==
  ASSUME IInv, NEW c \in Controllers, StopWorker(c)
  PROVE  Near(c)
BY WorkerGone DEF StopWorker, files, Statuses

LEMMA ReapIs ==
  ASSUME IInv, NEW c \in Controllers, Reap(c)
  PROVE  Near(c)
<1> DEFINE s == IF worker[c] = "ok" THEN "completed" ELSE "failed"
<1>1. s \in Statuses /\ (s = "completed" => worker[c] = "ok")
  BY DEF Statuses
<1>2. /\ ctl[c].pc = "monitor" /\ ctl' = [ctl EXCEPT ![c].pc = "terminal", ![c].status = s]
      /\ worker' = [worker EXCEPT ![c] = "none"]
      /\ UNCHANGED <<task, operations, clock, checkpoint, evidence, launches, finished, faults>>
  BY DEF Reap, files
<1> HIDE DEF s
<1>3. QED
  BY <1>1, <1>2, WorkerGone

LEMMA SnapshotIs ==
  ASSUME IInv, NEW c \in Controllers, Snapshot(c)
  PROVE  Near(c)
<1> DEFINE pc == IF ReconcileTerminal THEN "reconcile" ELSE "publish"
<1>1. /\ ctl[c].pc = "snapshot" /\ ctl' = [ctl EXCEPT ![c].revision = task.revision, ![c].pc = pc]
      /\ UNCHANGED <<task, operations, clock, checkpoint, evidence, worker, launches, finished, faults>>
  BY DEF Snapshot, files, processes
<1>2. worker[c] = "none"
  BY <1>1, Here DEF LocalOK, Working
<1>3. worker' = [worker EXCEPT ![c] = worker[c]]
  BY <1>1, Here
<1>4. /\ pc \in Pcs /\ pc \in {"reconcile", "publish"} /\ (pc = "publish" => ~ReconcileTerminal)
  BY ControllerBounds DEF Pcs, Calls, GuardedCalls
<1> HIDE DEF pc
<1>5. QED
  BY <1>1, <1>2, <1>3, <1>4, Rereads DEF Holding, AfterLaunch, Ended

LEMMA PublishEvidenceIs ==
  ASSUME IInv, NEW c \in Controllers, PublishEvidence(c)
  PROVE  Near(c)
<1>1. /\ ctl[c].pc = "publish" /\ Leave(c)
      /\ evidence' = [evidence EXCEPT ![ctl[c].lease.fence] = "terminal"]
      /\ UNCHANGED <<task, operations, clock, checkpoint, worker, launches, finished, faults>>
  BY DEF PublishEvidence, processes
<1>2. Moves(c, Idle, worker[c]) /\ Shape(c, Idle)
  BY <1>1, Here, LeaveIs DEF Working
<1>3. Files(c) /\ Launches(c, Idle)
  BY <1>1, FenceIsOne DEF Files, Launches, Holding, AfterLaunch
<1>4. QED
  BY <1>2, <1>3, Here, NothingIs DEF Near

(* A worker that is ended, its controller leaving.                         *)
LEMMA LeavesEnding ==
  ASSUME IInv, NEW c \in Controllers, Leave(c), worker' = [worker EXCEPT ![c] = "none"],
         UNCHANGED <<task, operations, clock, checkpoint, evidence, launches, finished>>, faults' \in Nat
  PROVE  Near(c)
<1>1. Moves(c, Idle, "none") /\ Shape(c, Idle)
  BY Here, LeaveIs
<1>2. QED
  BY <1>1, Here, NothingIs DEF Near, Files, Launches, WorkerStates

LEMMA FailIs ==
  ASSUME IInv, NEW c \in Controllers, Fail(c)
  PROVE  Near(c)
<1>1. /\ ctl[c].pc = "failing" /\ worker' = [worker EXCEPT ![c] = "none"]
      /\ UNCHANGED <<task, operations, clock, checkpoint, evidence, launches, finished, faults>>
      /\ \/ ctl' = [ctl EXCEPT ![c].pc = "fail_event", ![c].revision = task.revision]
         \/ Leave(c)
  BY DEF Fail, files
<1>2. CASE Leave(c)
  BY <1>1, <1>2, Here, LeavesEnding
<1>3. CASE ctl' = [ctl EXCEPT ![c].pc = "fail_event", ![c].revision = task.revision]
  <2>1. "fail_event" \in Pcs
    BY DEF Pcs, Calls, FailureCalls
  <2>2. QED
    BY <1>1, <1>3, <2>1, Rereads DEF Holding, AfterLaunch, Ended
<1>4. QED
  BY <1>1, <1>2, <1>3

LEMMA CrashIs ==
  ASSUME IInv, NEW c \in Controllers, Crash(c)
  PROVE  Near(c)
<1>1. faults' \in Nat
  BY Here DEF Crash
<1>2. QED
  BY <1>1, LeavesEnding DEF Crash, files

LEMMA WorkerEndsIs ==
  ASSUME IInv, NEW c \in Controllers, WorkerEnds(c)
  PROVE  Near(c)
<1>1. /\ worker[c] = "running" /\ ctl' = ctl
      /\ UNCHANGED <<task, operations, clock, checkpoint, evidence, launches, faults>>
      /\ \/ worker' = [worker EXCEPT ![c] = "ok"] /\ finished' = finished \cup {ctl[c].lease.fence}
         \/ worker' = [worker EXCEPT ![c] = "bad"] /\ finished' = finished
  BY DEF WorkerEnds, files
<1>2. ctl[c].pc \in Working /\ ctl[c].pc \in Holding
  BY <1>1, Here DEF LocalOK, Working, Holding, AfterLaunch
<1>3. ctl' = [ctl EXCEPT ![c] = ctl[c]] /\ ctl[c].lease.fence \in Fences
  BY <1>1, <1>2, Here, FenceIsOne
<1>4. Shape(c, ctl[c])
  BY <1>2 DEF Shape, Working
<1>5. CASE worker' = [worker EXCEPT ![c] = "ok"] /\ finished' = finished \cup {ctl[c].lease.fence}
  <2>1. LocalOK(ctl[c], "ok", task, finished')
    BY <1>2, <1>5, Here DEF LocalOK
  <2>2. Moves(c, ctl[c], "ok") /\ "ok" \in WorkerStates
    BY <1>1, <1>3, <1>5, <2>1, Here DEF Moves, WorkerStates
  <2>3. QED
    BY <1>1, <1>4, <2>2, Here DEF Near, Files, Launches
<1>6. CASE worker' = [worker EXCEPT ![c] = "bad"] /\ finished' = finished
  <2>1. LocalOK(ctl[c], "bad", task, finished')
    BY <1>2, <1>6, Here DEF LocalOK
  <2>2. Moves(c, ctl[c], "bad") /\ "bad" \in WorkerStates
    BY <1>1, <1>3, <1>6, <2>1, Here DEF Moves, WorkerStates
  <2>3. QED
    BY <1>1, <1>4, <2>2, Here DEF Near, Files, Launches
<1>7. QED
  BY <1>1, <1>5, <1>6

---------------------------------------------------------------------------
(* Every step is a write, an old answer, a step by oneself, or the clock's.*)

LEMMA StepOf ==
  ASSUME IInv, NEW c \in Controllers, Step(c) \/ WorkerEnds(c) \/ Crash(c)
  PROVE  Commit(c) \/ Replay(c) \/ Near(c)
<1>1. CASE Commit(c) \/ Replay(c)
  BY <1>1
<1>2. CASE Refused(c)
  BY <1>2, RefusedIs
<1>3. CASE Begin(c)
  BY <1>3, BeginIs
<1>4. CASE BeginRecovery(c)
  BY <1>4, BeginRecoveryIs
<1>5. CASE CompareFence(c)
  BY <1>5, CompareFenceIs
<1>6. CASE VerifyCheckpoint(c)
  BY <1>6, VerifyCheckpointIs
<1>7. CASE Resume(c)
  BY <1>7, ResumeIs
<1>8. CASE CheckEvidence(c)
  BY <1>8, CheckEvidenceIs
<1>9. CASE Launch(c)
  BY <1>9, LaunchIs
<1>10. CASE RecordSpawn(c)
  BY <1>10, RecordSpawnIs
<1>11. CASE BeginRenewal(c)
  BY <1>11, BeginRenewalIs
<1>12. CASE SaveCheckpoint(c)
  BY <1>12, SaveCheckpointIs
<1>13. CASE StopWorker(c)
  BY <1>13, StopWorkerIs
<1>14. CASE Reap(c)
  BY <1>14, ReapIs
<1>15. CASE Snapshot(c)
  BY <1>15, SnapshotIs
<1>16. CASE PublishEvidence(c)
  BY <1>16, PublishEvidenceIs
<1>17. CASE Fail(c)
  BY <1>17, FailIs
<1>18. CASE WorkerEnds(c)
  BY <1>18, WorkerEndsIs
<1>19. CASE Crash(c)
  BY <1>19, CrashIs
<1>20. QED
  BY <1>1, <1>2, <1>3, <1>4, <1>5, <1>6, <1>7, <1>8, <1>9, <1>10, <1>11, <1>12, <1>13, <1>14,
     <1>15, <1>16, <1>17, <1>18, <1>19 DEF Step

LEMMA StepIs ==
  ASSUME IInv, [Next]_vars
  PROVE  \/ \E c \in Controllers : Commit(c) \/ Replay(c) \/ Near(c)
         \/ Tick \/ UNCHANGED vars
BY StepOf DEF Next

LEMMA TickKeeps ==
  ASSUME IInv, Tick
  PROVE  IInv'
<1>1. /\ clock < MaxClock /\ clock' = clock + 1 /\ clock \in Nat /\ task \in Tasks
      /\ UNCHANGED <<task, operations, checkpoint, evidence, ctl, worker, launches, finished, faults>>
  BY DEF Tick, files, processes, IInv, TypeOK
<1>2. TypeOK'
  BY <1>1 DEF IInv, TypeOK
<1>3. TaskOK'
  <2>1. task.fence \in Nat /\ task.lease.expires \in Nat /\ MaxClock \in Nat
    BY <1>1, ControllerBounds DEF Tasks, Leases
  <2>2. QED
    BY <1>1, <2>1, LeaseSecondsAssumption DEF IInv, TaskOK
<1>4. QED
  BY <1>1, <1>2, <1>3 DEF IInv, DoneByItsWorker, EvidenceFollowsAuthority

LEMMA InitHolds ==
  ASSUME Init
  PROVE  IInv
<1>1. task = InitialTask(1) /\ task \in Tasks
  BY NothingIs DEF Init, InitialTask, Tasks, Status, OwnersOrNone
<1>2. TypeOK
  BY <1>1, NothingIs DEF Init, TypeOK, WorkerStates
<1>3. TaskOK
  BY <1>1, ControllerBounds DEF Init, TaskOK, InitialTask, Terminal
<1>4. \A c \in Controllers : LocalOK(ctl[c], worker[c], task, finished)
  BY NothingIs DEF Init, LocalOK, Holding, AfterLaunch
<1>5. DoneByItsWorker /\ EvidenceFollowsAuthority
  BY <1>1 DEF Init, DoneByItsWorker, EvidenceFollowsAuthority, InitialTask
<1>6. QED
  BY <1>2, <1>3, <1>4, <1>5 DEF IInv, Init

LEMMA StepKeeps ==
  ASSUME IInv, [Next]_vars
  PROVE  IInv'
<1>1. ASSUME NEW c \in Controllers, Near(c)
      PROVE  IInv'
  BY <1>1, MovesKeep DEF Near
<1>2. ASSUME NEW c \in Controllers, Replay(c)
      PROVE  IInv'
  <2>1. PICK me : Moves(c, me, worker[c]) /\ Files(c) /\ launches' = launches
    BY <1>2, ReplayIs
  <2>2. QED
    BY <2>1, MovesKeep DEF Launches
<1>3. CASE UNCHANGED vars
  BY <1>3 DEF vars, IInv, TypeOK, TaskOK, DoneByItsWorker, EvidenceFollowsAuthority
<1>4. QED
  BY <1>1, <1>2, <1>3, StepIs, CommitKeeps, TickKeeps

LEMMA Invariant == Spec => []IInv
<1>1. Init => IInv
  BY InitHolds
<1>2. IInv /\ [Next]_vars => IInv'
  BY StepKeeps
<1>3. QED
  BY <1>1, <1>2, PTL DEF Spec

(* Whatever crashes, answers lost and controllers racing for the task, the *)
(* task is done only by a worker that ended well under its fence, and the  *)
(* final evidence follows the authority (run).                             *)
THEOREM ReportsHold == Spec => []ReportsAreTrue
<1>1. IInv => ReportsAreTrue
  BY DEF IInv, ReportsAreTrue
<1>2. QED
  BY <1>1, Invariant, PTL

(* Whoever resumes under a recovered lease goes on from the fence before   *)
(* (recover).                                                              *)
THEOREM RecoveriesContinue == Spec => []RecoveryContinuesPriorFence
<1>1. IInv => RecoveryContinuesPriorFence
  BY DEF IInv, LocalOK, RecoveryContinuesPriorFence
<1>2. QED
  BY <1>1, Invariant, PTL

(* The runs keep the authority's contract: what they do to the task is     *)
(* work in terms (TaskAuthority).                                          *)
LEMMA CommitIsAuthority ==
  ASSUME IInv, NEW c \in Controllers, Commit(c)
  PROVE  Authority!Next
<1>1. /\ task \in Tasks /\ task' \in Tasks /\ task'.revision = task.revision + 1 /\ clock \in Nat
      /\ clock' = clock
      /\ Claiming(c) \/ Granting(c) \/ Renewing(c) \/ Logging(c) \/ Closing(c)
  BY CommitIs, CommitLeaves DEF IInv, TypeOK
<1>2. task.lease \in Leases /\ task.lease.expires \in Nat
  BY <1>1 DEF Tasks, Leases
<1>3. CASE Claiming(c)
  <2>1. Authority!Claim
    BY <1>1, <1>3 DEF Claiming, Authority!Claim
  <2>2. QED
    BY <2>1 DEF Authority!Next
<1>4. CASE Granting(c)
  <2>1. task'.lease.expires = clock + LeaseSeconds
    BY <1>4 DEF Granting, NewLease
  <2>2. task'.lease.expires > clock
    BY <1>1, <2>1, LeaseSecondsAssumption
  <2>3. Authority!BeginTerm
    BY <1>1, <1>4, <2>2 DEF Granting, Authority!BeginTerm
  <2>4. QED
    BY <2>3 DEF Authority!Next
<1>5. CASE Renewing(c)
  <2>1. task.status = "running" /\ clock < task.lease.expires /\ task.lease.expires <= clock + LeaseSeconds
    BY <1>5 DEF Renewing, Holds, IInv, TaskOK
  <2>2. task'.lease.expires = clock + LeaseSeconds
    BY <1>2, <1>5 DEF Renewing, Leases
  <2>3. task'.lease.expires >= task.lease.expires
    BY <1>1, <1>2, <2>1, <2>2, LeaseSecondsAssumption
  <2>4. Authority!Write
    BY <1>1, <1>5, <2>1, <2>3 DEF Renewing, Authority!Write
  <2>5. QED
    BY <2>4 DEF Authority!Next
<1>6. CASE Logging(c)
  <2>1. Authority!Write
    BY <1>1, <1>2, <1>6 DEF Logging, Holds, Authority!Write
  <2>2. QED
    BY <2>1 DEF Authority!Next
<1>7. CASE Closing(c)
  <2>1. Authority!Close
    BY <1>1, <1>2, <1>7 DEF Closing, Holds, Terminal, NoLease, Authority!Close
  <2>2. QED
    BY <2>1 DEF Authority!Next
<1>8. QED
  BY <1>1, <1>3, <1>4, <1>5, <1>6, <1>7

LEMMA StepIsAuthority ==
  ASSUME IInv, [Next]_vars
  PROVE  [Authority!Next]_(Authority!vars)
<1>1. ASSUME NEW c \in Controllers, Replay(c) \/ Near(c)
      PROVE  UNCHANGED <<task, clock>>
  BY <1>1, ReplayIs DEF Near, Moves
<1>2. CASE Tick
  <2>1. clock' > clock /\ task' = task
    BY <1>2 DEF Tick, IInv, TypeOK
  <2>2. QED
    BY <2>1 DEF Authority!Elapse, Authority!Next
<1>3. CASE UNCHANGED <<task, clock>>
  BY <1>3 DEF Authority!vars
<1>4. QED
  BY <1>1, <1>2, <1>3, StepIs, CommitIsAuthority DEF vars

THEOREM ControllersImplementAuthority == Spec => ImplementsAuthority
<1>1. Init => Authority!Init
  BY DEF Init, InitialTask, NoLease, Authority!Init
<1>2. IInv /\ [Next]_vars => [Authority!Next]_(Authority!vars)
  BY StepIsAuthority
<1>3. QED
  BY <1>1, <1>2, Invariant, PTL DEF Spec, ImplementsAuthority, Authority!Spec

---------------------------------------------------------------------------
(* Controllers with owners of their own: a fence has one of them.          *)

(* Nobody is involved with a fence that was not granted yet.               *)
LEMMA InvolvedIs ==
  ASSUME IInv, NEW c \in Controllers, NEW f \in Fences, Involved(c, f)
  PROVE  f <= task.fence
<1>1. task.fence \in Nat /\ f \in Nat
  BY Here, ControllerBounds DEF Tasks, Fences
<1>2. CASE Has(c, f)
  BY <1>2, Here DEF Has, LocalOK
<1>3. CASE MayTake(c, f)
  BY <1>3 DEF MayTake, IInv, ReceiptOK
<1>4. QED
  BY <1>2, <1>3 DEF Involved

LEMMA NearAlone ==
  ASSUME IInv, AloneInv, NEW c \in Controllers, Near(c)
  PROVE  AloneInv'
<1>1. PICK me \in Locals, w \in WorkerStates :
        Moves(c, me, w) /\ Files(c) /\ Launches(c, me) /\ Shape(c, me)
  BY DEF Near
<1>2. /\ operations' = operations /\ task' = task /\ clock' = clock
      /\ ctl'[c] = me /\ \A d \in Controllers \ {c} : ctl'[d] = ctl[d]
  BY <1>1, Here DEF Moves
<1>3. \A r \in operations : /\ r.request.revision < task.revision /\ r.request.revision \in Nat
                            /\ r.id[1] = "CLAIM" => task.status # "open"
                            /\ r.id[2] <= task.fence
  BY DEF IInv, TypeOK, ReceiptOK, Receipts, Requests
<1>4. \A d \in Controllers \ {c}, f \in Nat : Involved(d, f)' <=> Involved(d, f)
  BY <1>2 DEF Involved, Has, MayTake
<1>5. ASSUME NEW f \in Nat, Involved(c, f)'
      PROVE  /\ Has(c, f) /\ ctl[c].pc # "fail_reconcile"
             /\ ctl[c].pc \in AfterLaunch => me.pc \in AfterLaunch
  <2>1. CASE Has(c, f)'
    BY <1>1, <1>2, <2>1 DEF Has, Shape, Holding, AfterLaunch
  <2>2. CASE MayTake(c, f)'
    <3>1. PICK r \in operations : \/ me.pc = "lease"
                                  \/ me.pc = "recover" /\ r.request.revision = me.revision
      BY <1>2, <2>2 DEF MayTake
    <3>2. me.pc = "recover" /\ me.revision = task.revision
      BY <1>1, <3>1 DEF Shape, Holding, AfterLaunch
    <3>3. QED
      BY <1>3, <3>1, <3>2, Here
  <2>3. QED
    BY <1>5, <2>1, <2>2 DEF Involved
<1>6. GrantsDiffer'
  BY <1>2 DEF AloneInv, GrantsDiffer, Grants
<1>7. OneEach'
  <2>1. Fences \subseteq Nat
    BY DEF Fences
  <2>2. \A d \in Controllers, f \in Fences : Involved(d, f)' => Involved(d, f)
    BY <1>4, <1>5, <2>1 DEF Involved
  <2>3. QED
    BY <2>2 DEF AloneInv, OneEach
<1>8. FailureOnce'
  <2>1. \A r \in operations : r.id[2] \in Nat
    BY DEF IInv, TypeOK, Receipts
  <2>2. ASSUME NEW r \in operations, NEW d \in Controllers, r.id[1] = "FAILURE-TERMINAL", Involved(d, r.id[2])'
        PROVE  ctl'[d].pc = "fail_reconcile"
    <3>1. CASE d = c
      BY <1>5, <2>1, <2>2, <3>1 DEF AloneInv, FailureOnce, Involved
    <3>2. CASE d # c
      BY <1>2, <1>4, <2>1, <2>2, <3>2 DEF AloneInv, FailureOnce
    <3>3. QED
      BY <3>1, <3>2
  <2>3. QED
    BY <1>2, <2>2 DEF FailureOnce
<1>9. LaunchedOnce'
  <2>1. ASSUME NEW f \in Fences
        PROVE  /\ launches'[f] <= 1
               /\ task'.fence < f => launches'[f] = 0
               /\ launches'[f] = 1 => \A d \in Controllers : Involved(d, f)' => ctl'[d].pc \in AfterLaunch
    <3>1. /\ launches[f] \in Nat /\ launches[f] <= 1 /\ (task.fence < f => launches[f] = 0) /\ f \in Nat
          /\ launches[f] = 1 => \A d \in Controllers : Involved(d, f) => ctl[d].pc \in AfterLaunch
      BY DEF AloneInv, LaunchedOnce, IInv, TypeOK, Fences
    <3>2. CASE launches'[f] = launches[f]
      <4>1. ASSUME NEW d \in Controllers, Involved(d, f)', launches[f] = 1
            PROVE  ctl'[d].pc \in AfterLaunch
        <5>1. CASE d = c
          BY <1>2, <1>5, <3>1, <4>1, <5>1 DEF Involved
        <5>2. CASE d # c
          BY <1>2, <1>4, <3>1, <4>1, <5>2
        <5>3. QED
          BY <5>1, <5>2
      <4>2. QED
        BY <1>2, <3>1, <3>2, <4>1
    <3>3. CASE launches'[f] # launches[f]
      <4>1. /\ ctl[c].pc = "launch" /\ me.pc = "spawned" /\ f = ctl[c].lease.fence
            /\ launches'[f] = launches[f] + 1
        BY <1>1, <3>3 DEF Launches, IInv, TypeOK
      <4>2. Has(c, f) /\ f <= task.fence /\ ctl[c].pc \notin AfterLaunch /\ me.pc \in AfterLaunch
        BY <4>1, Here DEF Has, Holding, LocalOK, AfterLaunch
      <4>3. launches[f] = 0
        BY <3>1, <4>2 DEF Involved
      <4>4. ASSUME NEW d \in Controllers, Involved(d, f)'
            PROVE  ctl'[d].pc \in AfterLaunch
        <5>1. CASE d = c
          BY <1>2, <4>2, <5>1
        <5>2. CASE d # c
          BY <1>4, <3>1, <4>2, <4>4, <5>2 DEF AloneInv, OneEach, Involved
        <5>3. QED
          BY <5>1, <5>2
      <4>5. task.fence \in Nat
        BY Here DEF Tasks
      <4>6. QED
        BY <1>2, <3>1, <4>1, <4>2, <4>3, <4>4, <4>5
    <3>4. QED
      BY <3>2, <3>3
  <2>2. QED
    BY <2>1 DEF LaunchedOnce
<1>10. \A d \in Controllers : ClaimOK(d)' /\ FailureOK(d)'
  <2>1. ClaimOK(c)'
    <3>1. me.pc = "claim" => task.status = "open"
      BY <1>1 DEF Shape, Holding, AfterLaunch
    <3>2. QED
      BY <1>2, <1>3, <3>1 DEF ClaimOK
  <2>2. FailureOK(c)'
    BY <1>1, <1>2 DEF FailureOK, Shape, Holding, AfterLaunch, FailureCalls
  <2>3. \A d \in Controllers \ {c} : ClaimOK(d)' /\ FailureOK(d)'
    BY <1>2 DEF AloneInv, ClaimOK, FailureOK
  <2>4. QED
    BY <2>1, <2>2, <2>3
<1>11. QED
  BY <1>6, <1>7, <1>8, <1>9, <1>10 DEF AloneInv

(* An old receipt gives its controller a fence it might have taken anyway. *)
LEMMA ReplayAlone ==
  ASSUME IInv, AloneInv, NEW c \in Controllers, Replay(c)
  PROVE  AloneInv'
<1>1. PICK me, r : /\ Moves(c, me, worker[c]) /\ launches' = launches
                   /\ r \in operations /\ r.id = IdOf(c) /\ r.request = CallOf(c).request
                   /\ Taken(c, me, r) /\ ctl[c].pc \in Calls
  BY ReplayIs
<1>2. /\ operations' = operations /\ task' = task /\ clock' = clock
      /\ ctl'[c] = me /\ \A d \in Controllers \ {c} : ctl'[d] = ctl[d]
  BY <1>1, Here DEF Moves
<1>3. /\ r.id[1] = CallOf(c).kind /\ r.id[2] = ctl[c].lease.fence /\ ReceiptOK(r, task)
      /\ r.request.revision = ctl[c].revision /\ ctl[c].lease.fence \in Nat
  BY <1>1, Here, CallFields DEF IdOf, IInv, Locals, Leases
<1>4. \A d \in Controllers \ {c}, f \in Nat : Involved(d, f)' <=> Involved(d, f)
  BY <1>2 DEF Involved, Has, MayTake
<1>5. ctl[c].pc # "fail_event"
  <2>1. ctl[c].pc = "fail_event" => r.id[1] = "FAILURE-TERMINAL" /\ Has(c, r.id[2])
    BY <1>1, <1>3, Here, CallFields DEF Asks, Has, Holding, AfterLaunch
  <2>2. QED
    BY <1>1, <2>1 DEF AloneInv, FailureOnce, Involved
<1>6. ASSUME NEW f \in Nat, Involved(c, f)'
      PROVE  /\ Involved(c, f) /\ ctl[c].pc # "fail_reconcile"
             /\ ctl[c].pc \in AfterLaunch => me.pc \in AfterLaunch
  <2>1. CASE ctl[c].pc = "claim"
    <3>1. me.pc = "lease" /\ r.id[1] = "CLAIM" /\ r.request.owner = OwnerOf[c]
      BY <1>1, <1>3, <2>1, Here, CallFields DEF Asks, Taken
    <3>2. task.status = "claimed"
      BY <1>1, <2>1, <3>1 DEF AloneInv, ClaimOK
    <3>3. PICK s \in operations : s.id[1] = "LEASE"
      BY <1>2, <1>6, <3>1 DEF Involved, Has, MayTake, Holding, AfterLaunch
    <3>4. QED
      BY <3>2, <3>3 DEF IInv, ReceiptOK
  <2>2. CASE ctl[c].pc = "lease"
    <3>1. /\ me.pc = "evidence" /\ me.lease = r.lease
          /\ r.id[1] = "LEASE" /\ r.request.owner = OwnerOf[c]
      BY <1>1, <1>3, <2>2, Here, CallFields DEF Asks, Taken
    <3>2. f = r.lease.fence
      BY <1>2, <1>6, <3>1 DEF Involved, Has, MayTake
    <3>3. MayTake(c, f)
      BY <1>1, <2>2, <3>1, <3>2 DEF MayTake
    <3>4. QED
      BY <2>2, <3>3 DEF Involved, AfterLaunch
  <2>3. CASE ctl[c].pc = "recover"
    <3>1. /\ me.pc = "verify" /\ me.lease = r.lease
          /\ r.id[1] = "RECOVER" /\ r.request.owner = OwnerOf[c]
      BY <1>1, <1>3, <2>3, Here, CallFields DEF Asks, Taken
    <3>2. f = r.lease.fence
      BY <1>2, <1>6, <3>1 DEF Involved, Has, MayTake
    <3>3. MayTake(c, f)
      BY <1>1, <1>3, <2>3, <3>1, <3>2 DEF MayTake
    <3>4. QED
      BY <2>3, <3>3 DEF Involved, AfterLaunch
  <2>4. CASE ctl[c].pc \in {"started", "heartbeat", "renew", "terminal", "reconcile"}
    <3>1. /\ me.pc \in {"heartbeat", "launch", "checkpoint", "snapshot", "publish"}
          /\ ctl[c].pc \in AfterLaunch => me.pc \in AfterLaunch
      BY <1>1, <2>4, Here, CallFields DEF Asks, Taken, AfterLaunch
    <3>2. me.lease.fence = ctl[c].lease.fence
      <4>1. CASE ctl[c].pc \in {"heartbeat", "renew"}
        BY <1>1, <1>3, <4>1, Here, CallFields DEF Asks, Taken, ReceiptOK
      <4>2. CASE ctl[c].pc \notin {"heartbeat", "renew"}
        BY <1>1, <2>4, <4>2 DEF Taken
      <4>3. QED
        BY <4>1, <4>2
    <3>3. me.lease.fence = f
      BY <1>2, <1>6, <3>1 DEF Involved, Has, MayTake
    <3>4. Has(c, f)
      BY <2>4, <3>2, <3>3 DEF Has, Holding, AfterLaunch
    <3>5. QED
      BY <2>4, <3>1, <3>4 DEF Involved
  <2>5. CASE ctl[c].pc = "fail_reconcile"
    BY <1>1, <1>2, <1>6, <2>5, NothingIs DEF Taken, Involved, Has, MayTake, Holding, AfterLaunch
  <2>6. QED
    BY <1>1, <1>5, <2>1, <2>2, <2>3, <2>4, <2>5 DEF Calls, GuardedCalls, FailureCalls
<1>7. GrantsDiffer'
  BY <1>2 DEF AloneInv, GrantsDiffer, Grants
<1>8. OneEach'
  <2>1. Fences \subseteq Nat
    BY DEF Fences
  <2>2. \A d \in Controllers, f \in Fences : Involved(d, f)' => Involved(d, f)
    BY <1>4, <1>6, <2>1
  <2>3. QED
    BY <2>2 DEF AloneInv, OneEach
<1>9. FailureOnce'
  <2>1. \A s \in operations : s.id[2] \in Nat
    BY DEF IInv, TypeOK, Receipts
  <2>2. ASSUME NEW s \in operations, NEW d \in Controllers, s.id[1] = "FAILURE-TERMINAL", Involved(d, s.id[2])'
        PROVE  ctl'[d].pc = "fail_reconcile"
    <3>1. CASE d = c
      BY <1>6, <2>1, <2>2, <3>1 DEF AloneInv, FailureOnce
    <3>2. CASE d # c
      BY <1>2, <1>4, <2>1, <2>2, <3>2 DEF AloneInv, FailureOnce
    <3>3. QED
      BY <3>1, <3>2
  <2>3. QED
    BY <1>2, <2>2 DEF FailureOnce
<1>10. LaunchedOnce'
  <2>1. ASSUME NEW f \in Fences, NEW d \in Controllers, launches[f] = 1, Involved(d, f)'
        PROVE  ctl'[d].pc \in AfterLaunch
    <3>1. /\ f \in Nat
          /\ \A e \in Controllers : Involved(e, f) => ctl[e].pc \in AfterLaunch
      BY <2>1 DEF AloneInv, LaunchedOnce, Fences
    <3>2. CASE d = c
      BY <1>2, <1>6, <2>1, <3>1, <3>2
    <3>3. CASE d # c
      BY <1>2, <1>4, <2>1, <3>1, <3>3
    <3>4. QED
      BY <3>2, <3>3
  <2>2. QED
    BY <1>1, <1>2, <2>1 DEF AloneInv, LaunchedOnce
<1>11. \A d \in Controllers : ClaimOK(d)' /\ FailureOK(d)'
  <2>1. me.pc # "claim" /\ me.pc \notin FailureCalls
    BY <1>1, <1>5, Here, CallFields, NothingIs DEF Taken, Asks, Calls, GuardedCalls, FailureCalls
  <2>2. ClaimOK(c)' /\ FailureOK(c)'
    BY <1>2, <2>1 DEF ClaimOK, FailureOK
  <2>3. \A d \in Controllers \ {c} : ClaimOK(d)' /\ FailureOK(d)'
    BY <1>2 DEF AloneInv, ClaimOK, FailureOK
  <2>4. QED
    BY <2>2, <2>3
<1>12. QED
  BY <1>7, <1>8, <1>9, <1>10, <1>11 DEF AloneInv

(* A write of one controller, as the others see it.                        *)
Wrote(c, me, r) ==
  /\ TaskOK /\ TaskOK' /\ UNCHANGED <<clock, launches>>
  /\ Claiming(c) \/ Granting(c) \/ Renewing(c) \/ Logging(c) \/ Closing(c)
  /\ operations' = operations \cup {r}
  /\ r.id[2] = ctl[c].lease.fence /\ r.lease = task'.lease /\ r.revision = task'.revision
  /\ r.id[1] = CallOf(c).kind /\ r.request = CallOf(c).request
  /\ ctl'[c] = me /\ \A d \in Controllers \ {c} : ctl'[d] = ctl[d]
  /\ \/ Taken(c, me, r)
     \/ me = Idle /\ ctl[c].pc \in FailureCalls
     \/ me = ctl[c] /\ ctl[c].pc \notin FailureCalls

LEMMA CommitWrote ==
  ASSUME IInv, NEW c \in Controllers, Commit(c)
  PROVE  /\ ctl[c].pc \in Calls /\ task \in Tasks /\ task' \in Tasks
         /\ \E me \in Locals, r \in Receipts : Wrote(c, me, r)
<1>1. /\ TypeOK /\ TaskOK /\ task \in Tasks /\ \A d \in Controllers : LocalOK(ctl[d], worker[d], task, finished)
      /\ ctl \in [Controllers -> Locals]
  BY DEF IInv, TypeOK
<1>2. PICK r \in Receipts :
        /\ operations' = operations \cup {r} /\ r.id[1] = CallOf(c).kind /\ r.id[2] = ctl[c].lease.fence
        /\ r.request = CallOf(c).request /\ r.lease = task'.lease /\ r.revision = task'.revision
        /\ \E me \in Locals :
             /\ ctl' = [ctl EXCEPT ![c] = me]
             /\ \/ Taken(c, me, r)
                \/ me = Idle /\ ctl[c].pc \in FailureCalls
                \/ me = ctl[c] /\ ctl[c].pc \notin FailureCalls
  BY <1>1, CommitLeaves
<1>3. PICK me \in Locals :
        /\ ctl' = [ctl EXCEPT ![c] = me]
        /\ \/ Taken(c, me, r)
           \/ me = Idle /\ ctl[c].pc \in FailureCalls
           \/ me = ctl[c] /\ ctl[c].pc \notin FailureCalls
  BY <1>2
<1>4. ctl'[c] = me /\ \A d \in Controllers \ {c} : ctl'[d] = ctl[d]
  BY <1>1, <1>3
<1>5. TaskOK' /\ UNCHANGED <<clock, launches>> /\ task' \in Tasks
  BY <1>1, TaskKeeps, CommitLeaves, CommitIs
<1>6. Claiming(c) \/ Granting(c) \/ Renewing(c) \/ Logging(c) \/ Closing(c)
  BY <1>1, CommitIs
<1>7. ctl[c].pc \in Calls
  BY DEF Commit
<1>8. QED
  BY <1>1, <1>2, <1>3, <1>4, <1>5, <1>6, <1>7 DEF Wrote

(* Only a grant makes a fence new, and only its controller is given it.    *)
LEMMA WroteInvolves ==
  ASSUME IInv, AloneInv, OwnersAreDistinct, NEW c \in Controllers, ctl[c].pc \in Calls,
         NEW me \in Locals, NEW r \in Receipts, Wrote(c, me, r), task \in Tasks, task' \in Tasks
  PROVE  /\ Grants(r) => Granting(c) /\ r.lease.fence = task.fence + 1
         /\ \A d \in Controllers \ {c}, f \in Nat : Involved(d, f)' => Involved(d, f)
         /\ \A f \in Nat : Involved(c, f)' =>
              \/ Granting(c) /\ f = task.fence + 1 /\ me.pc # "fail_reconcile"
              \/ /\ Involved(c, f)
                 /\ ctl[c].pc \in AfterLaunch => me.pc \in AfterLaunch
                 /\ ctl[c].pc = "fail_reconcile" => FALSE
<1>1. /\ operations' = operations \cup {r} /\ ctl'[c] = me /\ r.lease = task'.lease
      /\ \A d \in Controllers \ {c} : ctl'[d] = ctl[d]
      /\ r.id[1] = CallOf(c).kind /\ r.request = CallOf(c).request
      /\ \/ Taken(c, me, r)
         \/ me = Idle /\ ctl[c].pc \in FailureCalls
         \/ me = ctl[c] /\ ctl[c].pc \notin FailureCalls
      /\ Claiming(c) \/ Granting(c) \/ Renewing(c) \/ Logging(c) \/ Closing(c)
  BY DEF Wrote
<1>2. /\ r.id[1] = "LEASE" <=> ctl[c].pc = "lease"
      /\ r.id[1] = "RECOVER" <=> ctl[c].pc = "recover"
      /\ ctl[c].pc \in {"lease", "recover"} => r.request.owner = OwnerOf[c]
      /\ r.request.revision = ctl[c].revision
  BY <1>1, Here, CallFields DEF Asks, Calls, GuardedCalls, FailureCalls
<1>3. ctl[c].pc \in {"lease", "recover"} => Granting(c) /\ r.lease.fence = task.fence + 1
  BY <1>1 DEF Claiming, Granting, Renewing, Logging, Closing, NewLease
<1>4. Grants(r) => Granting(c) /\ r.lease.fence = task.fence + 1
  BY <1>2, <1>3 DEF Grants
<1>5. ASSUME NEW d \in Controllers \ {c}, NEW f \in Nat, Involved(d, f)'
      PROVE  Involved(d, f)
  <2>1. CASE Has(d, f)'
    BY <1>1, <2>1 DEF Has, Involved
  <2>2. CASE MayTake(d, f)'
    <3>1. PICK s \in operations \cup {r} :
            /\ s.lease.fence = f /\ s.request.owner = OwnerOf[d]
            /\ \/ ctl[d].pc = "lease" /\ s.id[1] = "LEASE"
               \/ ctl[d].pc = "recover" /\ s.id[1] = "RECOVER" /\ s.request.revision = ctl[d].revision
      BY <1>1, <2>2 DEF MayTake
    <3>2. s # r
      BY <1>2, <3>1 DEF OwnersAreDistinct
    <3>3. QED
      BY <3>1, <3>2 DEF MayTake, Involved
  <2>3. QED
    BY <1>5, <2>1, <2>2 DEF Involved
<1>6. ASSUME NEW f \in Nat, Involved(c, f)'
      PROVE  \/ Granting(c) /\ f = task.fence + 1 /\ me.pc # "fail_reconcile"
             \/ /\ Involved(c, f)
                /\ ctl[c].pc \in AfterLaunch => me.pc \in AfterLaunch
                /\ ctl[c].pc = "fail_reconcile" => FALSE
  <2>1. CASE me = ctl[c] /\ ctl[c].pc \notin FailureCalls
    <3>1. CASE Has(c, f)'
      BY <1>1, <2>1, <3>1 DEF Has, Involved, FailureCalls
    <3>2. CASE MayTake(c, f)'
      <4>1. PICK s \in operations \cup {r} :
              /\ s.lease.fence = f /\ s.request.owner = OwnerOf[c]
              /\ \/ ctl[c].pc = "lease" /\ s.id[1] = "LEASE"
                 \/ ctl[c].pc = "recover" /\ s.id[1] = "RECOVER" /\ s.request.revision = ctl[c].revision
        BY <1>1, <2>1, <3>2 DEF MayTake
      <4>2. CASE s = r
        BY <1>3, <2>1, <4>1, <4>2
      <4>3. CASE s # r
        BY <2>1, <4>1, <4>3 DEF MayTake, Involved
      <4>4. QED
        BY <4>2, <4>3
    <3>3. QED
      BY <1>6, <3>1, <3>2 DEF Involved
  <2>2. CASE me = Idle
    BY <1>1, <1>6, <2>2, NothingIs DEF Involved, Has, MayTake, Holding, AfterLaunch
  <2>3. CASE Taken(c, me, r) /\ ctl[c].pc = "claim"
    <3>1. me.pc = "lease" /\ r.id[1] = "CLAIM"
      BY <1>1, <2>3, Here, CallFields DEF Asks, Taken
    <3>2. task.status = "open"
      BY <1>1, <2>3 DEF Claiming, Granting, Renewing, Logging, Closing
    <3>3. PICK s \in operations : s.id[1] = "LEASE"
      BY <1>1, <1>6, <3>1 DEF Involved, Has, MayTake, Holding, AfterLaunch
    <3>4. QED
      BY <3>2, <3>3 DEF IInv, ReceiptOK
  <2>4. CASE Taken(c, me, r) /\ ctl[c].pc \in {"lease", "recover"}
    <3>1. me.pc \in {"evidence", "verify"} /\ me.lease = r.lease
      BY <1>1, <2>4, Here, CallFields DEF Asks, Taken
    <3>2. QED
      BY <1>1, <1>3, <1>6, <2>4, <3>1 DEF Involved, Has, MayTake
  <2>5. CASE Taken(c, me, r) /\ ctl[c].pc \in GuardedCalls \cup {"fail_event"}
    <3>1. /\ me.pc \in {"heartbeat", "launch", "checkpoint", "snapshot", "publish", "fail_reconcile"}
          /\ ctl[c].pc \in AfterLaunch => me.pc \in AfterLaunch
      BY <1>1, <2>5, Here, CallFields DEF Asks, Taken, AfterLaunch, GuardedCalls
    <3>2. me.lease.fence = ctl[c].lease.fence
      <4>1. CASE ctl[c].pc \in {"heartbeat", "renew"}
        <5>1. Renewing(c)
          BY <1>1, <4>1 DEF Claiming, Granting, Logging, Closing
        <5>2. task'.lease.fence = ctl[c].lease.fence
          BY <5>1 DEF Renewing, Holds, Tasks, Leases
        <5>3. QED
          BY <1>1, <2>5, <4>1, <5>2 DEF Taken
      <4>2. CASE ctl[c].pc \notin {"heartbeat", "renew"}
        BY <2>5, <4>2 DEF Taken, GuardedCalls
      <4>3. QED
        BY <4>1, <4>2
    <3>3. me.lease.fence = f
      BY <1>1, <1>6, <3>1 DEF Involved, Has, MayTake
    <3>4. Has(c, f)
      BY <2>5, <3>2, <3>3 DEF Has, Holding, AfterLaunch, GuardedCalls
    <3>5. QED
      BY <2>5, <3>1, <3>4 DEF Involved, GuardedCalls
  <2>6. CASE Taken(c, me, r) /\ ctl[c].pc = "fail_reconcile"
    BY <2>2, <2>6 DEF Taken
  <2>7. QED
    BY <1>1, <2>1, <2>2, <2>3, <2>4, <2>5, <2>6 DEF Calls, FailureCalls
<1>7. QED
  BY <1>4, <1>5, <1>6

LEMMA CommitAlone ==
  ASSUME IInv, AloneInv, OwnersAreDistinct, NEW c \in Controllers, Commit(c)
  PROVE  AloneInv'
<1>1. PICK me \in Locals, r \in Receipts : Wrote(c, me, r)
  BY CommitWrote
<1>2. ctl[c].pc \in Calls /\ task \in Tasks /\ task' \in Tasks /\ task.fence \in Nat /\ task'.fence \in Nat
  BY CommitWrote DEF Tasks
<1>3. /\ operations' = operations \cup {r} /\ ctl'[c] = me /\ r.lease = task'.lease
      /\ launches' = launches /\ clock' = clock /\ r.revision = task'.revision
      /\ \A d \in Controllers \ {c} : ctl'[d] = ctl[d]
      /\ r.id[1] = CallOf(c).kind /\ r.id[2] = ctl[c].lease.fence /\ r.request = CallOf(c).request
      /\ Claiming(c) \/ Granting(c) \/ Renewing(c) \/ Logging(c) \/ Closing(c)
      /\ TaskOK /\ TaskOK'
  BY <1>1 DEF Wrote
<1>4. /\ Grants(r) => Granting(c) /\ r.lease.fence = task.fence + 1
      /\ \A d \in Controllers \ {c}, f \in Nat : Involved(d, f)' => Involved(d, f)
      /\ \A f \in Nat : Involved(c, f)' =>
           \/ Granting(c) /\ f = task.fence + 1 /\ me.pc # "fail_reconcile"
           \/ /\ Involved(c, f)
              /\ ctl[c].pc \in AfterLaunch => me.pc \in AfterLaunch
              /\ ctl[c].pc = "fail_reconcile" => FALSE
  BY <1>1, <1>2, WroteInvolves
<1>5. \A s \in operations : /\ s.id[2] \in Nat /\ s.id[2] <= task.fence
                            /\ s.lease.fence \in Nat /\ s.lease.fence <= task.fence
  BY DEF IInv, TypeOK, Receipts, Leases, ReceiptOK
<1>6. Fences \subseteq Nat
  BY DEF Fences
<1>7. /\ Granting(c) => task'.fence = task.fence + 1
      /\ ~Granting(c) => task'.fence = task.fence
  BY <1>3 DEF Claiming, Granting, Renewing, Logging, Closing
<1>8. GrantsDiffer'
  <2>1. ASSUME NEW s \in operations, Grants(s), Grants(r), s.lease.fence = r.lease.fence
        PROVE  FALSE
    BY <1>2, <1>4, <1>5, <2>1
  <2>2. QED
    BY <1>3, <2>1 DEF AloneInv, GrantsDiffer, Grants
<1>9. OneEach'
  <2>1. ASSUME NEW d \in Controllers \ {c}, NEW f \in Fences, Involved(d, f)', Involved(c, f)'
        PROVE  FALSE
    <3>1. Involved(d, f) /\ f <= task.fence
      BY <1>4, <1>6, <2>1, InvolvedIs
    <3>2. Involved(c, f)
      BY <1>2, <1>4, <1>6, <2>1, <3>1
    <3>3. QED
      BY <2>1, <3>1, <3>2 DEF AloneInv, OneEach
  <2>2. \A d, e \in Controllers, f \in Fences : Involved(d, f)' /\ Involved(e, f)' /\ d # c /\ e # c => d = e
    BY <1>4, <1>6 DEF AloneInv, OneEach
  <2>3. QED
    BY <2>1, <2>2 DEF OneEach
<1>10. FailureOnce'
  <2>1. ASSUME NEW s \in operations, NEW d \in Controllers, s.id[1] = "FAILURE-TERMINAL", Involved(d, s.id[2])'
        PROVE  ctl'[d].pc = "fail_reconcile"
    <3>1. CASE d = c
      <4>1. Involved(c, s.id[2]) /\ ctl[c].pc # "fail_reconcile"
        BY <1>2, <1>4, <1>5, <2>1, <3>1
      <4>2. QED
        BY <2>1, <4>1 DEF AloneInv, FailureOnce
    <3>2. CASE d # c
      BY <1>3, <1>4, <1>5, <2>1, <3>2 DEF AloneInv, FailureOnce
    <3>3. QED
      BY <3>1, <3>2
  <2>2. ASSUME NEW d \in Controllers, r.id[1] = "FAILURE-TERMINAL", Involved(d, r.id[2])'
        PROVE  ctl'[d].pc = "fail_reconcile"
    <3>1. ctl[c].pc = "fail_event"
      BY <1>2, <1>3, <2>2, Here, CallFields DEF Asks, Calls, GuardedCalls, FailureCalls
    <3>2. Has(c, r.id[2]) /\ r.id[2] \in Fences
      BY <1>3, <3>1, FenceIsOne DEF Has, Holding, AfterLaunch
    <3>3. CASE d = c
      <4>1. CASE Taken(c, me, r)
        BY <1>3, <3>1, <3>3, <4>1, Here, <1>2, CallFields DEF Taken, Asks
      <4>2. CASE me = Idle
        BY <1>3, <2>2, <3>3, <4>2, NothingIs DEF Involved, Has, MayTake, Holding, AfterLaunch
      <4>3. QED
        BY <1>1, <3>1, <4>1, <4>2 DEF Wrote, FailureCalls
    <3>4. CASE d # c
      <4>1. Involved(d, r.id[2])
        BY <1>4, <1>6, <2>2, <3>2, <3>4
      <4>2. Involved(c, r.id[2])
        BY <3>2 DEF Involved
      <4>3. OneEach
        BY DEF AloneInv
      <4>4. d = c
        BY <3>2, <4>1, <4>2, <4>3 DEF OneEach
      <4>5. QED
        BY <3>4, <4>4
    <3>5. QED
      BY <3>3, <3>4
  <2>3. SUFFICES ASSUME NEW s \in operations', NEW d \in Controllers, s.id[1] = "FAILURE-TERMINAL", Involved(d, s.id[2])'
                 PROVE  ctl'[d].pc = "fail_reconcile"
    BY DEF FailureOnce
  <2>4. CASE s \in operations
    BY <2>1, <2>3, <2>4
  <2>5. CASE s = r
    <3>1. r.id[1] = "FAILURE-TERMINAL" /\ Involved(d, r.id[2])'
      BY <2>3, <2>5
    <3>2. QED
      BY <2>2, <3>1
  <2>6. s \in operations \/ s = r
    BY <1>3, <2>3
  <2>7. QED
    BY <2>4, <2>5, <2>6
<1>11. LaunchedOnce'
  <2>1. ASSUME NEW f \in Fences
        PROVE  /\ launches[f] <= 1
               /\ task'.fence < f => launches[f] = 0
               /\ launches[f] = 1 => \A d \in Controllers : Involved(d, f)' => ctl'[d].pc \in AfterLaunch
    <3>1. /\ launches[f] <= 1 /\ (task.fence < f => launches[f] = 0) /\ f \in Nat
          /\ launches[f] = 1 => \A d \in Controllers : Involved(d, f) => ctl[d].pc \in AfterLaunch
      BY <1>6 DEF AloneInv, LaunchedOnce
    <3>2. ASSUME NEW d \in Controllers, Involved(d, f)', launches[f] = 1
          PROVE  ctl'[d].pc \in AfterLaunch
      <4>1. CASE d = c
        BY <1>2, <1>3, <1>4, <3>1, <3>2, <4>1
      <4>2. CASE d # c
        BY <1>3, <1>4, <3>1, <3>2, <4>2
      <4>3. QED
        BY <4>1, <4>2
    <3>3. QED
      BY <1>2, <1>7, <3>1, <3>2
  <2>2. QED
    BY <1>3, <2>1 DEF LaunchedOnce
<1>12. \A d \in Controllers : ClaimOK(d)' /\ FailureOK(d)'
  <2>1. ASSUME NEW d \in Controllers
        PROVE  ClaimOK(d)'
    <3>1. ASSUME NEW s \in operations', ctl'[d].pc = "claim", s.id[1] = "CLAIM", s.request.owner = OwnerOf[d]
          PROVE  task'.status = "claimed" /\ task'.owner = OwnerOf[d]
      <4>1. ctl[d].pc = "claim"
        <5>1. CASE d = c
          BY <1>1, <1>2, <1>3, <3>1, <5>1, Here, CallFields, NothingIs
             DEF Wrote, Taken, Asks, Calls, GuardedCalls, FailureCalls
        <5>2. CASE d # c
          BY <1>3, <3>1, <5>2
        <5>3. QED
          BY <5>1, <5>2
      <4>2. CASE s \in operations
        <5>1. task.status = "claimed" /\ task.owner = OwnerOf[d]
          BY <3>1, <4>1, <4>2 DEF AloneInv, ClaimOK
        <5>2. ~Claiming(c) /\ ~Renewing(c) /\ ~Logging(c) /\ ~Closing(c)
          BY <5>1 DEF Claiming, Renewing, Logging, Closing, Holds
        <5>3. ctl[c].pc = "lease" /\ OwnerOf[c] = OwnerOf[d]
          BY <1>3, <5>1, <5>2 DEF Granting
        <5>4. QED
          BY <4>1, <5>3 DEF OwnersAreDistinct
      <4>3. CASE s = r
        <5>1. ctl[c].pc = "claim" /\ r.request.owner = OwnerOf[c]
          BY <1>2, <1>3, <3>1, <4>3, Here, CallFields DEF Asks, Calls, GuardedCalls, FailureCalls
        <5>2. Claiming(c) /\ d = c
          BY <1>3, <3>1, <4>3, <5>1 DEF Granting, Renewing, Logging, Closing, OwnersAreDistinct
        <5>3. QED
          BY <5>2 DEF Claiming
      <4>4. QED
        BY <1>3, <3>1, <4>2, <4>3
    <3>2. QED
      BY <3>1 DEF ClaimOK
  <2>2. ASSUME NEW d \in Controllers, ctl'[d].pc \in FailureCalls, task'.lease = ctl'[d].lease
        PROVE  ctl'[d].revision = task'.revision
    <3>1. task'.lease.fence = task'.fence /\ task'.status = "running" /\ task'.lease.fence >= 1
      <4>1. 1 <= ctl'[d].lease.fence
        BY <2>2, CommitKeeps DEF IInv, LocalOK, Holding, AfterLaunch, FailureCalls
      <4>2. QED
        BY <1>2, <1>3, <2>2, <4>1, NothingIs DEF TaskOK
    <3>2. CASE d = c
      <4>1. ctl[c].pc = "fail_event" /\ Taken(c, me, r)
        BY <1>1, <1>2, <1>3, <2>2, <3>2, Here, CallFields, NothingIs
           DEF Wrote, Taken, Asks, Calls, GuardedCalls, FailureCalls
      <4>2. QED
        BY <1>3, <3>2, <4>1 DEF Taken
    <3>3. CASE d # c
      <4>1. ctl[d].pc \in FailureCalls /\ ctl[d].lease = task'.lease
        BY <1>3, <2>2, <3>3
      <4>2. Has(d, task'.fence) /\ task'.fence \in Fences
        BY <3>1, <4>1, FenceIsOne DEF Has, Holding, AfterLaunch, FailureCalls
      <4>3. task'.fence <= task.fence /\ ~Granting(c)
        BY <1>2, <1>7, <4>2, InvolvedIs DEF Involved
      <4>4. ~Claiming(c) /\ ~Closing(c)
        BY <3>1 DEF Claiming, Closing, Terminal
      <4>5. Renewing(c) \/ Logging(c)
        BY <1>3, <4>3, <4>4
      <4>6. ctl[c].pc \in Holding /\ task.lease = ctl[c].lease /\ task.status = "running"
        BY <4>5 DEF Renewing, Logging, Holds, Holding, AfterLaunch
      <4>7. Has(c, task'.fence)
        BY <1>3, <1>7, <4>3, <4>6 DEF Has, TaskOK
      <4>8. QED
        BY <3>3, <4>2, <4>7 DEF AloneInv, OneEach, Involved
    <3>4. QED
      BY <3>2, <3>3
  <2>3. QED
    BY <2>1, <2>2 DEF FailureOK
<1>13. QED
  BY <1>8, <1>9, <1>10, <1>11, <1>12 DEF AloneInv

LEMMA InitAlone ==
  ASSUME Init
  PROVE  AloneInv
<1>1. operations = {} /\ \A c \in Controllers : ctl[c] = Idle
  BY DEF Init
<1>2. \A c \in Controllers, f \in Fences : ~Involved(c, f)
  BY <1>1, NothingIs DEF Involved, Has, MayTake, Holding, AfterLaunch
<1>3. GrantsDiffer /\ OneEach /\ FailureOnce
  BY <1>1, <1>2 DEF GrantsDiffer, OneEach, FailureOnce
<1>4. LaunchedOnce
  BY <1>2 DEF Init, LaunchedOnce
<1>5. \A c \in Controllers : ClaimOK(c) /\ FailureOK(c)
  BY <1>1, NothingIs DEF ClaimOK, FailureOK, FailureCalls
<1>6. QED
  BY <1>3, <1>4, <1>5 DEF AloneInv

LEMMA StepAlone ==
  ASSUME IInv, AloneInv, OwnersAreDistinct, [Next]_vars
  PROVE  AloneInv'
<1>1. CASE Tick
  BY <1>1 DEF Tick, files, processes, AloneInv, GrantsDiffer, Grants, OneEach, FailureOnce, LaunchedOnce,
              Involved, Has, MayTake, ClaimOK, FailureOK
<1>2. CASE UNCHANGED vars
  BY <1>2 DEF vars, AloneInv, GrantsDiffer, Grants, OneEach, FailureOnce, LaunchedOnce,
              Involved, Has, MayTake, ClaimOK, FailureOK
<1>3. QED
  BY <1>1, <1>2, StepIs, CommitAlone, ReplayAlone, NearAlone

LEMMA AloneInvariant ==
  ASSUME OwnersAreDistinct
  PROVE  Spec => [](IInv /\ AloneInv)
<1>1. Init => IInv /\ AloneInv
  BY InitHolds, InitAlone
<1>2. IInv /\ AloneInv /\ [Next]_vars => (IInv /\ AloneInv)'
  BY StepKeeps, StepAlone
<1>3. QED
  BY <1>1, <1>2, PTL DEF Spec

(* When every controller has an owner of its own, no fence ever runs two   *)
(* workers: through crashes, lost answers, recoveries and replayed         *)
(* receipts (run, recover, _authority_write).                              *)
THEOREM FencesLaunchOnce ==
  ASSUME OwnersAreDistinct
  PROVE  Spec => []OneLaunchPerFence
<1>1. AloneInv => OneLaunchPerFence
  BY DEF AloneInv, LaunchedOnce, OneLaunchPerFence
<1>2. QED
  BY <1>1, AloneInvariant, PTL

---------------------------------------------------------------------------
(* A failing run that stops by itself leaves no lease it still holds.      *)

\* Nothing is held of a task that is closed.
LEMMA ClosedIsNotHeld ==
  ASSUME TaskOK, task.status \in Terminal, NEW lease
  PROVE  ~HoldsLease(task, lease, clock)
<1>1. task.lease = NoLease
  BY DEF TaskOK, Terminal
<1>2. QED
  BY <1>1 DEF HoldsLease

LEMMA RefusedHoldsNothing ==
  ASSUME IInv, AloneInv, NEW c \in Controllers, Refused(c), ctl[c].pc \in FailureCalls
  PROVE  ~HoldsLease(task, ctl[c].lease, clock)
<1>1. SUFFICES ASSUME HoldsLease(task, ctl[c].lease, clock)
               PROVE  FALSE
  OBVIOUS
<1>2. /\ Holds(c) /\ task.status = "running" /\ task.lease.session = Session
      /\ task.fence = ctl[c].lease.fence
  BY <1>1, HeldIsRunning DEF IInv, TaskOK, Holds
<1>3. ctl[c].revision = task.revision /\ ctl[c].pc \in Calls /\ TypeOK
  BY <1>2 DEF AloneInv, FailureOK, Holds, Calls, IInv
<1>4. Accepts(task, CallOf(c).request, clock)
  <2>1. /\ CallOf(c).request.lease = ctl[c].lease /\ CallOf(c).request.revision = task.revision
    BY <1>3, CallFields DEF FailureCalls
  <2>2. CASE ctl[c].pc = "fail_event"
    <3>1. CallOf(c).request.op = "event" /\ CallOf(c).request.session = Session
      BY <1>3, <2>2, CallFields DEF Asks
    <3>2. QED
      BY <1>1, <1>2, <2>1, <3>1 DEF Accepts
  <2>3. CASE ctl[c].pc = "fail_reconcile"
    <3>1. CallOf(c).request.op = "reconcile" /\ CallOf(c).request.arg \in Terminal
      BY <1>3, <2>3, CallFields DEF Asks, Terminal
    <3>2. QED
      BY <1>1, <2>1, <3>1 DEF Accepts
  <2>4. QED
    BY <2>2, <2>3 DEF FailureCalls
<1>5. Remembered(c) = {}
  <2>1. ASSUME NEW r \in operations, r.id = IdOf(c)
        PROVE  FALSE
    <3>1. r.id[1] = CallOf(c).kind /\ r.id[2] = ctl[c].lease.fence /\ ReceiptOK(r, task)
      BY <2>1 DEF IdOf, IInv
    <3>2. CASE ctl[c].pc = "fail_event"
      <4>1. r.id[1] = "FAILURE-TERMINAL" /\ Has(c, r.id[2])
        BY <1>3, <3>1, <3>2, CallFields DEF Asks, Has, Holding, AfterLaunch
      <4>2. QED
        BY <3>2, <4>1 DEF AloneInv, FailureOnce, Involved
    <3>3. CASE ctl[c].pc = "fail_reconcile"
      <4>1. r.id[1] = "FAILURE-RECONCILE"
        BY <1>3, <3>1, <3>3, CallFields DEF Asks
      <4>2. QED
        BY <1>2, <3>1, <4>1 DEF ReceiptOK, Terminal
    <3>4. QED
      BY <3>2, <3>3 DEF FailureCalls
  <2>2. QED
    BY <2>1 DEF Remembered
<1>6. QED
  BY <1>4, <1>5 DEF Refused

LEMMA StepReports ==
  ASSUME IInv, AloneInv, [Next]_vars, NEW c \in Controllers,
         ctl[c].pc \in {"failing"} \cup FailureCalls, ctl'[c].pc = "idle", faults' = faults
  PROVE  ~HoldsLease(task', ctl[c].lease, clock)
<1>1. TypeOK /\ TaskOK /\ ctl[c].pc # "idle" /\ ctl \in [Controllers -> Locals] /\ faults \in Nat
  BY DEF IInv, TypeOK, FailureCalls
<1>2. PICK d \in Controllers : Step(d) \/ WorkerEnds(d) \/ Crash(d)
  BY <1>1 DEF Next, vars, Tick
<1>3. d = c
  <2>1. Commit(d) \/ Replay(d) \/ Near(d)
    BY <1>2, StepOf
  <2>2. \E me : ctl' = [ctl EXCEPT ![d] = me]
    BY <1>1, <2>1, CommitLeaves, ReplayIs DEF Near, Moves
  <2>3. QED
    BY <1>1, <2>2
<1>4. Commit(c) \/ Replay(c) \/ Refused(c) \/ Fail(c)
  <2>1. ~WorkerEnds(c) /\ ~Crash(c)
    BY <1>1 DEF WorkerEnds, Crash
  <2>2. QED
    BY <1>2, <1>3, <2>1 DEF Step, Begin, BeginRecovery, CompareFence, VerifyCheckpoint, Resume, CheckEvidence,
       Launch, RecordSpawn, BeginRenewal, SaveCheckpoint, StopWorker, Reap, Snapshot, PublishEvidence, FailureCalls
<1>5. CASE Commit(c)
  <2>1. PICK me \in Locals :
          /\ ctl' = [ctl EXCEPT ![c] = me]
          /\ \/ ctl[c].pc = "fail_reconcile"
             \/ ctl[c].pc \in Calls /\ me.pc = CallOf(c).next
             \/ me = ctl[c]
    BY <1>1, <1>5, CommitLeaves DEF Taken, Commit
  <2>2. ctl[c].pc = "fail_reconcile"
    <3>1. me.pc = "idle" /\ ctl[c].pc \in Calls
      BY <1>1, <1>5, <2>1 DEF Commit
    <3>2. ctl[c].pc = "fail_event" => CallOf(c).next = "fail_reconcile"
      BY <1>1, <3>1, CallFields DEF Asks
    <3>3. QED
      BY <1>1, <2>1, <3>1, <3>2 DEF FailureCalls, Calls, GuardedCalls
  <2>3. task'.lease = NoLease
    BY <1>1, <1>5, <2>2, CommitIs DEF Claiming, Granting, Renewing, Logging, Closing
  <2>4. QED
    BY <2>3 DEF HoldsLease
<1>6. CASE Replay(c)
  <2>1. PICK me, r : /\ Moves(c, me, worker[c]) /\ r \in operations /\ r.id = IdOf(c)
                     /\ Taken(c, me, r) /\ ctl[c].pc \in Calls
    BY <1>6, ReplayIs
  <2>2. ctl'[c] = me /\ task' = task
    BY <1>1, <2>1 DEF Moves
  <2>3. ctl[c].pc = "fail_reconcile"
    <3>1. ctl[c].pc = "fail_event" => me.pc = "fail_reconcile"
      BY <1>1, <2>1, CallFields DEF Asks, Taken
    <3>2. QED
      BY <2>1, <2>2, <3>1 DEF Calls, GuardedCalls, FailureCalls
  <2>4. r.id[1] = "FAILURE-RECONCILE" /\ ReceiptOK(r, task)
    BY <1>1, <2>1, <2>3, CallFields DEF Asks, IdOf, IInv
  <2>5. QED
    BY <1>1, <2>2, <2>4, ClosedIsNotHeld DEF ReceiptOK
<1>7. CASE Refused(c)
  <2>1. ctl[c].pc \in FailureCalls /\ task' = task
    BY <1>7 DEF Refused, Calls, GuardedCalls, FailureCalls
  <2>2. QED
    BY <1>7, <2>1, RefusedHoldsNothing
<1>8. CASE Fail(c)
  <2>1. task' = task /\ ~(task.lease # NoLease /\ task.lease = ctl[c].lease)
    BY <1>1, <1>8 DEF Fail, Locals
  <2>2. QED
    BY <2>1 DEF HoldsLease
<1>9. QED
  BY <1>4, <1>5, <1>6, <1>7, <1>8

(* Controllers with owners of their own keep the authority's terms, and    *)
(* none of them gives up on a task it holds without saying so, unless the  *)
(* answer to its report was lost or it crashed (run, _authority_write).    *)
THEOREM TermsAreKept ==
  ASSUME OwnersAreDistinct
  PROVE  Spec => ControllersKeepTheirTerms
<1>1. IInv /\ AloneInv /\ [Next]_vars =>
        [\A c \in Controllers :
           /\ ctl[c].pc \in {"failing"} \cup FailureCalls
           /\ ctl'[c].pc = "idle"
           /\ faults' = faults
           => ~HoldsLease(task', ctl[c].lease, clock)]_vars
  BY StepReports
<1>2. Spec => FailureIsReported
  BY <1>1, AloneInvariant, PTL DEF Spec, FailureIsReported
<1>3. QED
  BY <1>2, ControllersImplementAuthority DEF ControllersKeepTheirTerms
=============================================================================
