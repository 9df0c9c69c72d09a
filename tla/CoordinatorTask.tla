------------------------- MODULE CoordinatorTask -------------------------
(***************************************************************************)
(* The task record the Coordinator-shaped authority keeps in its state     *)
(* file (scripts/durable_coordinator.py), the requests a caller can send,  *)
(* when the authority accepts one and what an accepted one does to the     *)
(* record.  The module has no state: the modules that keep a task record   *)
(* extend it, so that each of them runs the same authority.                *)
(*                                                                         *)
(* A task identity, its project revision and its worktree digest never     *)
(* change after initialize, so they are left out; the lease identifier     *)
(* LSE-<fence> is a function of the fence and is left out too.             *)
(***************************************************************************)
EXTENDS Integers

CONSTANTS
  None,          \* no owner, no session
  LeaseSeconds   \* how long a granted or renewed lease lasts

ASSUME LeaseSecondsAssumption == LeaseSeconds \in Nat \ {0}

Terminal == {"done", "blocked", "failed"}
Status   == {"open", "claimed", "running"} \cup Terminal

\* The record stands for the JSON null of a task without a lease: fence 0 is
\* never granted, so it equals no lease.
NoLease == [owner |-> None, session |-> None, fence |-> 0, expires |-> 0]

NewLease(owner, session, fence, now) ==
  [owner |-> owner, session |-> session, fence |-> fence, expires |-> now + LeaseSeconds]

InitialTask(revision) ==
  [revision |-> revision, status |-> "open", owner |-> None, lease |-> NoLease, fence |-> 0]

---------------------------------------------------------------------------
(* Requests.  A request is the fingerprint of an operation: its kind and   *)
(* every argument the authority digests.                                   *)

Request(op, revision, owner, session, lease, arg) ==
  [op |-> op, revision |-> revision, owner |-> owner, session |-> session,
   lease |-> lease, arg |-> arg]

ClaimRequest(revision, owner) ==
  Request("claim", revision, owner, None, NoLease, "none")
LeaseRequest(revision, owner, session) ==
  Request("lease", revision, owner, session, NoLease, "none")
RecoverRequest(revision, owner, session) ==
  Request("recover", revision, owner, session, NoLease, "none")
HeartbeatRequest(revision, lease) ==
  Request("heartbeat", revision, None, None, lease, "none")
EventRequest(revision, lease, session, event) ==
  Request("event", revision, None, session, lease, event)
ReconcileRequest(revision, lease, status) ==
  Request("reconcile", revision, None, None, lease, status)

---------------------------------------------------------------------------
\* Mutated forms of HoldsLease: the stored lease is checked and not the
\* caller's copy; the expiry is not checked.
SomeLeaseIsLive(task, lease, now) ==
  lease # NoLease /\ task.lease # NoLease /\ task.lease.expires > now
LeaseIsStored(task, lease, now) ==
  lease # NoLease /\ task.lease = lease

(* The lease check every write of a running session passes: the caller's   *)
(* copy equals the stored lease, expiry included, and it has not expired.  *)
HoldsLease(task, lease, now) ==
  /\ lease # NoLease
  /\ task.lease = lease
  /\ lease.expires > now

\* Mutated form of LeaseIsOver: one tick early.
LeaseIsAlmostOver(task, now) ==
  task.lease # NoLease /\ task.lease.expires <= now + 1

(* A lease may be replaced only once it has expired.                       *)
LeaseIsOver(task, now) ==
  task.lease # NoLease /\ task.lease.expires <= now

(* What the authority admits; the revision is compared (CAS) first.        *)
Accepts(task, req, now) ==
  /\ task.revision = req.revision
  /\ \/ /\ req.op = "claim"
        /\ task.status = "open"
        /\ task.owner = None
     \/ /\ req.op = "lease"
        /\ task.status = "claimed"
        /\ task.owner = req.owner
     \/ /\ req.op = "recover"
        /\ task.status = "running"
        /\ LeaseIsOver(task, now)
     \/ /\ req.op = "heartbeat"
        /\ HoldsLease(task, req.lease, now)
     \/ /\ req.op = "event"
        /\ HoldsLease(task, req.lease, now)
        /\ task.lease.session = req.session
     \/ /\ req.op = "reconcile"
        /\ req.arg \in Terminal
        /\ HoldsLease(task, req.lease, now)

(* What each kind of accepted request leaves; every one adds a revision.   *)
Claimed(task, owner) ==
  [task EXCEPT !.revision = @ + 1, !.status = "claimed", !.owner = owner]

\* A lease is granted under the next fence, to a claimer or a recoverer.
Granted(task, owner, session, now) ==
  [task EXCEPT !.revision = @ + 1,
               !.status   = "running",
               !.owner    = owner,
               !.fence    = @ + 1,
               !.lease    = NewLease(owner, session, task.fence + 1, now)]

Renewed(task, now) ==
  [task EXCEPT !.revision = @ + 1, !.lease = [@ EXCEPT !.expires = now + LeaseSeconds]]

Logged(task) ==
  [task EXCEPT !.revision = @ + 1]

\* Mutated forms of Reconciled: the lease becomes a null, or stays.
ReconciledToNull(task, status) ==
  [task EXCEPT !.revision = @ + 1, !.status = status, !.owner = None, !.lease = None]
ReconciledKeepingLease(task, status) ==
  [task EXCEPT !.revision = @ + 1, !.status = status, !.owner = None]

Reconciled(task, status) ==
  [task EXCEPT !.revision = @ + 1, !.status = status, !.owner = None, !.lease = NoLease]

(* The task record after an accepted request.                              *)
Effect(task, req, now) ==
  CASE req.op = "claim"               -> Claimed(task, req.owner)
    [] req.op \in {"lease", "recover"} -> Granted(task, req.owner, req.session, now)
    [] req.op = "heartbeat"           -> Renewed(task, now)
    [] req.op = "event"               -> Logged(task)
    [] req.op = "reconcile"           -> Reconciled(task, req.arg)
===========================================================================
