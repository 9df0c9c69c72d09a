------------------------ MODULE DurableScheduler ------------------------
(***************************************************************************)
(* Scheduler (scripts/durable_scheduler.py), the job kernel behind         *)
(* RuntimeScheduler: jobs with dependencies are admitted, queued when what *)
(* they depend on succeeded, dispatched to workers under a fenced lease,   *)
(* and completed, failed, retried, cancelled or expired.  Every call is    *)
(* one step; time is what the callers say it is.                           *)
(*                                                                         *)
(* Jobs are numbered in the order of their admission, which is the order   *)
(* in which the kernel walks them, and what a job is admitted with is a    *)
(* constant.  A lease identifier is LSE-<job>-<fence>, so the fence stands *)
(* for it.  Resources come in one dimension.                               *)
(*                                                                         *)
(* A repeated operation id returns the remembered answer and changes       *)
(* nothing, so a repeated call is a stuttering step, with one exception    *)
(* that makes dispatches worth remembering: a None is not recognised as an *)
(* answer, and the dispatch is made again.                                 *)
(***************************************************************************)
EXTENDS Integers, FiniteSets

CONSTANTS
  JobCount, Workers, DispatchIds,
  Dependencies, Priority, Tenant, Needs, MaxAttempts, Deadline,  \* by job
  Capacity, MaxConcurrency, MaxQueued, LeaseSeconds, AgingQuantum,
  TenantLimit,      \* by tenant
  MaxNow,           \* bound on the times callers name
  MaxJobs,          \* bound on the jobs admitted, any of JobCount
  NoTime            \* no deadline, no retry time: later than any time

Jobs == 1..JobCount

ASSUME LimitsAssumption ==
  /\ MaxConcurrency > 0 /\ MaxQueued >= 0 /\ LeaseSeconds > 0 /\ AgingQuantum > 0
  /\ \A j \in Jobs : MaxAttempts[j] > 0 /\ Dependencies[j] \subseteq 1..j - 1
  /\ NoTime > MaxNow /\ MaxJobs \in 0..JobCount

ASSUME NumbersAssumption ==
  /\ {JobCount, MaxNow, Capacity, LeaseSeconds, AgingQuantum, MaxConcurrency} \subseteq Nat
  /\ \A j \in Jobs : {Priority[j], Needs[j], MaxAttempts[j], Deadline[j], TenantLimit[Tenant[j]]} \subseteq Nat
  /\ \A n \in 0..5 : 2 ^ n \in Nat
  /\ "none" \notin Workers

VARIABLES
  jobs,         \* what changes of each job
  available,    \* the resources not reserved
  fence, now,
  operations    \* the dispatches made, with the lease or the None each returned

vars == <<jobs, available, fence, now, operations>>

Terminal  == {"succeeded", "failed", "cancelled"}
Retryable == {"worker_lost"}
Reasons   == Retryable \cup {"defect"}
Times     == 0..MaxNow

NoLease == [job |-> 0, worker |-> "none", fence |-> 0, expires |-> 0]
Absent  == [state |-> "absent", queuedAt |-> 0, attempts |-> 0, lease |-> NoLease,
            retryAt |-> 0, cancel |-> FALSE, checkpoint |-> 0]

Later(s, t) == IF s > t THEN s ELSE t

---------------------------------------------------------------------------
(* _op and _remember, for dispatches.                                      *)

Request(id, worker, t) == [id |-> id, worker |-> worker, now |-> t]

(* A remembered None is not seen as an answer.                             *)
IsAnswered(req) == \E o \in operations : o.request = req /\ o.lease # NoLease

Remember(req, lease) ==
  operations' = {o \in operations : o.request # req} \cup {[request |-> req, lease |-> lease]}

---------------------------------------------------------------------------
Counted(js, states) == Cardinality({j \in Jobs : js[j].state \in states})

\* Mutated form of Released: a failed dependency is over, too.
ReleasedWhenOver(js, j, t) ==
  IF /\ js[j].state = "submitted"
     /\ \A d \in Dependencies[j] : js[d].state \in Terminal
     /\ Counted(js, {"queued"}) < MaxQueued
  THEN [js EXCEPT ![j] = [js[j] EXCEPT !.state = "queued", !.queuedAt = t]] ELSE js

(* release_dependencies for one job: it fails with what it depends on, or  *)
(* is queued if everything it depends on succeeded and the queue has room. *)
Released(js, j, t) ==
  IF js[j].state # "submitted" THEN js
  ELSE IF \E d \in Dependencies[j] : js[d].state \in {"failed", "cancelled"}
       THEN [js EXCEPT ![j] = [js[j] EXCEPT !.state = "failed"]]
  ELSE IF /\ \A d \in Dependencies[j] : js[d].state = "succeeded"
          /\ Counted(js, {"queued"}) < MaxQueued
       THEN [js EXCEPT ![j] = [js[j] EXCEPT !.state = "queued", !.queuedAt = t]]
  ELSE js

(* ... and for all of them, in the order of admission.                     *)
AllReleased(js, t) ==
  LET upTo[j \in 0..JobCount] == IF j = 0 THEN js ELSE Released(upTo[j - 1], j, t)
  IN  upTo[JobCount]

(* How much the jobs of a set reserve together: their units, counted.      *)
UnitsOf(set)  == UNION {{j} \X (1..Needs[j]) : j \in set}
Reserved(set) == Cardinality(UnitsOf(set))

\* Mutated forms of Unleased: what the jobs reserved is not given back, or
\* is given back although the lease stays.
UnleasedOnly(js, lost) ==
  /\ jobs' = [j \in Jobs |-> IF j \in lost THEN [js[j] EXCEPT !.lease = NoLease] ELSE js[j]]
  /\ UNCHANGED available

ReleasedOnly(js, lost) ==
  /\ jobs' = js
  /\ available' = available + Reserved(lost)

(* _release: the jobs of lost give their leases and resources back.        *)
Unleased(js, lost) ==
  /\ jobs' = [j \in Jobs |-> IF j \in lost THEN [js[j] EXCEPT !.lease = NoLease] ELSE js[j]]
  /\ available' = available + Reserved(lost)

\* Mutated form of Owned: a lease of another attempt will do.
OwnedBefore(j, quoted, t) ==
  /\ jobs[j].state = "running"
  /\ quoted.fence <= jobs[j].lease.fence
  /\ t < jobs[j].lease.expires

(* _owned: the caller quotes the lease in force, and in time.              *)
Owned(j, quoted, t) ==
  /\ jobs[j].state = "running"
  /\ quoted.worker = jobs[j].lease.worker
  /\ quoted.fence = jobs[j].lease.fence
  /\ t < jobs[j].lease.expires

(* The leases that were ever handed out, as the workers quote them.        *)
Quotable(j) == {o.lease : o \in {x \in operations : x.lease.job = j}}

---------------------------------------------------------------------------
Init ==
  /\ jobs = [j \in Jobs |-> Absent]
  /\ available = Capacity
  /\ fence = 0
  /\ now = 0
  /\ operations = {}

(* admit: a job may depend on admitted jobs only.                          *)
Admit(j) ==
  /\ \A k \in j..JobCount : jobs[k].state = "absent"
  /\ \A d \in Dependencies[j] : jobs[d].state # "absent"
  /\ Counted(jobs, {"absent"}) > JobCount - MaxJobs
  /\ Deadline[j] >= now
  /\ jobs' = [jobs EXCEPT ![j] = [jobs[j] EXCEPT !.state = "submitted"]]
  /\ UNCHANGED <<available, fence, now, operations>>

ReleaseDependencies(t) ==
  /\ now' = Later(now, t)
  /\ jobs' = AllReleased(jobs, now')
  /\ UNCHANGED <<available, fence, operations>>

IsDue(js, j, t)  == js[j].state = "queued" /\ js[j].retryAt <= t
TenantRuns(js, tenant) ==
  Cardinality({j \in Jobs : js[j].state = "running" /\ Tenant[j] = tenant})

Fits(j) == Needs[j] <= available

\* Mutated form of Candidates: a job at its tenant's limit is one more.
CandidatesOfAnyTenant(js, t) == {j \in Jobs : IsDue(js, j, t) /\ Fits(j)}

Candidates(js, t) ==
  {j \in Jobs : /\ IsDue(js, j, t)
                /\ TenantRuns(js, Tenant[j]) < TenantLimit[Tenant[j]]
                /\ Fits(j)}

(* _score: priority with aging, then the longest in the queue, then the    *)
(* greatest identifier.                                                    *)
Effective(js, j, t) == Priority[j] + (t - js[j].queuedAt) \div AgingQuantum
IsBefore(js, j, k, t) ==
  LET a == Effective(js, j, t)
      b == Effective(js, k, t)
  IN  \/ a > b
      \/ a = b /\ js[j].queuedAt < js[k].queuedAt
      \/ a = b /\ js[j].queuedAt = js[k].queuedAt /\ j > k
First(js, set, t) == CHOOSE j \in set : \A k \in set \ {j} : IsBefore(js, j, k, t)

(* dispatch: nothing when enough jobs are running; otherwise jobs are      *)
(* released, those queued past their deadline fail, and the first of the   *)
(* candidates is leased to the worker.                                     *)
Dispatch(id, worker, t) ==
  LET req      == Request(id, worker, t)
      released == AllReleased(jobs, now')
      late     == {j \in Jobs : IsDue(released, j, now') /\ Deadline[j] < now'}
      kept     == [j \in Jobs |-> IF j \in late THEN [released[j] EXCEPT !.state = "failed"]
                                  ELSE released[j]]
      able     == Candidates(kept, now')
  IN  /\ now' = Later(now, t)
      /\ \/ /\ IsAnswered(req)
            /\ UNCHANGED <<jobs, available, fence, operations>>
         \/ /\ ~IsAnswered(req)
            /\ Counted(jobs, {"running"}) >= MaxConcurrency
            /\ Remember(req, NoLease)
            /\ UNCHANGED <<jobs, available, fence>>
         \/ /\ ~IsAnswered(req)
            /\ Counted(jobs, {"running"}) < MaxConcurrency
            /\ able = {}
            /\ jobs' = kept
            /\ Remember(req, NoLease)
            /\ UNCHANGED <<available, fence>>
         \/ /\ ~IsAnswered(req)
            /\ Counted(jobs, {"running"}) < MaxConcurrency
            /\ able # {}
            /\ LET j     == First(kept, able, now')
                   lease == [job |-> j, worker |-> worker, fence |-> fence + 1, expires |-> now' + LeaseSeconds]
               IN  /\ jobs' = [kept EXCEPT ![j] = [kept[j] EXCEPT !.state = "running", !.retryAt = 0,
                                             !.attempts = kept[j].attempts + 1, !.lease = lease]]
                   /\ available' = available - Needs[j]
                   /\ fence' = fence + 1
                   /\ Remember(req, lease)

\* Mutated form of MayRetry: one attempt more.
MayRetryOnceMore(j) == jobs[j].attempts <= MaxAttempts[j]

MayRetry(j) == jobs[j].attempts < MaxAttempts[j]

Heartbeat(j, quoted, t) ==
  /\ Owned(j, quoted, t)
  /\ now' = Later(now, t)
  /\ jobs' = [jobs EXCEPT ![j] = [jobs[j] EXCEPT !.lease = [jobs[j].lease EXCEPT !.expires = t + LeaseSeconds]]]
  /\ UNCHANGED <<available, fence, operations>>

(* checkpoint: the fence it was written under stands for its digest.       *)
Checkpoint(j, quoted, t) ==
  /\ Owned(j, quoted, t)
  /\ now' = Later(now, t)
  /\ jobs' = [jobs EXCEPT ![j] = [jobs[j] EXCEPT !.checkpoint = quoted.fence]]
  /\ UNCHANGED <<available, fence, operations>>

Complete(j, quoted, t) ==
  /\ Owned(j, quoted, t)
  /\ now' = Later(now, t)
  /\ Unleased([jobs EXCEPT ![j] = [jobs[j] EXCEPT !.state = "succeeded"]], {j})
  /\ UNCHANGED <<fence, operations>>

(* fail: a retryable failure goes back to the queue while attempts are     *)
(* left, to be dispatched after a back-off that doubles.                   *)
Fail(j, quoted, reason, t) ==
  /\ Owned(j, quoted, t)
  /\ now' = Later(now, t)
  /\ LET tries == jobs[j].attempts
         pause == IF tries > 6 THEN 60 ELSE 2 ^ (tries - 1)
     IN  IF reason \in Retryable /\ MayRetry(j)
         THEN Unleased([jobs EXCEPT ![j] = [jobs[j] EXCEPT !.state = "queued", !.retryAt = t + pause,
                                              !.queuedAt = t]], {j})
         ELSE Unleased([jobs EXCEPT ![j] = [jobs[j] EXCEPT !.state = "failed"]], {j})
  /\ UNCHANGED <<fence, operations>>

(* request_cancel: a queued job is cancelled at once; any other that is    *)
(* not over waits for its worker, whether or not it has one.               *)
RequestCancel(j) ==
  /\ jobs[j].state \notin Terminal \cup {"absent"}
  /\ jobs' = [jobs EXCEPT ![j] = [jobs[j] EXCEPT !.cancel = TRUE,
                            !.state = IF jobs[j].state = "queued" THEN "cancelled" ELSE "cancelling"]]
  /\ UNCHANGED <<available, fence, now, operations>>

MayAcknowledge(j, quoted, t) ==
  /\ Owned(j, quoted, t)
  /\ jobs[j].cancel
  /\ jobs[j].state = "cancelling"

AcknowledgeCancel(j, quoted, t) ==
  /\ MayAcknowledge(j, quoted, t)
  /\ now' = Later(now, t)
  /\ Unleased([jobs EXCEPT ![j] = [jobs[j] EXCEPT !.state = "cancelled"]], {j})
  /\ UNCHANGED <<fence, operations>>

(* expire: every running job whose lease is over by t is queued again, or  *)
(* fails when it has no attempt left.                                      *)
Expire(t) ==
  LET lost == {j \in Jobs : jobs[j].state = "running" /\ jobs[j].lease.expires <= t}
  IN  /\ now' = Later(now, t)
      /\ Unleased([j \in Jobs |->
           IF j \notin lost THEN jobs[j]
           ELSE IF MayRetry(j)
                THEN [jobs[j] EXCEPT !.state = "queued", !.retryAt = t, !.queuedAt = t]
                ELSE [jobs[j] EXCEPT !.state = "failed"]], lost)
      /\ UNCHANGED <<fence, operations>>

Next ==
  \/ \E j \in Jobs : Admit(j) \/ RequestCancel(j)
  \/ \E t \in Times :
       \/ ReleaseDependencies(t)
       \/ Expire(t)
       \/ \E id \in DispatchIds, w \in Workers : Dispatch(id, w, t)
       \/ \E j \in Jobs : \E quoted \in Quotable(j) :
            \/ Heartbeat(j, quoted, t)
            \/ Checkpoint(j, quoted, t)
            \/ Complete(j, quoted, t)
            \/ \E reason \in Reasons : Fail(j, quoted, reason, t)
            \/ AcknowledgeCancel(j, quoted, t)

Spec == Init /\ [][Next]_vars

---------------------------------------------------------------------------
(* Properties                                                              *)

States == {"absent", "submitted", "queued", "running", "cancelling"} \cup Terminal
Leases == [job : 0..JobCount, worker : Workers \cup {"none"}, fence : Nat, expires : Nat]

(* Every variable keeps its type, a running job has a lease and a job      *)
(* waiting or over has none.                                               *)
TypeOK ==
  /\ jobs \in [Jobs -> [state : States, queuedAt : Times, attempts : Nat, lease : Leases,
                         retryAt : Nat, cancel : BOOLEAN, checkpoint : Nat]]
  /\ available \in 0..Capacity
  /\ fence \in Nat
  /\ now \in Times
  /\ operations \subseteq [request : [id : DispatchIds, worker : Workers, now : Times],
                           lease : Leases]
  /\ \A j \in Jobs : /\ jobs[j].state = "running" => jobs[j].lease # NoLease
                     /\ jobs[j].lease # NoLease => jobs[j].state \in {"running", "cancelling"}

(* Resources are neither lost nor given back twice: what is available and  *)
(* what the leased jobs need is the capacity (dispatch reserves; complete, *)
(* fail and expire release, each in its own way).                          *)
ReservationsBalance ==
  available + Reserved({j \in Jobs : jobs[j].lease # NoLease}) = Capacity

(* No tenant has more jobs running than its limit, however they came to    *)
(* run (dispatch counts before it chooses).                                *)
TenantsWithinLimit ==
  \A j \in Jobs : TenantRuns(jobs, Tenant[j]) <= TenantLimit[Tenant[j]]

(* The checkpoint of an attempt is never overwritten by that of an earlier *)
(* one: a worker whose lease was lost writes nothing more (checkpoint).    *)
CheckpointsGoForward ==
  [][\A j \in Jobs : jobs'[j].checkpoint >= jobs[j].checkpoint]_vars

(* The kernel keeps the promise of JobLifecycle: leases are never shared,  *)
(* reused or revived, starts are bounded and wait for what they depend on, *)
(* and what is over stays over.                                            *)
Lifecycle == INSTANCE JobLifecycle WITH
  done     <- {j \in Jobs : jobs[j].state = "succeeded"},
  over     <- {j \in Jobs : jobs[j].state \in Terminal},
  holder   <- [j \in Jobs |-> jobs[j].lease.fence],
  attempts <- [j \in Jobs |-> jobs[j].attempts]

ImplementsLifecycle == Lifecycle!Spec

(* VIOLATED. The holder of a lease in force may acknowledge a cancellation *)
(* that was asked for (docs/PROTOCOL.md:447: cancellation requires worker  *)
(* acknowledgement).                                                       *)
HolderMayAcknowledge ==
  \A j \in Jobs : jobs[j].state = "cancelling" /\ now < jobs[j].lease.expires =>
    MayAcknowledge(j, jobs[j].lease, now)

(* VIOLATED. After expire, no lease that is over holds resources           *)
(* (docs/ARCHITECTURE.md:74: expiry releases resources and creates a       *)
(* bounded retry or terminal outcome).                                     *)
ExpiryReleases ==
  [][\A t \in Times : Expire(t) => \A j \in Jobs : jobs'[j].lease.fence > 0 => jobs'[j].lease.expires > t]_vars

(* VIOLATED. A dispatch that was answered is answered the same whenever it *)
(* is repeated (specifications/durable-scheduler-v1.json: same operation   *)
(* ID and request digest replay identically).                              *)
DispatchReplaysIdentically ==
  [][\A o \in operations : o \in operations']_vars
===========================================================================
