-------------------------- MODULE FairScheduler --------------------------
(***************************************************************************)
(* FairScheduler (scripts/fair_scheduler.py): the multi-tenant scheduler   *)
(* that reserves an agent and resources for a job, under a fenced lease.   *)
(* Every call is one step.  now is supplied by the caller; a call that     *)
(* quotes a lease may come up to MaxLate behind the scheduler's clock,     *)
(* which dispatch and advance refuse and the others do not look at.        *)
(*                                                                         *)
(* What a job is admitted with, and the agents, are constants; jobs and    *)
(* agents are numbered in the order of their identifiers.  Resources come  *)
(* in one dimension.  A repeated operation id returns the remembered       *)
(* answer and changes nothing but the time, so only the dispatches are     *)
(* remembered here: of them alone a repetition would not be refused anyway.*)
(***************************************************************************)
EXTENDS Integers, FiniteSets

CONSTANTS
  JobCount,
  Dependencies, Priority, Tenant, Project, Needs, MaxAttempts, RetryBudget,
  Backoff, Deadline, Eligible,                     \* by job
  AgentCount,
  AgentCapacity, AgentSlots, AgentQuota,           \* by agent
  Capacity, MaxConcurrency, MaxActive, LeaseSeconds, AgingQuantum,
  TenantQuota, ProjectQuota,                       \* by tenant, by project
  DispatchIds, MaxNow, MaxLate,                    \* bounds
  MaxJobs,                                         \* bound on the jobs admitted
  NoTime                                           \* no deadline

Jobs   == 1..JobCount
Agents == 1..AgentCount

LimitsAssumption ==
  /\ MaxConcurrency > 0 /\ MaxActive >= 0 /\ LeaseSeconds > 0 /\ AgingQuantum > 0
  /\ NoTime > MaxNow /\ MaxJobs \in 0..JobCount
  /\ \A j \in Jobs : /\ MaxAttempts[j] > 0 /\ RetryBudget[j] \in 0..MaxAttempts[j] - 1
                     /\ Backoff[j] > 0 /\ Needs[j] > 0
                     /\ Eligible[j] \subseteq Agents /\ Dependencies[j] \subseteq Jobs \ {j}

NumbersAssumption ==
  /\ {JobCount, AgentCount, Capacity, MaxNow, LeaseSeconds, AgingQuantum} \subseteq Nat
  /\ \A j \in Jobs : {Priority[j], Needs[j], MaxAttempts[j], Backoff[j], Deadline[j]} \subseteq Nat
  /\ \A j \in Jobs : \A n \in 0..RetryBudget[j] : 2 ^ n \in Nat
  /\ AgentSlots \in [Agents -> Nat] /\ AgentQuota \in [Agents -> Nat]

VARIABLES
  jobs,         \* what changes of each job
  available,    \* the resources not reserved
  slots,        \* available_agents: the free slots of each agent
  service,      \* by job: the resources its dispatches were charged
  agentService, \* by agent: its dispatches
  fence, now,
  operations    \* the dispatches remembered, with the lease or None each returned

vars == <<jobs, available, slots, service, agentService, fence, now, operations>>

Terminal  == {"succeeded", "failed", "cancelled"}
Retryable == {"worker_lost"}
Reasons   == Retryable \cup {"defect"}
Times     == 0..MaxNow

NoLease == [job |-> 0, agent |-> 0, fence |-> 0, expires |-> 0]
Absent  == [state |-> "absent", queuedAt |-> 0, attempts |-> 0, retries |-> 0,
            retryAt |-> 0, lease |-> NoLease, cancel |-> FALSE]

Later(s, t) == IF s > t THEN s ELSE t

---------------------------------------------------------------------------
Active(js)        == {j \in Jobs : js[j].state \notin Terminal \cup {"absent"}}
Running(js)       == {j \in Jobs : js[j].state = "running"}
RunningOn(js, a)  == {j \in Running(js) : js[j].lease.agent = a}
Leased(js)        == {j \in Jobs : js[j].lease # NoLease}
LeasedOn(js, set, a) == {j \in set : js[j].lease.agent = a}

(* How much of something the jobs of a set have together: units, counted.  *)
UnitsOf(amount, set) == UNION {{j} \X (1..amount[j]) : j \in set}
Reserved(set) == Cardinality(UnitsOf(Needs, set))

\* Mutated form of Unleased: the job keeps its lease.
LeaseKept(js, lost) == js

(* _release: what there is of jobs, resources and slots when the jobs in   *)
(* lost give their leases back.                                            *)
Unleased(js, lost)  == [j \in Jobs |-> IF j \in lost THEN [js[j] EXCEPT !.lease = NoLease] ELSE js[j]]
ResourcesBack(lost) == available + Reserved(lost)

\* Mutated form of SlotsBack: the agent stays occupied.
SlotsKept(lost) == slots

SlotsBack(lost) ==
  [a \in Agents |-> slots[a] + Cardinality(LeasedOn(jobs, lost, a))]

\* Mutated form of MayRetry: one retry more.
MayRetryOnceMore(j) == jobs[j].retries <= RetryBudget[j]

(* A retry is one of the job's budget and waits for its back-off, which    *)
(* doubles.                                                                *)
MayRetry(j) == jobs[j].retries < RetryBudget[j] /\ jobs[j].attempts < MaxAttempts[j]

Requeued(j, t) ==
  [jobs[j] EXCEPT !.state = "queued", !.retries = jobs[j].retries + 1,
                  !.retryAt = t + Backoff[j] * 2 ^ jobs[j].retries, !.queuedAt = t]

(* advance, for one job whose lease is over.                               *)
Expired(j, t) ==
  IF MayRetry(j) /\ ~jobs[j].cancel THEN Requeued(j, t)
  ELSE [jobs[j] EXCEPT !.state = IF jobs[j].cancel THEN "cancelled" ELSE "failed"]

Overdue(t) == {j \in Leased(jobs) : /\ jobs[j].state \in {"running", "cancelling"}
                                    /\ jobs[j].lease.expires <= t}

\* Mutated form of Readied: a failed dependency is over, too.
ReadiedWhenOver(js, j, t) ==
  IF js[j].state = "submitted" /\ \A d \in Dependencies[j] : js[d].state \in Terminal
  THEN [js EXCEPT ![j] = [js[j] EXCEPT !.state = "queued", !.queuedAt = t]] ELSE js

(* _ready for one job, and for all in the order of their identifiers.      *)
Readied(js, j, t) ==
  IF js[j].state # "submitted" THEN js
  ELSE IF \E d \in Dependencies[j] : js[d].state \in {"failed", "cancelled"}
       THEN [js EXCEPT ![j] = [js[j] EXCEPT !.state = "failed"]]
  ELSE IF \A d \in Dependencies[j] : js[d].state = "succeeded"
       THEN [js EXCEPT ![j] = [js[j] EXCEPT !.state = "queued", !.queuedAt = t]]
  ELSE js

AllReadied(js, t) ==
  LET upTo[j \in 0..JobCount] == IF j = 0 THEN js ELSE Readied(upTo[j - 1], j, t)
  IN  upTo[JobCount]

(* _available_profile: the agents that can take the job now.  Whether its  *)
(* resources fit is asked of the agent's capacity alone.                   *)
Able(js, free, j) ==
  {a \in Eligible[j] : /\ free[a] > 0
                       /\ Cardinality(RunningOn(js, a)) < AgentQuota[a]
                       /\ Needs[j] <= AgentCapacity[a]}

Served(set) == Cardinality(UnitsOf(service, set))
OfTenant(j)  == {k \in Jobs : Tenant[k] = Tenant[j]}
OfProject(j) == {k \in OfTenant(j) : Project[k] = Project[j]}

\* Mutated form of Score: jobs do not age.
ScoreUnaged(js, j, t) ==
  << Priority[j], -Served(OfTenant(j)), -Served(OfProject(j)),
     -js[j].queuedAt, -js[j].attempts, j >>

(* _score: aged priority, then the tenant and the project served least,    *)
(* then the longest in the queue, the fewest attempts, the last name.      *)
Score(js, j, t) ==
  << Priority[j] + (t - js[j].queuedAt) \div AgingQuantum,
     -Served(OfTenant(j)), -Served(OfProject(j)),
     -js[j].queuedAt, -js[j].attempts, j >>

\* Lexicographic order on tuples of one length.
Exceeds(p, q) == \E i \in DOMAIN p : p[i] > q[i] /\ \A h \in 1..i - 1 : p[h] = q[h]

First(js, set, t) ==
  CHOOSE j \in set : \A k \in set \ {j} : Exceeds(Score(js, j, t), Score(js, k, t))

LeastBusy(js, set) ==
  LET load(a) == <<Cardinality(RunningOn(js, a)), agentService[a], a>>
  IN  CHOOSE a \in set : \A b \in set \ {a} : Exceeds(load(b), load(a))

---------------------------------------------------------------------------
Init ==
  /\ jobs = [j \in Jobs |-> Absent]
  /\ available = Capacity
  /\ slots = AgentSlots
  /\ service = [j \in Jobs |-> 0]
  /\ agentService = [a \in Agents |-> 0]
  /\ fence = 0
  /\ now = 0
  /\ operations = {}

(* admit: known dependencies, a deadline to come, and room among the       *)
(* active jobs, those of the tenant and those of the project.              *)
Admit(j) ==
  /\ jobs[j].state = "absent"
  /\ Cardinality({k \in Jobs : jobs[k].state # "absent"}) < MaxJobs
  /\ \A d \in Dependencies[j] : jobs[d].state # "absent"
  /\ Deadline[j] >= now
  /\ Cardinality(Active(jobs)) < MaxActive
  /\ Cardinality(Active(jobs) \cap OfTenant(j)) < TenantQuota[Tenant[j]]
  /\ Cardinality({k \in Active(jobs) : Project[k] = Project[j]}) < ProjectQuota[Project[j]]
  /\ jobs' = [jobs EXCEPT ![j] = [jobs[j] EXCEPT !.state = "submitted"]]
  /\ UNCHANGED <<available, slots, service, agentService, fence, now, operations>>

(* advance: the clock moves on, and leases that are over are taken back.   *)
Advanced(t) ==
  Unleased([j \in Jobs |-> IF j \in Overdue(t) THEN Expired(j, t) ELSE jobs[j]], Overdue(t))

Advance(t) ==
  /\ t >= now
  /\ now' = t
  /\ jobs' = Advanced(t)
  /\ available' = ResourcesBack(Overdue(t))
  /\ slots' = SlotsBack(Overdue(t))
  /\ UNCHANGED <<service, agentService, fence, operations>>

---------------------------------------------------------------------------
Request(id, agents, t)  == [id |-> id, agents |-> agents, now |-> t]
IsRemembered(req)       == \E o \in operations : o.request = req
Remember(req, lease)    == operations' = operations \cup {[request |-> req, lease |-> lease]}

IsDue(js, j, t) == js[j].state = "queued" /\ js[j].retryAt <= t

(* dispatch: the clock is advanced; then a repeated request is answered as *)
(* before, nothing is dispatched when enough jobs run, jobs queued past    *)
(* their deadline fail, and the first of the candidates is leased to the   *)
(* least busy of the agents that can take it.  The job is marked as        *)
(* running before its resources are subtracted, and a difference that is   *)
(* not positive is refused there: the call then raises and nothing else    *)
(* has happened.                                                           *)
Dispatch(id, agents, t) ==
  LET req   == Request(id, agents, t)
      ready == AllReadied(Advanced(t), t)
      kept  == [j \in Jobs |-> IF IsDue(ready, j, t) /\ Deadline[j] < t
                               THEN [ready[j] EXCEPT !.state = "failed"] ELSE ready[j]]
      left  == ResourcesBack(Overdue(t))
      free  == SlotsBack(Overdue(t))
      able(j)    == Able(kept, free, j) \cap agents
      candidates == {j \in Jobs : IsDue(kept, j, t) /\ able(j) # {}}
  IN  /\ t >= now
      /\ now' = t
      /\ \/ /\ \/ /\ IsRemembered(req)
                  /\ jobs' = Advanced(t)
                  /\ UNCHANGED operations
               \/ /\ ~IsRemembered(req)
                  /\ Cardinality(Running(ready)) >= MaxConcurrency
                  /\ jobs' = ready
                  /\ Remember(req, NoLease)
               \/ /\ ~IsRemembered(req)
                  /\ Cardinality(Running(ready)) < MaxConcurrency
                  /\ candidates = {}
                  /\ jobs' = kept
                  /\ Remember(req, NoLease)
            /\ available' = left
            /\ slots' = free
            /\ UNCHANGED <<service, agentService, fence>>
         \/ /\ ~IsRemembered(req)
            /\ Cardinality(Running(ready)) < MaxConcurrency
            /\ candidates # {}
            /\ LET j     == First(kept, candidates, t)
                   a     == LeastBusy(kept, able(j))
                   lease == [job |-> j, agent |-> a, fence |-> fence + 1, expires |-> t + LeaseSeconds]
               IN  /\ fence' = fence + 1
                   /\ jobs' = [kept EXCEPT ![j] = [kept[j] EXCEPT !.state = "running", !.retryAt = 0,
                                                 !.attempts = kept[j].attempts + 1, !.lease = lease]]
                   /\ \/ /\ left > Needs[j]
                         /\ available' = left - Needs[j]
                         /\ slots' = [free EXCEPT ![a] = free[a] - 1]
                         /\ service' = [service EXCEPT ![j] = service[j] + Needs[j]]
                         /\ agentService' = [agentService EXCEPT ![a] = agentService[a] + 1]
                         /\ Remember(req, lease)
                      \/ /\ left <= Needs[j]
                         /\ available' = left
                         /\ slots' = free
                         /\ UNCHANGED <<service, agentService, operations>>

---------------------------------------------------------------------------
(* The leases callers quote: those dispatches returned, and the current    *)
(* one of a job after a heartbeat.                                         *)
Quotable(j) ==
  LET returned == {o.lease : o \in {x \in operations : x.lease.job = j}}
  IN  returned \cup {l \in {jobs[j].lease} : \E r \in returned : r.fence = l.fence}

(* _owned: the whole lease is compared, and the caller's time with it.     *)
Owned(j, quoted, t) ==
  /\ jobs[j].state \in {"running", "cancelling"}
  /\ jobs[j].lease = quoted
  /\ t < quoted.expires

(* The end of an attempt by its holder.                                    *)
HandBack(j, job, t) ==
  /\ now' = Later(now, t)
  /\ jobs' = Unleased([jobs EXCEPT ![j] = job], {j})
  /\ available' = ResourcesBack({j})
  /\ slots' = SlotsBack({j})
  /\ UNCHANGED <<service, agentService, fence, operations>>

Complete(j, quoted, t) ==
  /\ Owned(j, quoted, t)
  /\ HandBack(j, [jobs[j] EXCEPT !.state = "succeeded"], t)

(* fail does not look at a cancellation that was asked for.                *)
Fail(j, quoted, reason, t) ==
  /\ Owned(j, quoted, t)
  /\ HandBack(j, IF reason \in Retryable /\ MayRetry(j) THEN Requeued(j, t)
                 ELSE [jobs[j] EXCEPT !.state = "failed"], t)

AcknowledgeCancel(j, quoted, t) ==
  /\ Owned(j, quoted, t)
  /\ jobs[j].state = "cancelling"
  /\ HandBack(j, [jobs[j] EXCEPT !.state = "cancelled"], t)

Heartbeat(j, quoted, t) ==
  /\ Owned(j, quoted, t)
  /\ jobs[j].state # "cancelling"
  /\ now' = Later(now, t)
  /\ jobs' = [jobs EXCEPT ![j] = [jobs[j] EXCEPT !.lease = [jobs[j].lease EXCEPT !.expires = t + LeaseSeconds]]]
  /\ UNCHANGED <<available, slots, service, agentService, fence, operations>>

RequestCancel(j, t) ==
  /\ jobs[j].state \notin Terminal \cup {"absent"}
  /\ now' = Later(now, t)
  /\ jobs' = [jobs EXCEPT ![j] = [jobs[j] EXCEPT !.cancel = TRUE,
               !.state = IF jobs[j].state \in {"submitted", "queued"} THEN "cancelled" ELSE "cancelling"]]
  /\ UNCHANGED <<available, slots, service, agentService, fence, operations>>

Next ==
  \/ \E j \in Jobs : Admit(j)
  \/ \E t \in Times :
       \/ Advance(t)
       \/ \E id \in DispatchIds, agents \in {Agents} \cup {{a} : a \in Agents} :
            Dispatch(id, agents, t)
       \/ /\ t >= now - MaxLate
          /\ \E j \in Jobs :
               \/ RequestCancel(j, t)
               \/ \E quoted \in Quotable(j) :
                    \/ Complete(j, quoted, t)
                    \/ \E reason \in Reasons : Fail(j, quoted, reason, t)
                    \/ AcknowledgeCancel(j, quoted, t)
                    \/ Heartbeat(j, quoted, t)

Spec == Init /\ [][Next]_vars

---------------------------------------------------------------------------
(* Properties                                                              *)

States == {"absent", "submitted", "queued", "running", "cancelling"} \cup Terminal
Leases == [job : 0..JobCount, agent : 0..AgentCount, fence : Nat, expires : Nat]

(* Every variable keeps its type, and a job has a lease exactly while it   *)
(* is running or being cancelled.                                          *)
TypeOK ==
  /\ jobs \in [Jobs -> [state : States, queuedAt : Times, attempts : Nat, retries : Nat,
                         retryAt : Nat, lease : Leases, cancel : BOOLEAN]]
  /\ \A j \in Jobs : jobs[j].lease # NoLease <=> jobs[j].state \in {"running", "cancelling"}
  /\ available \in Nat
  /\ slots \in [Agents -> Nat]
  /\ service \in [Jobs -> Nat]
  /\ agentService \in [Agents -> Nat]
  /\ fence \in Nat
  /\ now \in Times
  /\ operations \subseteq [request : [id : DispatchIds, agents : SUBSET Agents, now : Times],
                           lease : Leases]

(* As long as no dispatch raised in the middle, resources and the agents'  *)
(* slots are neither lost nor given back twice (dispatch reserves both;    *)
(* complete, fail, acknowledge_cancel and advance release them).           *)
EveryDispatchReturned == Cardinality({o \in operations : o.lease # NoLease}) = fence
ReservationsBalance ==
  EveryDispatchReturned =>
    /\ available + Reserved(Leased(jobs)) = Capacity
    /\ \A a \in Agents : slots[a] + Cardinality(LeasedOn(jobs, Leased(jobs), a)) = AgentSlots[a]

(* Aging bounds how long a job can be overtaken: a job that came into the  *)
(* queue an aging quantum later for each point of priority it is ahead,    *)
(* and one more, is not dispatched to an agent that could have taken the   *)
(* first.                                                                  *)
Started(j)         == jobs'[j].attempts = jobs[j].attempts + 1
CouldRunOn(k, a)   == /\ jobs[k].state = "queued" /\ jobs[k].retryAt <= now'
                      /\ Deadline[k] >= now'
                      /\ a \in Able(jobs, slots, k)
NobodyIsOvertaken ==
  \A j, k \in Jobs :
    Started(j) /\ jobs[j].state = "queued" /\ CouldRunOn(k, jobs'[j].lease.agent) =>
      jobs[j].queuedAt < jobs[k].queuedAt + AgingQuantum * (Priority[j] - Priority[k] + 1)
NobodyIsOvertakenLong == [][NobodyIsOvertaken]_vars

(* The scheduler keeps the promise of JobLifecycle, with one start more    *)
(* than the retry budget: leases are never shared, reused or revived, a    *)
(* job waits for what it depends on (_ready, dispatch), and                *)
(* what is over stays over.                                                *)
Lifecycle == INSTANCE JobLifecycle WITH
  MaxAttempts <- [j \in Jobs |-> RetryBudget[j] + 1],
  done     <- {j \in Jobs : jobs[j].state = "succeeded"},
  over     <- {j \in Jobs : jobs[j].state \in Terminal},
  holder   <- [j \in Jobs |-> jobs[j].lease.fence],
  attempts <- [j \in Jobs |-> jobs[j].attempts]

ImplementsLifecycle == Lifecycle!Spec

(* VIOLATED. No overcommitment of resources                                *)
(* (specifications/fair-scheduler-v1.json: no global, tenant, project,     *)
(* agent, or resource overcommitment).                                     *)
ResourcesWithinCapacity == Reserved(Leased(jobs)) <= Capacity

(* VIOLATED. No global overcommitment: a job that is being cancelled still *)
(* occupies its worker (same invariant).                                   *)
ConcurrencyWithinLimit == Cardinality(Leased(jobs)) <= MaxConcurrency

(* VIOLATED. A job that was asked to stop is not started again             *)
(* (specifications/fair-scheduler-v1.json: running cancellation fences     *)
(* further work).                                                          *)
CancelledIsNotRestarted ==
  [][\A j \in Jobs : jobs[j].cancel => jobs'[j].attempts = jobs[j].attempts]_vars

(* VIOLATED. By the scheduler's own clock, a job does not succeed under a  *)
(* lease that is over (specifications/fair-scheduler-v1.json: stale or     *)
(* expired claims cannot complete).                                        *)
ExpiredClaimsCannotComplete ==
  [][\A j \in Jobs : jobs[j].lease # NoLease /\ jobs[j].lease.expires <= now =>
       jobs'[j].state # "succeeded"]_vars
===========================================================================
