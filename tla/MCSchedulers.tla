---------------------------- MODULE MCSchedulers ----------------------------
(* The two job kernels side by side; a behaviour uses one of them, and any   *)
(* two of the three jobs that can be admitted.                               *)
(*   durable  the first job has two attempts, the second is urgent and has a *)
(*            deadline, and the third waits for the first                    *)
(*   fair     the third job is urgent and has a retry, the second waits for  *)
(*            it, has a deadline and needs all there is, and the first has a *)
(*            single attempt                                                 *)
EXTENDS DurableScheduler

CONSTANTS      \* the fair kernel's, where they are not the durable one's
  FairDependencies, FairPriority, FairTenant, FairProject, FairNeeds, FairMaxAttempts,
  RetryBudget, Backoff, FairDeadline, Eligible, AgentCount, AgentCapacity, AgentSlots,
  AgentQuota, FairCapacity, FairMaxConcurrency, MaxActive, TenantQuota, ProjectQuota, MaxLate

VARIABLES inUse, fairJobs, fairAvailable, slots, service, agentService,
          fairFence, fairNow, fairOperations

Fair == INSTANCE FairScheduler WITH
  jobs <- fairJobs, available <- fairAvailable, fence <- fairFence, now <- fairNow,
  operations <- fairOperations,
  Dependencies <- FairDependencies, Priority <- FairPriority, Tenant <- FairTenant,
  Project <- FairProject, Needs <- FairNeeds, MaxAttempts <- FairMaxAttempts,
  Deadline <- FairDeadline, Capacity <- FairCapacity, MaxConcurrency <- FairMaxConcurrency

\* The jobs, tenants and agents of the run.
Waits     == <<{}, {}, {1}>>
OneTenant == <<"a", "a", "a">>
Urgency   == <<1, 2, 2>>
Unit      == <<1, 1, 1>>
Tries     == <<2, 1, 1>>
DueAtOne  == <<NoTime, 1, NoTime>>
OneEach   == [a |-> 1]
TwoEach   == [a |-> 2]
FairWaits == <<{}, {3}, {}>>
FairUrgency  == <<1, 1, 2>>
AllOfSecond  == <<1, 3, 1>>
FairTries    == <<1, 2, 2>>
FairRetries  == <<0, 1, 1>>
OnFirst      == <<{1}, {1}, {1}>>
ThreeUnits   == <<3>>
TwoSlots     == <<2>>

ASSUME FairAssumption == Fair!LimitsAssumption /\ Fair!NumbersAssumption

fairVars == <<fairJobs, fairAvailable, slots, service, agentService,
              fairFence, fairNow, fairOperations>>
MCVars   == <<inUse, vars, fairVars>>

MCInit == inUse \in {"durable", "fair"} /\ Init /\ Fair!Init
MCNext ==
  \/ inUse = "durable" /\ Next /\ UNCHANGED <<inUse, fairVars>>
  \/ inUse = "fair" /\ Fair!Next /\ UNCHANGED <<inUse, vars>>
MCSpec == MCInit /\ [][MCNext]_MCVars

(* In either kernel what is reserved and what is left are all there is,    *)
(* however a job came to run and to end, and in the durable one no tenant  *)
(* runs more jobs than its limit (dispatch, complete, fail, expire).       *)
ResourcesAreAccounted ==
  IF inUse = "durable" THEN TypeOK /\ ReservationsBalance /\ TenantsWithinLimit
                       ELSE Fair!TypeOK /\ Fair!ReservationsBalance

(* In the fair kernel a job is overtaken only by one that is more urgent   *)
(* than the time it came later is worth (FairScheduler.NobodyIsOvertaken). *)
NobodyIsOvertakenLong == [][inUse = "fair" => Fair!NobodyIsOvertaken]_MCVars

(* Either kernel keeps the promise of JobLifecycle: leases are never       *)
(* shared, reused or revived, starts are bounded and wait for what they    *)
(* depend on, and what is over stays over.                                 *)
KernelsKeepTheLifecycle ==
  /\ Lifecycle!Init /\ Fair!Lifecycle!Init
  /\ [][IF inUse = "durable" THEN [Lifecycle!Next]_(Lifecycle!vars)
                             ELSE [Fair!Lifecycle!Next]_(Fair!Lifecycle!vars)]_MCVars
=============================================================================
