-------------------------- MODULE SchedulersProofs --------------------------
(***************************************************************************)
(* Machine-checked proofs about the two job kernels, the durable one and   *)
(* the fair one.  They hold for any jobs, agents, tenants, dependencies,   *)
(* needs, priorities, deadlines, retries, capacities, quotas and clocks.   *)
(*                                                                         *)
(* What jobs reserve is added up without a recursion: the units that a set *)
(* of jobs reserves are pairs of a job and a number (Units), and their sum *)
(* is how many there are (Sum), so that a job that comes or goes adds or   *)
(* takes away its own (SumsAdd, SumsTakeAway).                             *)
(*                                                                         *)
(* The invariants say of either kernel that what its leased jobs reserve,  *)
(* and what is available, is all there is; that leases have fences of      *)
(* their own, none later than the latest; and that no job is queued or     *)
(* worked on before what it awaits succeeded (DurableInv, FairInv).  A     *)
(* call of the fair kernel settles jobs first, by time and then one by one *)
(* in their order (FairSettled), and dispatches the best of what is left:  *)
(* of two jobs that an agent could take, the one that waits longer by an   *)
(* aging quantum for every point it is behind scores at least as high      *)
(* (AgingIsWorth, OvertakesNone).                                          *)
(***************************************************************************)
EXTENDS MCSchedulers, FiniteSetTheorems, NaturalsInduction, WellFoundedInduction, TLAPS

(* A set of numbers that is not empty has a least one.                     *)
LEMMA Least == ASSUME NEW S \in SUBSET Nat, S # {} PROVE \E m \in S : \A n \in S : m <= n
<1>1. PICK x \in S : TRUE
  OBVIOUS
<1>2. \E m \in S : \A n \in S : ~(n < m)
  <2> DEFINE R == OpToRel(<, Nat)
  <2>1. IsWellFoundedOn(R, Nat)
    BY NatLessThanWellFounded
  <2>2. \E m \in S : \A n \in S : ~(<<n, m>> \in R)
    <3> HIDE DEF R
    <3> QED
      BY <2>1, <1>1, WFMin
  <2>3. QED
    BY <2>2 DEF OpToRel
<1>3. QED
  BY <1>2

(* What holds of 0, and of a number's successor when it holds of the       *)
(* number, holds up to n: the set of the numbers it holds of is all.       *)
LEMMA AllUpTo ==
  ASSUME NEW n \in Nat, NEW H, 0 \in H, \A i \in 0..n : i \in H /\ i < n => i + 1 \in H
  PROVE  \A i \in 0..n : i \in H
<1> DEFINE W == {i \in 0..n : i \notin H}
<1>1. SUFFICES ASSUME W # {} PROVE FALSE
  OBVIOUS
<1>2. W \in SUBSET Nat
  OBVIOUS
<1>3. PICK m \in W : \A i \in W : m <= i
  <2> HIDE DEF W
  <2> QED
    BY <1>1, <1>2, Least
<1>4. m # 0 /\ m - 1 \in 0..n /\ m - 1 < n
  OBVIOUS
<1>5. m - 1 \in H
  BY <1>3, <1>4
<1>6. m \in H
  BY <1>4, <1>5
<1>7. QED
  BY <1>6

LEMMA DisjointSets ==
  ASSUME NEW A, NEW B, IsFiniteSet(A), IsFiniteSet(B), A \cap B = {}
  PROVE  /\ IsFiniteSet(A \cup B) /\ Cardinality(A) \in Nat /\ Cardinality(B) \in Nat
         /\ Cardinality(A \cup B) = Cardinality(A) + Cardinality(B)
<1>1. Cardinality(A) \in Nat /\ Cardinality(B) \in Nat
  BY FS_CardinalityType
<1>2. Cardinality(A \cap B) = 0
  BY FS_EmptySet
<1>3. IsFiniteSet(A \cup B) /\ Cardinality(A \cup B) = Cardinality(A) + Cardinality(B) - Cardinality(A \cap B)
  BY FS_Union
<1>4. QED
  BY <1>1, <1>2, <1>3

LEMMA JobsAre == JobCount \in Nat /\ IsFiniteSet(Jobs) /\ \A S \in SUBSET Jobs : IsFiniteSet(S) /\ Cardinality(S) \in Nat
<1>1. JobCount \in Nat
  BY NumbersAssumption
<1>2. IsFiniteSet(Jobs)
  BY <1>1, FS_Interval DEF Jobs
<1>3. QED
  BY <1>1, <1>2, FS_Subset, FS_CardinalityType
---------------------------------------------------------------------------
(* What a set of jobs has together.                                        *)
Units(amount, S) == UNION {{j} \X (1..amount[j]) : j \in S}
Sum(amount, S)   == Cardinality(Units(amount, S))

IsAmount(amount) == \A j \in Jobs : amount[j] \in Nat

LEMMA UnitsHold ==
  ASSUME NEW amount, NEW S
  PROVE  \A u : u \in Units(amount, S) <=> \E j \in S : u \in {j} \X (1..amount[j])
BY DEF Units

LEMMA UnitsAreFinite ==
  ASSUME NEW amount, IsAmount(amount), NEW S \in SUBSET Jobs
  PROVE  IsFiniteSet(Units(amount, S)) /\ Sum(amount, S) \in Nat
<1> DEFINE H == {i \in 0..JobCount : IsFiniteSet(Units(amount, 1..i))}
<1>1. 0 \in H
  <2>1. Units(amount, 1..0) = {}
    BY DEF Units
  <2>2. QED
    BY <2>1, JobsAre, FS_EmptySet
<1>2. ASSUME NEW i \in 0..JobCount, i \in H, i < JobCount
      PROVE  i + 1 \in H
  <2>1. i + 1 \in 0..JobCount /\ i + 1 \in Jobs /\ 1..(i + 1) = (1..i) \cup {i + 1}
    BY <1>2, JobsAre DEF Jobs
  <2>2. Units(amount, 1..(i + 1)) = Units(amount, 1..i) \cup ({i + 1} \X (1..amount[i + 1]))
    BY <2>1 DEF Units
  <2>3. IsFiniteSet({i + 1} \X (1..amount[i + 1]))
    <3>1. amount[i + 1] \in Int /\ 1 \in Int
      BY <2>1 DEF IsAmount
    <3>2. IsFiniteSet(1..amount[i + 1])
      BY <3>1, FS_Interval
    <3>3. IsFiniteSet({i + 1})
      BY FS_Singleton
    <3>4. QED
      BY <3>2, <3>3, FS_Product
  <2>4. IsFiniteSet(Units(amount, 1..i))
    BY <1>2
  <2>5. IsFiniteSet(Units(amount, 1..(i + 1)))
    <3>1. IsFiniteSet(Units(amount, 1..i) \cup ({i + 1} \X (1..amount[i + 1])))
      BY <2>3, <2>4, FS_Union
    <3>2. QED
      BY <2>2, <3>1
  <2>6. QED
    BY <2>1, <2>5
<1>3. JobCount \in H
  <2> HIDE DEF H
  <2> QED
    BY <1>1, <1>2, JobsAre, AllUpTo
<1>4. IsFiniteSet(Units(amount, Jobs))
  BY <1>3 DEF Jobs
<1>5. Units(amount, S) \subseteq Units(amount, Jobs)
  BY DEF Units
<1>6. QED
  BY <1>4, <1>5, FS_Subset, FS_CardinalityType DEF Sum

LEMMA SumsAdd ==
  ASSUME NEW amount, IsAmount(amount), NEW S \in SUBSET Jobs, NEW T \in SUBSET Jobs, S \cap T = {}
  PROVE  Sum(amount, S \cup T) = Sum(amount, S) + Sum(amount, T)
<1>1. Units(amount, S \cup T) = Units(amount, S) \cup Units(amount, T)
  BY UnitsHold
<1>2. Units(amount, S) \cap Units(amount, T) = {}
  BY UnitsHold
<1>3. IsFiniteSet(Units(amount, S)) /\ IsFiniteSet(Units(amount, T))
  BY UnitsAreFinite
<1>4. Cardinality(Units(amount, S) \cup Units(amount, T)) = Cardinality(Units(amount, S)) + Cardinality(Units(amount, T))
  BY <1>2, <1>3, DisjointSets
<1>5. Sum(amount, S \cup T) = Cardinality(Units(amount, S) \cup Units(amount, T))
  BY <1>1 DEF Sum
<1>6. QED
  BY <1>4, <1>5 DEF Sum

LEMMA SumOfOne ==
  ASSUME NEW amount, IsAmount(amount), NEW j \in Jobs
  PROVE  Sum(amount, {j}) = amount[j]
<1>1. Units(amount, {j}) = {j} \X (1..amount[j])
  BY DEF Units
<1>2. IsFiniteSet({j}) /\ Cardinality({j}) = 1 /\ amount[j] \in Nat
  BY FS_Singleton DEF IsAmount
<1>3. IsFiniteSet(1..amount[j]) /\ Cardinality(1..amount[j]) = amount[j]
  <2>1. ASSUME NEW n \in Nat PROVE IsFiniteSet(1..n) /\ Cardinality(1..n) = n
    <3>1. IsFiniteSet(1..n) /\ Cardinality(1..n) = IF 1 > n THEN 0 ELSE n - 1 + 1
      BY FS_Interval
    <3>2. QED
      BY <3>1
  <2>2. QED
    BY <1>2, <2>1
<1>4. Cardinality({j} \X (1..amount[j])) = Cardinality({j}) * Cardinality(1..amount[j])
  BY <1>2, <1>3, FS_Product
<1>5. Sum(amount, {j}) = Cardinality({j} \X (1..amount[j]))
  BY <1>1 DEF Sum
<1>6. QED
  BY <1>2, <1>3, <1>4, <1>5

LEMMA SumOfNone == ASSUME NEW amount PROVE Sum(amount, {}) = 0
<1>1. Units(amount, {}) = {}
  BY DEF Units
<1>2. QED
  BY <1>1, FS_EmptySet DEF Sum

(* What is given back by some of those that have something.                *)
LEMMA SumsTakeAway ==
  ASSUME NEW amount, IsAmount(amount), NEW S \in SUBSET Jobs, NEW T \in SUBSET S
  PROVE  /\ Sum(amount, S) = Sum(amount, S \ T) + Sum(amount, T)
         /\ Sum(amount, S) \in Nat /\ Sum(amount, S \ T) \in Nat /\ Sum(amount, T) \in Nat
<1>1. S = (S \ T) \cup T /\ (S \ T) \cap T = {} /\ S \ T \in SUBSET Jobs /\ T \in SUBSET Jobs
  OBVIOUS
<1>2. QED
  BY <1>1, SumsAdd, UnitsAreFinite
---------------------------------------------------------------------------
(* The durable kernel's jobs.                                              *)
JobRecords == [state : States, queuedAt : Times, attempts : Nat, lease : Leases,
               retryAt : Nat, cancel : BOOLEAN, checkpoint : Nat]

Awaited(js, k) == \A d \in Dependencies[k] : js[d].state = "succeeded"

(* What holds of job k, whose record is b, while the latest fence is f.    *)
JobOK(k, b, f) ==
  /\ b \in JobRecords
  /\ b.lease # NoLease => /\ b.lease.job = k /\ b.lease.worker \in Workers /\ b.lease.fence \in 1..f
                          /\ b.state \in {"running", "cancelling"}
                          /\ b.attempts >= 1 /\ b.checkpoint <= b.lease.fence
  /\ b.state = "running" => b.lease # NoLease
  /\ b.checkpoint <= f
  /\ b.attempts <= MaxAttempts[k]
  /\ b.state = "queued" => b.attempts < MaxAttempts[k]
  /\ b.state \in {"absent", "submitted"} => b.attempts = 0

(* How a record may change but by being started.                           *)
Goes(k, b, c) ==
  /\ c.attempts = b.attempts
  /\ c.lease = NoLease \/ (b.lease # NoLease /\ c.lease.fence = b.lease.fence)
  /\ b.state \in Terminal => c.state = b.state
  /\ c.checkpoint >= b.checkpoint
  /\ c.state = "running" => b.state = "running"
  /\ c.state = "queued" => b.state \in {"queued", "running"} \/ Awaited(jobs, k)

Held(js) == {j \in Jobs : js[j].lease # NoLease}

OperationsOK ==
  operations \subseteq [request : [id : DispatchIds, worker : Workers, now : Times], lease : Leases]

DurableInv ==
  /\ jobs \in [Jobs -> JobRecords]
  /\ available \in Nat /\ fence \in Nat /\ now \in Times /\ OperationsOK
  /\ \A k \in Jobs : JobOK(k, jobs[k], fence)
  /\ \A k \in Jobs : jobs[k].state \in {"queued", "running"} => Awaited(jobs, k)
  /\ available + Sum(Needs, Held(jobs)) = Capacity
  /\ TenantsWithinLimit

LEMMA ConstantsAre ==
  /\ IsAmount(Needs) /\ Capacity \in Nat /\ LeaseSeconds \in Nat /\ LeaseSeconds > 0 /\ MaxNow \in Nat
  /\ AgingQuantum \in Nat /\ AgingQuantum > 0
  /\ \A k \in Jobs : /\ MaxAttempts[k] \in Nat /\ MaxAttempts[k] > 0 /\ Priority[k] \in Nat
                       /\ Deadline[k] \in Nat /\ TenantLimit[Tenant[k]] \in Nat
                       /\ Dependencies[k] \subseteq Jobs /\ k \notin Dependencies[k]
  /\ "none" \notin Workers
<1>1. \A k \in Jobs : Dependencies[k] \subseteq Jobs /\ k \notin Dependencies[k]
  BY LimitsAssumption, NumbersAssumption DEF Jobs
<1>2. QED
  BY <1>1, LimitsAssumption, NumbersAssumption DEF IsAmount

LEMMA ReservedIs == ASSUME NEW S PROVE Reserved(S) = Sum(Needs, S)
BY DEF Reserved, UnitsOf, Sum, Units

LEMMA NoLeaseIs == NoLease \in Leases /\ NoLease.fence = 0 /\ NoLease.job = 0 /\ NoLease.worker = "none"
BY JobsAre DEF NoLease, Leases

(* A record that stays as it is.                                           *)
LEMMA StaysIs ==
  ASSUME NEW k \in Jobs, NEW f, NEW b, JobOK(k, b, f)
  PROVE  Goes(k, b, b)
BY DEF Goes, JobOK, JobRecords

(* The end of a job that is leased.                                        *)
LEMMA EndIs ==
  ASSUME NEW k \in Jobs, NEW f \in Nat, NEW b, JobOK(k, b, f), b.lease # NoLease, NEW s \in Terminal
  PROVE  LET c == [[b EXCEPT !.state = s] EXCEPT !.lease = NoLease] IN
         JobOK(k, c, f) /\ Goes(k, b, c) /\ c.lease = NoLease
<1> DEFINE c == [[b EXCEPT !.state = s] EXCEPT !.lease = NoLease]
<1>1. c \in JobRecords
  BY NoLeaseIs DEF JobOK, JobRecords, States
<1>2. c.state = s /\ c.lease = NoLease /\ c.attempts = b.attempts /\ c.checkpoint = b.checkpoint
  BY DEF JobOK, JobRecords
<1>3. s \notin {"absent", "submitted", "queued", "running"} /\ b.state \notin Terminal
  BY DEF Terminal, JobOK
<1> HIDE DEF c
<1>4. JobOK(k, c, f)
  BY <1>1, <1>2, <1>3 DEF JobOK
<1>5. Goes(k, b, c)
  BY <1>2, <1>3 DEF Goes, JobOK, JobRecords
<1>6. QED
  BY <1>2, <1>4, <1>5 DEF c

(* Its return to the queue.                                                *)
Again(b, r, t) == [[b EXCEPT !.state = "queued", !.retryAt = r, !.queuedAt = t] EXCEPT !.lease = NoLease]

LEMMA RetryIs ==
  ASSUME NEW k \in Jobs, NEW f \in Nat, NEW b, JobOK(k, b, f), b.state = "running", b.attempts < MaxAttempts[k],
         NEW r \in Nat, NEW t \in Times
  PROVE  LET c == Again(b, r, t) IN JobOK(k, c, f) /\ Goes(k, b, c) /\ c.lease = NoLease
<1> DEFINE c == Again(b, r, t)
<1>1. c \in JobRecords
  BY NoLeaseIs DEF JobOK, JobRecords, States, Again
<1>2. c.state = "queued" /\ c.lease = NoLease /\ c.attempts = b.attempts /\ c.checkpoint = b.checkpoint
  BY DEF JobOK, JobRecords, Again
<1> HIDE DEF c
<1>3. JobOK(k, c, f)
  BY <1>1, <1>2 DEF JobOK
<1>4. Goes(k, b, c)
  BY <1>2 DEF Goes, JobOK, JobRecords, Terminal
<1>5. QED
  BY <1>2, <1>3, <1>4 DEF c

(* The end of a job that has no lease, and its way into the queue.         *)
LEMMA GivenUpIs ==
  ASSUME NEW k \in Jobs, NEW f \in Nat, NEW b, JobOK(k, b, f), b.state \in {"submitted", "queued"}
  PROVE  LET c == [b EXCEPT !.state = "failed"] IN
         JobOK(k, c, f) /\ Goes(k, b, c) /\ c.lease = b.lease
<1> DEFINE c == [b EXCEPT !.state = "failed"]
<1>1. c \in JobRecords
  BY DEF JobOK, JobRecords, States, Terminal
<1>2. c.state = "failed" /\ c.lease = b.lease /\ c.attempts = b.attempts /\ c.checkpoint = b.checkpoint
  BY DEF JobOK, JobRecords
<1> HIDE DEF c
<1>3. JobOK(k, c, f)
  BY <1>1, <1>2 DEF JobOK
<1>4. Goes(k, b, c)
  BY <1>2 DEF Goes, JobOK, JobRecords, Terminal
<1>5. QED
  BY <1>2, <1>3, <1>4 DEF c

LEMMA QueuedIs ==
  ASSUME NEW k \in Jobs, NEW f \in Nat, NEW b, JobOK(k, b, f), b.state = "submitted", Awaited(jobs, k), NEW t \in Times
  PROVE  LET c == [b EXCEPT !.state = "queued", !.queuedAt = t] IN
         JobOK(k, c, f) /\ Goes(k, b, c) /\ c.lease = b.lease
<1> DEFINE c == [b EXCEPT !.state = "queued", !.queuedAt = t]
<1>1. c \in JobRecords
  BY DEF JobOK, JobRecords, States
<1>2. c.state = "queued" /\ c.lease = b.lease /\ c.attempts = b.attempts /\ c.checkpoint = b.checkpoint
  BY DEF JobOK, JobRecords
<1> HIDE DEF c
<1>3. JobOK(k, c, f)
  BY <1>1, <1>2, ConstantsAre DEF JobOK
<1>4. Goes(k, b, c)
  BY <1>2 DEF Goes, JobOK, JobRecords, Terminal
<1>5. QED
  BY <1>2, <1>3, <1>4 DEF c

Forward == \A j \in Jobs : jobs'[j].checkpoint >= jobs[j].checkpoint

(* A step in which no job is started.                                      *)
LEMMA NoneStarted ==
  ASSUME DurableInv, jobs' \in [Jobs -> JobRecords], fence' = fence, now' \in Times, OperationsOK',
         \A k \in Jobs : JobOK(k, jobs'[k], fence) /\ Goes(k, jobs[k], jobs'[k]),
         NEW lost \in SUBSET Held(jobs), Held(jobs') = Held(jobs) \ lost,
         available' = available + Sum(Needs, lost)
  PROVE  DurableInv' /\ Forward /\ Lifecycle!Next
<1>1. \A k \in Jobs : jobs[k].state \in Terminal => jobs'[k].state = jobs[k].state
  BY DEF Goes
<1>2. \A k \in Jobs : jobs'[k].state \in {"queued", "running"} => Awaited(jobs', k)
  <2>1. SUFFICES ASSUME NEW k \in Jobs, jobs'[k].state \in {"queued", "running"}, NEW d \in Dependencies[k]
                 PROVE  jobs'[d].state = "succeeded"
    BY DEF Awaited
  <2>2. Awaited(jobs, k)
    BY <2>1 DEF DurableInv, Goes
  <2>3. d \in Jobs /\ jobs[d].state = "succeeded"
    BY <2>1, <2>2, ConstantsAre DEF Awaited
  <2>4. QED
    BY <1>1, <2>3 DEF Terminal
<1>3. available' \in Nat /\ available' + Sum(Needs, Held(jobs')) = Capacity
  <2>1. Held(jobs) \in SUBSET Jobs
    BY DEF Held
  <2>2. /\ Sum(Needs, Held(jobs)) = Sum(Needs, Held(jobs) \ lost) + Sum(Needs, lost)
        /\ Sum(Needs, Held(jobs)) \in Nat /\ Sum(Needs, Held(jobs) \ lost) \in Nat /\ Sum(Needs, lost) \in Nat
    BY <2>1, SumsTakeAway, ConstantsAre
  <2>3. available \in Nat /\ available + Sum(Needs, Held(jobs)) = Capacity
    BY DEF DurableInv
  <2>4. QED
    BY <2>2, <2>3
<1>4. TenantsWithinLimit'
  <2>1. SUFFICES ASSUME NEW j \in Jobs PROVE TenantRuns(jobs', Tenant[j]) <= TenantLimit[Tenant[j]]
    BY DEF TenantsWithinLimit
  <2> DEFINE R  == {k \in Jobs : jobs[k].state = "running" /\ Tenant[k] = Tenant[j]}
             R1 == {k \in Jobs : jobs'[k].state = "running" /\ Tenant[k] = Tenant[j]}
  <2>2. R1 \subseteq R /\ R \subseteq Jobs
    BY DEF Goes
  <2>3. IsFiniteSet(R) /\ Cardinality(R) \in Nat /\ Cardinality(R1) \in Nat
    BY <2>2, JobsAre
  <2>4. Cardinality(R) <= TenantLimit[Tenant[j]] /\ TenantLimit[Tenant[j]] \in Nat
    BY ConstantsAre DEF DurableInv, TenantsWithinLimit, TenantRuns
  <2> HIDE DEF R, R1
  <2>5. Cardinality(R1) <= Cardinality(R)
    BY <2>2, <2>3, FS_Subset
  <2>6. Cardinality(R1) <= TenantLimit[Tenant[j]]
    BY <2>3, <2>4, <2>5
  <2>7. QED
    BY <2>6 DEF TenantRuns, R1
<1>5. DurableInv'
  BY <1>2, <1>3, <1>4 DEF DurableInv
<1>6. Lifecycle!Next
  <2>1. /\ {j \in Jobs : jobs[j].state \in Terminal} \subseteq {j \in Jobs : jobs'[j].state \in Terminal}
        /\ {j \in Jobs : jobs[j].state = "succeeded"} =
             {j \in Jobs : jobs'[j].state = "succeeded"} \cap {j \in Jobs : jobs[j].state \in Terminal}
        /\ {j \in Jobs : jobs'[j].state = "succeeded"} \subseteq {j \in Jobs : jobs'[j].state \in Terminal}
    BY <1>1 DEF Terminal
  <2>2. \A j \in {k \in Jobs : jobs'[k].state \in Terminal} : [k \in Jobs |-> jobs'[k].lease.fence][j] = 0
    BY NoLeaseIs DEF JobOK, Terminal
  <2>3. [j \in Jobs |-> jobs'[j].attempts] = [j \in Jobs |-> jobs[j].attempts]
    BY DEF Goes
  <2>4. \A k \in Jobs : [j \in Jobs |-> jobs'[j].lease.fence][k] \in {[j \in Jobs |-> jobs[j].lease.fence][k], 0}
    BY NoLeaseIs DEF Goes
  <2>5. QED
    BY <2>1, <2>2, <2>3, <2>4 DEF Lifecycle!Next, Lifecycle!KeepOrLose
<1>7. QED
  BY <1>5, <1>6 DEF Forward, Goes

(* ... and in which nothing is given back.                                 *)
LEMMA NoneLost ==
  ASSUME DurableInv, jobs' \in [Jobs -> JobRecords], fence' = fence, now' \in Times, OperationsOK',
         \A k \in Jobs : JobOK(k, jobs'[k], fence) /\ Goes(k, jobs[k], jobs'[k]),
         \A k \in Jobs : (jobs'[k].lease = NoLease) <=> (jobs[k].lease = NoLease),
         available' = available
  PROVE  DurableInv' /\ Forward /\ Lifecycle!Next
<1>1. Held(jobs') = Held(jobs) \ {}
  BY DEF Held
<1>2. available' = available + Sum(Needs, {})
  BY SumOfNone DEF DurableInv
<1>3. QED
  BY <1>1, <1>2, NoneStarted

(* One job of a table replaced, in a step that gives nothing back.         *)
LEMMA OneGoes ==
  ASSUME DurableInv, NEW j \in Jobs, NEW c, jobs' = [jobs EXCEPT ![j] = c],
         JobOK(j, c, fence), Goes(j, jobs[j], c), (c.lease = NoLease) <=> (jobs[j].lease = NoLease),
         fence' = fence, now' \in Times, OperationsOK', available' = available
  PROVE  DurableInv' /\ Forward /\ Lifecycle!Next
<1>1. jobs \in [Jobs -> JobRecords] /\ \A k \in Jobs : JobOK(k, jobs[k], fence)
  BY DEF DurableInv
<1>2. c \in JobRecords
  BY DEF JobOK
<1>3. jobs'[j] = c /\ \A k \in Jobs : k # j => jobs'[k] = jobs[k]
  BY <1>1
<1>4. jobs' \in [Jobs -> JobRecords]
  BY <1>1, <1>2
<1>5. \A k \in Jobs : JobOK(k, jobs'[k], fence) /\ Goes(k, jobs[k], jobs'[k])
  BY <1>1, <1>3, StaysIs
<1>6. \A k \in Jobs : (jobs'[k].lease = NoLease) <=> (jobs[k].lease = NoLease)
  BY <1>3
<1>7. QED
  BY <1>4, <1>5, <1>6, NoneLost

(* _release, after the records of the jobs in lost were changed.           *)
LEMMA GivenBack ==
  ASSUME DurableInv, NEW js, NEW lost \in SUBSET Held(jobs), Unleased(js, lost),
         \A k \in Jobs \ lost : js[k] = jobs[k],
         \A k \in lost : LET c == [js[k] EXCEPT !.lease = NoLease] IN
            JobOK(k, c, fence) /\ Goes(k, jobs[k], c) /\ c.lease = NoLease,
         fence' = fence, now' \in Times, OperationsOK'
  PROVE  DurableInv' /\ Forward /\ Lifecycle!Next
<1>1. jobs \in [Jobs -> JobRecords] /\ \A k \in Jobs : JobOK(k, jobs[k], fence)
  BY DEF DurableInv
<1>2. jobs' = [k \in Jobs |-> IF k \in lost THEN [js[k] EXCEPT !.lease = NoLease] ELSE js[k]]
  BY DEF Unleased
<1>3. /\ \A k \in Jobs : k \notin lost => jobs'[k] = jobs[k]
      /\ \A k \in lost : k \in Jobs /\ jobs'[k] = [js[k] EXCEPT !.lease = NoLease]
  BY <1>2 DEF Held
<1>4. \A k \in lost : JobOK(k, jobs'[k], fence) /\ Goes(k, jobs[k], jobs'[k]) /\ jobs'[k].lease = NoLease
  BY <1>3
<1>5. \A k \in Jobs : JobOK(k, jobs'[k], fence) /\ Goes(k, jobs[k], jobs'[k])
  BY <1>1, <1>3, <1>4, StaysIs
<1>6. jobs' \in [Jobs -> JobRecords]
  BY <1>2, <1>5 DEF JobOK
<1>7. Held(jobs') = Held(jobs) \ lost
  BY <1>3, <1>4 DEF Held
<1>8. available' = available + Sum(Needs, lost)
  BY ReservedIs DEF Unleased
<1>9. QED
  BY <1>5, <1>6, <1>7, <1>8, NoneStarted
---------------------------------------------------------------------------
(* What release_dependencies makes of the jobs.                            *)
Settles(k, b, c, t) ==
  \/ c = b
  \/ b.state = "submitted" /\ c = [b EXCEPT !.state = "failed"]
  \/ b.state = "submitted" /\ Awaited(jobs, k) /\ c = [b EXCEPT !.state = "queued", !.queuedAt = t]

Settled(r, t) == r \in [Jobs -> JobRecords] /\ \A k \in Jobs : Settles(k, jobs[k], r[k], t)

LEMMA SettlesIs ==
  ASSUME DurableInv, NEW k \in Jobs, NEW c, NEW t \in Times, Settles(k, jobs[k], c, t)
  PROVE  /\ JobOK(k, c, fence) /\ Goes(k, jobs[k], c) /\ c.lease = jobs[k].lease
         /\ c.state = "succeeded" => jobs[k].state = "succeeded"
         /\ c = jobs[k] \/ c.state # "submitted"
<1>1. JobOK(k, jobs[k], fence) /\ fence \in Nat
  BY DEF DurableInv
<1>2. CASE c = jobs[k]
  BY <1>1, <1>2, StaysIs
<1>3. CASE jobs[k].state = "submitted" /\ c = [jobs[k] EXCEPT !.state = "failed"]
  <2>1. c.state = "failed"
    BY <1>1, <1>3 DEF JobOK, JobRecords
  <2>2. QED
    BY <1>1, <1>3, <2>1, GivenUpIs
<1>4. CASE jobs[k].state = "submitted" /\ Awaited(jobs, k) /\ c = [jobs[k] EXCEPT !.state = "queued", !.queuedAt = t]
  <2>1. c.state = "queued"
    BY <1>1, <1>4 DEF JobOK, JobRecords
  <2>2. QED
    BY <1>1, <1>4, <2>1, QueuedIs
<1>5. QED
  BY <1>2, <1>3, <1>4 DEF Settles

LEMMA ReleasedSettles ==
  ASSUME DurableInv, NEW j \in Jobs, NEW r, NEW t \in Times, Settled(r, t)
  PROVE  Settled(Released(r, j, t), t)
<1>1. r \in [Jobs -> JobRecords] /\ \A k \in Jobs : Settles(k, jobs[k], r[k], t)
  BY DEF Settled
<1>2. CASE Released(r, j, t) = r
  BY <1>2
<1>3. CASE r[j].state = "submitted" /\ Released(r, j, t) = [r EXCEPT ![j] = [r[j] EXCEPT !.state = "failed"]]
  <2>1. r[j] = jobs[j]
    BY <1>1, <1>3, SettlesIs
  <2>2. [r[j] EXCEPT !.state = "failed"] \in JobRecords
    BY <1>1 DEF JobRecords, States, Terminal
  <2>3. Settles(j, jobs[j], [r[j] EXCEPT !.state = "failed"], t)
    BY <1>3, <2>1 DEF Settles
  <2>4. QED
    BY <1>1, <1>3, <2>2, <2>3 DEF Settled
<1>4. CASE /\ r[j].state = "submitted" /\ \A d \in Dependencies[j] : r[d].state = "succeeded"
           /\ Released(r, j, t) = [r EXCEPT ![j] = [r[j] EXCEPT !.state = "queued", !.queuedAt = t]]
  <2>1. r[j] = jobs[j]
    BY <1>1, <1>4, SettlesIs
  <2>2. [r[j] EXCEPT !.state = "queued", !.queuedAt = t] \in JobRecords
    BY <1>1 DEF JobRecords, States
  <2>3. Awaited(jobs, j)
    <3>1. SUFFICES ASSUME NEW d \in Dependencies[j] PROVE jobs[d].state = "succeeded"
      BY DEF Awaited
    <3>2. d \in Jobs /\ r[d].state = "succeeded"
      BY <1>4, ConstantsAre
    <3>3. QED
      BY <1>1, <3>2, SettlesIs
  <2>4. Settles(j, jobs[j], [r[j] EXCEPT !.state = "queued", !.queuedAt = t], t)
    BY <1>4, <2>1, <2>3 DEF Settles
  <2>5. QED
    BY <1>1, <1>4, <2>2, <2>4 DEF Settled
<1>5. QED
  BY <1>2, <1>3, <1>4 DEF Released

(* Tables as the walk makes them exist for every number of jobs walked.    *)
Walks(f, js, t) == f = [j \in 0..JobCount |-> IF j = 0 THEN js ELSE Released(f[j - 1], j, t)]

LEMMA WalkExists == ASSUME NEW js, NEW t PROVE \E f : Walks(f, js, t)
<1> DEFINE Step(f, j) == IF j = 0 THEN js ELSE Released(f[j - 1], j, t)
           H == {i \in 0..JobCount : \E f : f = [j \in 0..i |-> Step(f, j)]}
<1>1. 0 \in H
  <2> DEFINE f == [j \in 0..0 |-> js]
  <2>1. f = [j \in 0..0 |-> Step(f, j)]
    OBVIOUS
  <2> HIDE DEF f, Step
  <2>2. \E g : g = [j \in 0..0 |-> Step(g, j)]
    BY <2>1
  <2>3. QED
    BY <2>2, JobsAre
<1>2. ASSUME NEW i \in 0..JobCount, i \in H, i < JobCount
      PROVE  i + 1 \in H
  <2>1. PICK f : f = [j \in 0..i |-> Step(f, j)]
    BY <1>2
  <2> DEFINE g == [j \in 0..(i + 1) |-> IF j \in 0..i THEN f[j] ELSE Released(f[i], i + 1, t)]
  <2>2. ASSUME NEW j \in 0..(i + 1) PROVE g[j] = Step(g, j)
    <3>1. CASE j = 0
      BY <2>1, <3>1
    <3>2. CASE j # 0 /\ j \in 0..i
      <4>1. j - 1 \in 0..i /\ j - 1 \in 0..(i + 1) /\ g[j - 1] = f[j - 1] /\ g[j] = f[j]
        BY <3>2
      <4>2. f[j] = Released(f[j - 1], j, t)
        BY <2>1, <3>2
      <4>3. QED
        BY <3>2, <4>1, <4>2
    <3>3. CASE j = i + 1
      <4>1. j # 0 /\ j - 1 = i /\ i \in 0..i /\ i \in 0..(i + 1) /\ j \notin 0..i
        BY <3>3
      <4>2. g[i] = f[i] /\ g[j] = Released(f[i], i + 1, t)
        BY <3>3, <4>1
      <4>3. QED
        BY <3>3, <4>1, <4>2
    <3>4. QED
      BY <3>1, <3>2, <3>3
  <2>3. g = [j \in 0..(i + 1) |-> Step(g, j)]
    <3>1. DOMAIN g = 0..(i + 1)
      OBVIOUS
    <3> HIDE DEF Step
    <3>2. QED
      BY <2>2, <3>1
  <2>4. i + 1 \in 0..JobCount
    BY <1>2, JobsAre
  <2>5. QED
    BY <2>3, <2>4
<1>3. JobCount \in H
  <2> HIDE DEF H
  <2> QED
    BY <1>1, <1>2, JobsAre, AllUpTo
<1>4. QED
  BY <1>3 DEF Walks

LEMMA AllReleasedSettles ==
  ASSUME DurableInv, NEW t \in Times
  PROVE  Settled(AllReleased(jobs, t), t)
<1> DEFINE upTo == CHOOSE f : Walks(f, jobs, t)
<1>1. Walks(upTo, jobs, t)
  BY WalkExists
<1>2. AllReleased(jobs, t) = upTo[JobCount]
  BY DEF AllReleased, Walks
<1> HIDE DEF upTo
<1>3. upTo[0] = jobs /\ \A i \in 0..JobCount : i < JobCount => upTo[i + 1] = Released(upTo[i], i + 1, t)
  <2>1. 0 \in 0..JobCount /\ \A i \in 0..JobCount : i < JobCount => i + 1 \in 0..JobCount /\ i + 1 # 0 /\ (i + 1) - 1 = i
    BY JobsAre
  <2>2. QED
    BY <1>1, <2>1 DEF Walks
<1> DEFINE H == {i \in 0..JobCount : Settled(upTo[i], t)}
<1>4. 0 \in H
  <2>1. Settled(jobs, t)
    BY DEF Settled, Settles, DurableInv
  <2>2. QED
    BY <1>3, <2>1, JobsAre
<1>5. ASSUME NEW i \in 0..JobCount, i \in H, i < JobCount
      PROVE  i + 1 \in H
  <2>1. Settled(upTo[i], t) /\ i + 1 \in Jobs /\ i + 1 \in 0..JobCount
    BY <1>5, JobsAre DEF Jobs
  <2>2. Settled(Released(upTo[i], i + 1, t), t)
    BY <2>1, ReleasedSettles
  <2>3. QED
    BY <1>3, <1>5, <2>1, <2>2
<1>6. JobCount \in H
  <2> HIDE DEF H
  <2> QED
    BY <1>4, <1>5, JobsAre, AllUpTo
<1>7. QED
  BY <1>2, <1>6
---------------------------------------------------------------------------
(* Some job of a set is before all others, in an order that leaves no two  *)
(* of them side by side.                                                   *)
Orders(G, S) ==
  /\ \A j, k \in S : j # k => <<j, k>> \in G \/ <<k, j>> \in G
  /\ \A i, j, k \in S : <<i, j>> \in G /\ <<j, k>> \in G => <<i, k>> \in G

HasFirst(G, S) == \E j \in S : \A k \in S \ {j} : <<j, k>> \in G

LEMMA Foremost ==
  ASSUME NEW n \in Nat, NEW S, S # {}, S \subseteq 1..n, NEW G, Orders(G, S)
  PROVE  HasFirst(G, S)
<1> USE DEF Orders, HasFirst
<1> DEFINE Front(T, j) == j \in T /\ \A k \in T \ {j} : <<j, k>> \in G
           H == {i \in 0..n : \A T \in SUBSET S : T # {} /\ T \subseteq 1..i => \E j \in T : Front(T, j)}
<1>1. 0 \in H
  <2>1. 0 \in 0..n /\ 1..0 = {}
    OBVIOUS
  <2>2. QED
    BY <2>1
<1>2. ASSUME NEW i \in 0..n, i \in H, i < n
      PROVE  i + 1 \in H
  <2>1. SUFFICES ASSUME NEW T \in SUBSET S, T # {}, T \subseteq 1..(i + 1)
                 PROVE  \E j \in T : Front(T, j)
    BY <1>2
  <2> DEFINE U == T \ {i + 1}
  <2>2. U \subseteq 1..i /\ U \in SUBSET S
    BY <2>1
  <2>3. CASE i + 1 \notin T
    <3>1. T \subseteq 1..i
      BY <2>1, <2>3
    <3>2. QED
      BY <1>2, <2>1, <3>1
  <2>4. CASE i + 1 \in T /\ U = {}
    BY <2>4
  <2>5. CASE i + 1 \in T /\ U # {}
    <3>1. PICK j \in U : Front(U, j)
      BY <1>2, <2>2, <2>5
    <3>2. j \in S /\ i + 1 \in S /\ j # i + 1 /\ j \in T
      BY <2>2, <2>5
    <3>3. CASE <<j, i + 1>> \in G
      <4>1. Front(T, j)
        BY <3>1, <3>2, <3>3
      <4>2. QED
        BY <3>2, <4>1
    <3>4. CASE <<i + 1, j>> \in G
      <4>1. \A k \in T \ {i + 1} : <<i + 1, k>> \in G
        BY <3>1, <3>2, <3>4
      <4>2. QED
        BY <2>5, <4>1
    <3>5. QED
      BY <3>2, <3>3, <3>4
  <2>6. QED
    BY <2>3, <2>4, <2>5
<1>3. n \in H
  <2> HIDE DEF H
  <2> QED
    BY <1>1, <1>2, AllUpTo
<1>4. QED
  BY <1>3

LEMMA FirstIs ==
  ASSUME NEW js \in [Jobs -> JobRecords], NEW t \in Nat, NEW S \in SUBSET Jobs, S # {}
  PROVE  First(js, S, t) \in S
<1> DEFINE G == {p \in Jobs \X Jobs : IsBefore(js, p[1], p[2], t)}
<1>1. \A j, k \in Jobs : <<j, k>> \in G <=> IsBefore(js, j, k, t)
  OBVIOUS
<1>2. \A j \in Jobs : Effective(js, j, t) \in Int /\ js[j].queuedAt \in Int /\ j \in Int
  <2>1. SUFFICES ASSUME NEW j \in Jobs PROVE Effective(js, j, t) \in Int /\ js[j].queuedAt \in Int /\ j \in Int
    OBVIOUS
  <2>2. js[j].queuedAt \in Nat
    <3>1. js[j].queuedAt \in Times /\ MaxNow \in Nat
      BY ConstantsAre DEF JobRecords
    <3>2. QED
      BY <3>1 DEF Times
  <2>3. Priority[j] \in Nat /\ AgingQuantum \in Nat /\ AgingQuantum > 0
    BY ConstantsAre
  <2>4. j \in Int
    BY JobsAre DEF Jobs
  <2>5. QED
    BY <2>2, <2>3, <2>4 DEF Effective
<1>3. \A j, k \in S : j # k => <<j, k>> \in G \/ <<k, j>> \in G
  BY <1>1, <1>2 DEF IsBefore
<1>4. \A i, j, k \in S : <<i, j>> \in G /\ <<j, k>> \in G => <<i, k>> \in G
  BY <1>1, <1>2 DEF IsBefore
<1> HIDE DEF G
<1>5. HasFirst(G, S)
  <2>1. PICK n \in Nat : S \subseteq 1..n
    BY JobsAre DEF Jobs
  <2>2. Orders(G, S)
    BY <1>3, <1>4 DEF Orders
  <2>3. QED
    BY <2>1, <2>2, Foremost
<1>6. \E j \in S : \A k \in S \ {j} : IsBefore(js, j, k, t)
  BY <1>1, <1>5 DEF HasFirst
<1>7. QED
  BY <1>6 DEF First
---------------------------------------------------------------------------
(* The calls.                                                              *)
LEMMA LaterIs == ASSUME NEW s \in Times, NEW t \in Times PROVE Later(s, t) \in Times
BY DEF Later

LEMMA AdmitIs ==
  ASSUME DurableInv, NEW j \in Jobs, Admit(j)
  PROVE  DurableInv' /\ Forward /\ Lifecycle!Next
<1> DEFINE c == [jobs[j] EXCEPT !.state = "submitted"]
<1>1. jobs[j].state = "absent" /\ JobOK(j, jobs[j], fence) /\ fence \in Nat /\ now \in Times /\ OperationsOK
  <2>1. j \in j..JobCount
    BY JobsAre DEF Jobs
  <2>2. QED
    BY <2>1 DEF Admit, DurableInv
<1>2. /\ c \in JobRecords /\ c.state = "submitted" /\ c.lease = jobs[j].lease
      /\ c.attempts = jobs[j].attempts /\ c.checkpoint = jobs[j].checkpoint
  BY <1>1 DEF JobOK, JobRecords, States
<1>3. jobs' = [jobs EXCEPT ![j] = c] /\ fence' = fence /\ now' = now /\ available' = available /\ operations' = operations
  BY DEF Admit
<1> HIDE DEF c
<1>4. JobOK(j, c, fence)
  BY <1>1, <1>2 DEF JobOK
<1>5. Goes(j, jobs[j], c)
  BY <1>1, <1>2 DEF Goes, Terminal, JobOK, JobRecords
<1>6. OperationsOK'
  BY <1>1, <1>3 DEF OperationsOK
<1>7. QED
  BY <1>1, <1>2, <1>3, <1>4, <1>5, <1>6, OneGoes

LEMMA RequestCancelIs ==
  ASSUME DurableInv, NEW j \in Jobs, RequestCancel(j)
  PROVE  DurableInv' /\ Forward /\ Lifecycle!Next
<1> DEFINE s == IF jobs[j].state = "queued" THEN "cancelled" ELSE "cancelling"
           c == [jobs[j] EXCEPT !.cancel = TRUE, !.state = s]
<1>1. JobOK(j, jobs[j], fence) /\ fence \in Nat /\ now \in Times /\ OperationsOK /\ jobs[j].state \notin Terminal \cup {"absent"}
  BY DEF RequestCancel, DurableInv
<1>2. /\ c \in JobRecords /\ c.state = s /\ c.lease = jobs[j].lease
      /\ c.attempts = jobs[j].attempts /\ c.checkpoint = jobs[j].checkpoint
  BY <1>1 DEF JobOK, JobRecords, States, Terminal
<1>3. jobs' = [jobs EXCEPT ![j] = c] /\ fence' = fence /\ now' = now /\ available' = available /\ operations' = operations
  BY DEF RequestCancel
<1> HIDE DEF c
<1>4. JobOK(j, c, fence)
  BY <1>1, <1>2 DEF JobOK
<1>5. Goes(j, jobs[j], c)
  BY <1>1, <1>2 DEF Goes, JobOK, JobRecords
<1>6. OperationsOK'
  BY <1>1, <1>3 DEF OperationsOK
<1>7. QED
  BY <1>1, <1>2, <1>3, <1>4, <1>5, <1>6, OneGoes

(* What the holder of a lease may take for granted.                        *)
LEMMA OwnedIs ==
  ASSUME DurableInv, NEW j \in Jobs, NEW quoted, NEW t \in Times, Owned(j, quoted, t)
  PROVE  /\ JobOK(j, jobs[j], fence) /\ fence \in Nat /\ OperationsOK /\ Later(now, t) \in Times
         /\ jobs[j].state = "running" /\ jobs[j].lease # NoLease /\ quoted.fence = jobs[j].lease.fence
         /\ {j} \in SUBSET Held(jobs)
BY LaterIs DEF Owned, DurableInv, JobOK, Held

LEMMA HeartbeatIs ==
  ASSUME DurableInv, NEW j \in Jobs, NEW quoted, NEW t \in Times, Heartbeat(j, quoted, t)
  PROVE  DurableInv' /\ Forward /\ Lifecycle!Next
<1> DEFINE l == [jobs[j].lease EXCEPT !.expires = t + LeaseSeconds]
           c == [jobs[j] EXCEPT !.lease = l]
<1>1. /\ JobOK(j, jobs[j], fence) /\ fence \in Nat /\ OperationsOK /\ Later(now, t) \in Times
      /\ jobs[j].state = "running" /\ jobs[j].lease # NoLease
  BY OwnedIs DEF Heartbeat
<1>2. /\ jobs' = [jobs EXCEPT ![j] = c] /\ fence' = fence /\ now' = Later(now, t) /\ available' = available
      /\ operations' = operations
  BY DEF Heartbeat
<1>3. /\ l \in Leases /\ l.fence = jobs[j].lease.fence /\ l.job = jobs[j].lease.job /\ l.worker = jobs[j].lease.worker
  <2>1. jobs[j].lease \in Leases /\ t + LeaseSeconds \in Nat
    BY <1>1, ConstantsAre DEF JobOK, JobRecords, Times
  <2>2. QED
    BY <2>1 DEF Leases
<1> HIDE DEF l
<1>4. l # NoLease
  BY <1>1, <1>3, NoLeaseIs DEF JobOK
<1>5. /\ c \in JobRecords /\ c.state = jobs[j].state /\ c.lease = l
      /\ c.attempts = jobs[j].attempts /\ c.checkpoint = jobs[j].checkpoint
  BY <1>1, <1>3 DEF JobOK, JobRecords
<1> HIDE DEF c
<1>6. JobOK(j, c, fence)
  BY <1>1, <1>3, <1>4, <1>5 DEF JobOK
<1>7. Goes(j, jobs[j], c)
  BY <1>1, <1>3, <1>5 DEF Goes, JobOK, JobRecords, Terminal
<1>8. OperationsOK'
  BY <1>1, <1>2 DEF OperationsOK
<1>9. QED
  BY <1>1, <1>2, <1>4, <1>5, <1>6, <1>7, <1>8, OneGoes

LEMMA CheckpointIs ==
  ASSUME DurableInv, NEW j \in Jobs, NEW quoted, NEW t \in Times, Checkpoint(j, quoted, t)
  PROVE  DurableInv' /\ Forward /\ Lifecycle!Next
<1> DEFINE c == [jobs[j] EXCEPT !.checkpoint = quoted.fence]
<1>1. /\ JobOK(j, jobs[j], fence) /\ fence \in Nat /\ OperationsOK /\ Later(now, t) \in Times
      /\ jobs[j].state = "running" /\ jobs[j].lease # NoLease /\ quoted.fence = jobs[j].lease.fence
  BY OwnedIs DEF Checkpoint
<1>2. /\ jobs' = [jobs EXCEPT ![j] = c] /\ fence' = fence /\ now' = Later(now, t) /\ available' = available
      /\ operations' = operations
  BY DEF Checkpoint
<1>3. quoted.fence \in 1..fence /\ jobs[j].checkpoint <= quoted.fence /\ jobs[j].checkpoint \in Nat
  BY <1>1 DEF JobOK, JobRecords
<1>4. /\ c \in JobRecords /\ c.state = jobs[j].state /\ c.lease = jobs[j].lease
      /\ c.attempts = jobs[j].attempts /\ c.checkpoint = quoted.fence
  BY <1>1, <1>3 DEF JobOK, JobRecords
<1> HIDE DEF c
<1>5. JobOK(j, c, fence)
  BY <1>1, <1>3, <1>4 DEF JobOK
<1>6. Goes(j, jobs[j], c)
  BY <1>1, <1>3, <1>4 DEF Goes, Terminal
<1>7. OperationsOK'
  BY <1>1, <1>2 DEF OperationsOK
<1>8. QED
  BY <1>1, <1>2, <1>4, <1>5, <1>6, <1>7, OneGoes

LEMMA CompleteIs ==
  ASSUME DurableInv, NEW j \in Jobs, NEW quoted, NEW t \in Times, Complete(j, quoted, t)
  PROVE  DurableInv' /\ Forward /\ Lifecycle!Next
<1> DEFINE js == [jobs EXCEPT ![j] = [jobs[j] EXCEPT !.state = "succeeded"]]
<1>1. /\ JobOK(j, jobs[j], fence) /\ fence \in Nat /\ OperationsOK /\ Later(now, t) \in Times
      /\ jobs[j].lease # NoLease /\ {j} \in SUBSET Held(jobs)
  BY OwnedIs DEF Complete
<1>2. Unleased(js, {j}) /\ fence' = fence /\ now' = Later(now, t) /\ operations' = operations
  BY DEF Complete
<1>3. js[j] = [jobs[j] EXCEPT !.state = "succeeded"] /\ \A k \in Jobs \ {j} : js[k] = jobs[k]
  BY DEF DurableInv
<1> DEFINE ended == [jobs[j] EXCEPT !.state = "succeeded"]
<1>4. LET c == [ended EXCEPT !.lease = NoLease] IN JobOK(j, c, fence) /\ Goes(j, jobs[j], c) /\ c.lease = NoLease
  BY <1>1, EndIs DEF Terminal
<1>5. OperationsOK'
  BY <1>1, <1>2 DEF OperationsOK
<1>6. js[j] = ended
  BY <1>3
<1> HIDE DEF js, ended
<1>7. LET c == [js[j] EXCEPT !.lease = NoLease] IN JobOK(j, c, fence) /\ Goes(j, jobs[j], c) /\ c.lease = NoLease
  BY <1>4, <1>6
<1>8. \A k \in Jobs \ {j} : js[k] = jobs[k]
  BY <1>3
<1>9. QED
  BY <1>1, <1>2, <1>5, <1>7, <1>8, GivenBack

LEMMA FailIs ==
  ASSUME DurableInv, NEW j \in Jobs, NEW quoted, NEW reason, NEW t \in Times, Fail(j, quoted, reason, t)
  PROVE  DurableInv' /\ Forward /\ Lifecycle!Next
<1> DEFINE pause == IF jobs[j].attempts > 6 THEN 60 ELSE 2 ^ (jobs[j].attempts - 1)
           again == [jobs[j] EXCEPT !.state = "queued", !.retryAt = t + pause, !.queuedAt = t]
           ended == [jobs[j] EXCEPT !.state = "failed"]
<1>1. /\ JobOK(j, jobs[j], fence) /\ fence \in Nat /\ OperationsOK /\ Later(now, t) \in Times
      /\ jobs[j].state = "running" /\ jobs[j].lease # NoLease /\ {j} \in SUBSET Held(jobs)
  BY OwnedIs DEF Fail
<1>2. fence' = fence /\ now' = Later(now, t) /\ operations' = operations
  BY DEF Fail
<1>3. t + pause \in Nat /\ t \in Nat
  <2>1. jobs[j].attempts \in Nat /\ jobs[j].attempts >= 1 /\ t \in Nat
    BY <1>1 DEF JobOK, JobRecords, Times
  <2>2. CASE jobs[j].attempts > 6
    BY <2>1, <2>2
  <2>3. CASE ~(jobs[j].attempts > 6)
    <3>1. jobs[j].attempts - 1 \in 0..5
      BY <2>1, <2>3
    <3>2. 2 ^ (jobs[j].attempts - 1) \in Nat
      BY <3>1, NumbersAssumption
    <3>3. QED
      BY <2>1, <2>3, <3>2
  <2>4. QED
    BY <2>2, <2>3
<1>4. OperationsOK'
  BY <1>1, <1>2 DEF OperationsOK
<1>5. CASE MayRetry(j) /\ Unleased([jobs EXCEPT ![j] = again], {j})
  <2> DEFINE js == [jobs EXCEPT ![j] = again]
  <2>1. js[j] = again /\ \A k \in Jobs \ {j} : js[k] = jobs[k]
    BY DEF DurableInv
  <2>2. Unleased(js, {j}) /\ jobs[j].attempts < MaxAttempts[j]
    BY <1>5 DEF MayRetry
  <2> HIDE DEF pause
  <2>3. LET c == [again EXCEPT !.lease = NoLease] IN JobOK(j, c, fence) /\ Goes(j, jobs[j], c) /\ c.lease = NoLease
    <3>1. LET c == Again(jobs[j], t + pause, t) IN JobOK(j, c, fence) /\ Goes(j, jobs[j], c) /\ c.lease = NoLease
      BY <1>1, <1>3, <2>2, RetryIs
    <3>2. [again EXCEPT !.lease = NoLease] = Again(jobs[j], t + pause, t)
      BY DEF Again
    <3> HIDE DEF again
    <3>3. QED
      BY <3>1, <3>2
  <2> HIDE DEF js, again
  <2>4. LET c == [js[j] EXCEPT !.lease = NoLease] IN JobOK(j, c, fence) /\ Goes(j, jobs[j], c) /\ c.lease = NoLease
    BY <2>1, <2>3
  <2>5. QED
    BY <1>1, <1>2, <1>4, <2>1, <2>2, <2>4, GivenBack
<1>6. CASE Unleased([jobs EXCEPT ![j] = ended], {j})
  <2> DEFINE js == [jobs EXCEPT ![j] = ended]
  <2>1. js[j] = ended /\ \A k \in Jobs \ {j} : js[k] = jobs[k]
    BY DEF DurableInv
  <2>2. Unleased(js, {j})
    BY <1>6
  <2>3. LET c == [ended EXCEPT !.lease = NoLease] IN JobOK(j, c, fence) /\ Goes(j, jobs[j], c) /\ c.lease = NoLease
    BY <1>1, EndIs DEF Terminal
  <2> HIDE DEF js, ended
  <2>4. LET c == [js[j] EXCEPT !.lease = NoLease] IN JobOK(j, c, fence) /\ Goes(j, jobs[j], c) /\ c.lease = NoLease
    BY <2>1, <2>3
  <2>5. QED
    BY <1>1, <1>2, <1>4, <2>1, <2>2, <2>4, GivenBack
<1>7. QED
  BY <1>5, <1>6 DEF Fail

(* The guards of acknowledge_cancel exclude each other.                    *)
LEMMA AcknowledgeCancelIs ==
  ASSUME NEW j \in Jobs, NEW quoted, NEW t, AcknowledgeCancel(j, quoted, t)
  PROVE  FALSE
BY DEF AcknowledgeCancel, MayAcknowledge, Owned

LEMMA ExpireIs ==
  ASSUME DurableInv, NEW t \in Times, Expire(t)
  PROVE  DurableInv' /\ Forward /\ Lifecycle!Next
<1> DEFINE lost == {j \in Jobs : jobs[j].state = "running" /\ jobs[j].lease.expires <= t}
           again(j) == [jobs[j] EXCEPT !.state = "queued", !.retryAt = t, !.queuedAt = t]
           ended(j) == [jobs[j] EXCEPT !.state = "failed"]
           js == [j \in Jobs |-> IF j \notin lost THEN jobs[j] ELSE IF MayRetry(j) THEN again(j) ELSE ended(j)]
<1>1. Unleased(js, lost) /\ now' = Later(now, t) /\ fence' = fence /\ operations' = operations
  BY DEF Expire
<1>2. /\ \A k \in lost : k \in Jobs /\ JobOK(k, jobs[k], fence) /\ jobs[k].state = "running" /\ jobs[k].lease # NoLease
      /\ lost \in SUBSET Held(jobs) /\ fence \in Nat /\ t \in Nat
  BY DEF DurableInv, JobOK, Held, Times
<1>3. \A k \in Jobs \ lost : js[k] = jobs[k]
  OBVIOUS
<1>4. ASSUME NEW k \in lost
      PROVE  LET c == [js[k] EXCEPT !.lease = NoLease] IN JobOK(k, c, fence) /\ Goes(k, jobs[k], c) /\ c.lease = NoLease
  <2>1. k \in Jobs /\ JobOK(k, jobs[k], fence) /\ jobs[k].state = "running" /\ jobs[k].lease # NoLease
    BY <1>2
  <2>2. CASE MayRetry(k)
    <3>1. js[k] = again(k)
      BY <2>1, <2>2
    <3>2. LET c == [again(k) EXCEPT !.lease = NoLease] IN JobOK(k, c, fence) /\ Goes(k, jobs[k], c) /\ c.lease = NoLease
      <4>1. jobs[k].attempts < MaxAttempts[k] /\ t \in Nat /\ fence \in Nat
        BY <1>2, <2>2 DEF MayRetry
      <4>2. LET c == Again(jobs[k], t, t) IN JobOK(k, c, fence) /\ Goes(k, jobs[k], c) /\ c.lease = NoLease
        BY <2>1, <4>1, RetryIs
      <4>3. [again(k) EXCEPT !.lease = NoLease] = Again(jobs[k], t, t)
        BY DEF Again
      <4> HIDE DEF lost, js, again
      <4>4. QED
        BY <4>2, <4>3
    <3> HIDE DEF js, again
    <3>3. QED
      BY <3>1, <3>2
  <2>3. CASE ~MayRetry(k)
    <3>1. js[k] = ended(k)
      BY <2>1, <2>3
    <3>2. LET c == [ended(k) EXCEPT !.lease = NoLease] IN JobOK(k, c, fence) /\ Goes(k, jobs[k], c) /\ c.lease = NoLease
      BY <1>2, <2>1, EndIs DEF Terminal
    <3> HIDE DEF js, ended
    <3>3. QED
      BY <3>1, <3>2
  <2>4. QED
    BY <2>2, <2>3
<1>5. now' \in Times /\ OperationsOK'
  BY <1>1, LaterIs DEF OperationsOK, DurableInv
<1> HIDE DEF js, lost
<1>6. QED
  BY <1>1, <1>2, <1>3, <1>4, <1>5, GivenBack

LEMMA ReleaseDependenciesIs ==
  ASSUME DurableInv, NEW t \in Times, ReleaseDependencies(t)
  PROVE  DurableInv' /\ Forward /\ Lifecycle!Next
<1>1. /\ now' = Later(now, t) /\ jobs' = AllReleased(jobs, now') /\ fence' = fence /\ available' = available
      /\ operations' = operations
  BY DEF ReleaseDependencies
<1>2. now' \in Times /\ OperationsOK'
  BY <1>1, LaterIs DEF OperationsOK, DurableInv
<1>3. Settled(jobs', now')
  BY <1>1, <1>2, AllReleasedSettles
<1>4. jobs' \in [Jobs -> JobRecords] /\ \A k \in Jobs : Settles(k, jobs[k], jobs'[k], now')
  BY <1>3 DEF Settled
<1>5. \A k \in Jobs : JobOK(k, jobs'[k], fence) /\ Goes(k, jobs[k], jobs'[k]) /\ jobs'[k].lease = jobs[k].lease
  BY <1>2, <1>4, SettlesIs
<1>6. QED
  BY <1>1, <1>2, <1>4, <1>5, NoneLost
---------------------------------------------------------------------------
(* dispatch.                                                               *)
LEMMA RememberIs ==
  ASSUME OperationsOK, NEW id \in DispatchIds, NEW w \in Workers, NEW t \in Times, NEW lease \in Leases,
         Remember(Request(id, w, t), lease)
  PROVE  OperationsOK'
<1>1. Request(id, w, t) \in [id : DispatchIds, worker : Workers, now : Times]
  BY DEF Request
<1>2. QED
  BY <1>1 DEF OperationsOK, Remember

LEMMA GoesOn ==
  ASSUME NEW k \in Jobs, NEW a \in JobRecords, NEW b \in JobRecords, NEW c \in JobRecords, Goes(k, a, b), Goes(k, b, c)
  PROVE  Goes(k, a, c)
<1>1. a.checkpoint \in Nat /\ b.checkpoint \in Nat /\ c.checkpoint \in Nat
  BY DEF JobRecords
<1>2. QED
  BY <1>1 DEF Goes

(* The jobs queued past their deadline fail.                               *)
Late(js, t) == {j \in Jobs : IsDue(js, j, t) /\ Deadline[j] < t}
Kept(js, t) == [j \in Jobs |-> IF j \in Late(js, t) THEN [js[j] EXCEPT !.state = "failed"] ELSE js[j]]

LEMMA KeptIs ==
  ASSUME DurableInv, NEW t \in Times
  PROVE  LET r == Kept(AllReleased(jobs, t), t) IN
         /\ r \in [Jobs -> JobRecords]
         /\ \A k \in Jobs : JobOK(k, r[k], fence) /\ Goes(k, jobs[k], r[k]) /\ r[k].lease = jobs[k].lease
<1> DEFINE q == AllReleased(jobs, t)
           r == Kept(q, t)
<1>1. q \in [Jobs -> JobRecords] /\ \A k \in Jobs : Settles(k, jobs[k], q[k], t)
  BY AllReleasedSettles DEF Settled
<1> HIDE DEF q
<1>2. fence \in Nat /\ \A k \in Jobs : JobOK(k, q[k], fence) /\ Goes(k, jobs[k], q[k]) /\ q[k].lease = jobs[k].lease
  BY <1>1, SettlesIs DEF DurableInv
<1>3. \A k \in Jobs : r[k] = IF k \in Late(q, t) THEN [q[k] EXCEPT !.state = "failed"] ELSE q[k]
  BY DEF Kept
<1>4. ASSUME NEW k \in Jobs
      PROVE  JobOK(k, r[k], fence) /\ Goes(k, jobs[k], r[k]) /\ r[k].lease = jobs[k].lease
  <2>1. CASE k \notin Late(q, t)
    BY <1>2, <1>3, <2>1
  <2>2. CASE k \in Late(q, t)
    <3>1. q[k].state = "queued" /\ JobOK(k, q[k], fence)
      BY <1>2, <2>2 DEF Late, IsDue
    <3>2. LET c == [q[k] EXCEPT !.state = "failed"] IN JobOK(k, c, fence) /\ Goes(k, q[k], c) /\ c.lease = q[k].lease
      BY <1>2, <3>1, GivenUpIs
    <3>3. r[k] = [q[k] EXCEPT !.state = "failed"]
      BY <1>3, <2>2
    <3> HIDE DEF r
    <3>4. JobOK(k, r[k], fence) /\ Goes(k, q[k], r[k]) /\ r[k].lease = q[k].lease
      BY <3>2, <3>3
    <3>5. jobs[k] \in JobRecords /\ q[k] \in JobRecords /\ r[k] \in JobRecords
      BY <3>1, <3>4 DEF JobOK, DurableInv
    <3>6. QED
      BY <1>2, <3>4, <3>5, GoesOn
  <2>3. QED
    BY <2>1, <2>2
<1>5. r \in [Jobs -> JobRecords]
  <2>1. \A k \in Jobs : r[k] \in JobRecords
    BY <1>4 DEF JobOK
  <2>2. QED
    BY <2>1 DEF Kept
<1>6. QED
  BY <1>4, <1>5 DEF q

(* The start of a job.                                                     *)
StartOf(b, n, l) == [b EXCEPT !.state = "running", !.retryAt = 0, !.attempts = n, !.lease = l]

LEMMA StartIs ==
  ASSUME NEW b \in JobRecords, NEW n \in Nat, NEW l \in Leases
  PROVE  LET c == StartOf(b, n, l) IN
         c \in JobRecords /\ c.state = "running" /\ c.attempts = n /\ c.checkpoint = b.checkpoint /\ c.lease = l
BY DEF JobRecords, States, StartOf

LEMMA OneStarted ==
  ASSUME DurableInv, now' \in Times, OperationsOK', NEW kept \in [Jobs -> JobRecords],
         \A k \in Jobs : JobOK(k, kept[k], fence) /\ Goes(k, jobs[k], kept[k]) /\ kept[k].lease = jobs[k].lease,
         NEW j \in Jobs, kept[j].state = "queued", Needs[j] <= available,
         TenantRuns(kept, Tenant[j]) < TenantLimit[Tenant[j]],
         NEW c \in JobRecords, jobs' = [kept EXCEPT ![j] = c], fence' = fence + 1, available' = available - Needs[j],
         c.state = "running", c.attempts = kept[j].attempts + 1, c.checkpoint = kept[j].checkpoint,
         c.lease # NoLease, c.lease.job = j, c.lease.worker \in Workers, c.lease.fence = fence + 1
  PROVE  DurableInv' /\ Forward /\ Lifecycle!Next
<1>1. jobs'[j] = c /\ \A k \in Jobs \ {j} : jobs'[k] = kept[k]
  OBVIOUS
<1>2. jobs' \in [Jobs -> JobRecords] /\ fence \in Nat /\ available \in Nat
  BY DEF DurableInv
<1>3. \A k \in Jobs : JobOK(k, jobs'[k], fence')
  <2>1. \A k \in Jobs \ {j} : JobOK(k, kept[k], fence + 1)
    BY <1>2 DEF JobOK, JobRecords, Leases
  <2>2. JobOK(j, c, fence + 1)
    <3>1. kept[j].attempts \in Nat /\ kept[j].attempts < MaxAttempts[j] /\ MaxAttempts[j] \in Nat
      BY ConstantsAre DEF JobOK, JobRecords
    <3>2. kept[j].checkpoint \in Nat /\ kept[j].checkpoint <= fence
      BY DEF JobOK, JobRecords
    <3>3. QED
      BY <1>2, <3>1, <3>2 DEF JobOK
  <2>3. QED
    BY <1>1, <2>1, <2>2
<1>4. kept[j].lease = NoLease /\ jobs[j].lease = NoLease
  BY DEF JobOK
<1>5. \A k \in Jobs : jobs[k].state \in Terminal => k # j /\ jobs'[k].state = jobs[k].state
  BY <1>1 DEF Goes, Terminal
<1>6. \A k \in Jobs : Awaited(jobs, k) => Awaited(jobs', k)
  BY <1>5, ConstantsAre DEF Awaited, Terminal
<1>7. Awaited(jobs, j) /\ \A k \in Jobs : jobs'[k].state \in {"queued", "running"} => Awaited(jobs', k)
  <2>1. Awaited(jobs, j)
    BY DEF DurableInv, Goes
  <2>2. \A k \in Jobs \ {j} : kept[k].state \in {"queued", "running"} => Awaited(jobs, k)
    BY DEF DurableInv, Goes
  <2>3. QED
    BY <1>1, <1>6, <2>1, <2>2
<1>8. available' \in Nat /\ available' + Sum(Needs, Held(jobs')) = Capacity
  <2>1. Held(jobs') = Held(jobs) \cup {j} /\ Held(jobs) \cap {j} = {} /\ Held(jobs) \in SUBSET Jobs
    BY <1>1, <1>4 DEF Held
  <2>2. Sum(Needs, Held(jobs) \cup {j}) = Sum(Needs, Held(jobs)) + Sum(Needs, {j})
    BY <2>1, SumsAdd, ConstantsAre
  <2>3. Sum(Needs, {j}) = Needs[j] /\ Needs[j] \in Nat /\ Sum(Needs, Held(jobs)) \in Nat
    BY <2>1, SumOfOne, UnitsAreFinite, ConstantsAre DEF IsAmount
  <2>4. available + Sum(Needs, Held(jobs)) = Capacity
    BY DEF DurableInv
  <2>5. Sum(Needs, Held(jobs')) = Sum(Needs, Held(jobs)) + Needs[j]
    BY <2>1, <2>2, <2>3
  <2>6. available - Needs[j] \in Nat
    BY <1>2, <2>3
  <2>7. QED
    BY <1>2, <2>3, <2>4, <2>5, <2>6
<1>9. TenantsWithinLimit'
  <2>1. SUFFICES ASSUME NEW i \in Jobs PROVE TenantRuns(jobs', Tenant[i]) <= TenantLimit[Tenant[i]]
    BY DEF TenantsWithinLimit
  <2> DEFINE Q  == {k \in Jobs : jobs[k].state = "running" /\ Tenant[k] = Tenant[i]}
             R  == {k \in Jobs : kept[k].state = "running" /\ Tenant[k] = Tenant[i]}
             R1 == {k \in Jobs : jobs'[k].state = "running" /\ Tenant[k] = Tenant[i]}
  <2>2. R \subseteq Q /\ Q \subseteq Jobs /\ R1 \subseteq Jobs /\ R \subseteq Jobs
    BY DEF Goes
  <2>3. /\ IsFiniteSet(Q) /\ Cardinality(Q) \in Nat
        /\ IsFiniteSet(R) /\ Cardinality(R) \in Nat /\ IsFiniteSet(R1) /\ Cardinality(R1) \in Nat
    BY <2>2, JobsAre
  <2>4. Cardinality(Q) <= TenantLimit[Tenant[i]] /\ TenantLimit[Tenant[i]] \in Nat
    BY ConstantsAre DEF DurableInv, TenantsWithinLimit, TenantRuns
  <2>5. CASE Tenant[i] # Tenant[j]
    <3>1. R1 \subseteq Q
      BY <1>1, <2>2, <2>5
    <3> HIDE DEF R, R1, Q
    <3>2. Cardinality(R1) <= Cardinality(Q)
      BY <2>3, <3>1, FS_Subset
    <3>3. Cardinality(R1) <= TenantLimit[Tenant[i]]
      BY <2>3, <2>4, <3>2
    <3>4. QED
      BY <3>3 DEF TenantRuns, R1
  <2>6. CASE Tenant[i] = Tenant[j]
    <3>1. R1 = R \cup {j} /\ j \notin R
      BY <1>1, <2>6
    <3>2. Cardinality(R) < TenantLimit[Tenant[i]]
      BY <2>6 DEF TenantRuns
    <3> HIDE DEF R, R1
    <3>3. Cardinality(R \cup {j}) = Cardinality(R) + 1
      BY <2>3, <3>1, FS_AddElement
    <3>4. Cardinality(R1) <= TenantLimit[Tenant[i]]
      BY <2>3, <2>4, <3>1, <3>2, <3>3
    <3>5. QED
      BY <3>4 DEF TenantRuns, R1
  <2>7. QED
    BY <2>5, <2>6
<1>10. DurableInv'
  <2>1. fence' \in Nat
    BY <1>2
  <2>2. QED
    BY <2>1, <1>2, <1>3, <1>7, <1>8, <1>9 DEF DurableInv
<1>11. Forward
  BY <1>1, <1>2 DEF Forward, Goes
<1>12. Lifecycle!Next
  <2> DEFINE holder   == [k \in Jobs |-> jobs[k].lease.fence]
             attempts == [k \in Jobs |-> jobs[k].attempts]
             over     == {k \in Jobs : jobs[k].state \in Terminal}
  <2>1. /\ over \subseteq {k \in Jobs : jobs'[k].state \in Terminal}
        /\ {k \in Jobs : jobs[k].state = "succeeded"} =
             {k \in Jobs : jobs'[k].state = "succeeded"} \cap over
        /\ {k \in Jobs : jobs'[k].state = "succeeded"} \subseteq {k \in Jobs : jobs'[k].state \in Terminal}
    BY <1>5 DEF Terminal
  <2>2. \A k \in {i \in Jobs : jobs'[i].state \in Terminal} : holder'[k] = 0
    BY <1>3, NoLeaseIs DEF JobOK, Terminal
  <2>3. \A k \in Jobs : kept[k].attempts = jobs[k].attempts
    BY DEF Goes
  <2>4. attempts' = [attempts EXCEPT ![j] = attempts[j] + 1]
    BY <1>1, <2>3
  <2>5. \A k \in Jobs \ {j} : holder'[k] \in {holder[k], 0}
    BY <1>1
  <2>6. j \notin over /\ j \notin over' /\ holder'[j] = fence'
    BY <1>1, <1>5 DEF Terminal
  <2>7. attempts[j] < MaxAttempts[j]
    BY <2>3 DEF JobOK
  <2>8. Dependencies[j] \subseteq {k \in Jobs : jobs[k].state = "succeeded"}
    BY <1>7, ConstantsAre DEF Awaited
  <2>9. Lifecycle!Start(j)
    BY <2>4, <2>6, <2>7, <2>8 DEF Lifecycle!Start
  <2>10. \A k \in Jobs \ {j} : Lifecycle!KeepOrLose(k)
    BY <2>5 DEF Lifecycle!KeepOrLose
  <2>11. QED
    BY <2>1, <2>2, <2>9, <2>10 DEF Lifecycle!Next
<1>13. QED
  BY <1>10, <1>11, <1>12

LEMMA DispatchIs ==
  ASSUME DurableInv, NEW id \in DispatchIds, NEW w \in Workers, NEW t \in Times, Dispatch(id, w, t)
  PROVE  DurableInv' /\ Forward /\ Lifecycle!Next
<1> DEFINE req   == Request(id, w, t)
           kept  == Kept(AllReleased(jobs, now'), now')
           able  == Candidates(kept, now')
           j     == First(kept, able, now')
           lease == [job |-> j, worker |-> w, fence |-> fence + 1, expires |-> now' + LeaseSeconds]
           c     == [kept[j] EXCEPT !.state = "running", !.retryAt = 0, !.attempts = kept[j].attempts + 1, !.lease = lease]
<1>1. now' = Later(now, t) /\ now' \in Times /\ OperationsOK /\ fence \in Nat
  BY LaterIs DEF Dispatch, DurableInv
<1>2. \/ UNCHANGED <<jobs, available, fence, operations>>
      \/ Remember(req, NoLease) /\ UNCHANGED <<jobs, available, fence>>
      \/ Remember(req, NoLease) /\ jobs' = kept /\ UNCHANGED <<available, fence>>
      \/ /\ able # {} /\ jobs' = [kept EXCEPT ![j] = c] /\ available' = available - Needs[j]
         /\ fence' = fence + 1 /\ Remember(req, lease)
  BY DEF Dispatch, Kept, Late
<1>3. /\ kept \in [Jobs -> JobRecords]
      /\ \A k \in Jobs : JobOK(k, kept[k], fence) /\ Goes(k, jobs[k], kept[k]) /\ kept[k].lease = jobs[k].lease
  <2> HIDE DEF kept
  <2>1. QED
    BY <1>1, KeptIs DEF kept
<1> HIDE DEF kept
<1>4. \A k \in Jobs : JobOK(k, jobs[k], fence) /\ Goes(k, jobs[k], jobs[k])
  BY StaysIs DEF DurableInv
<1>5. ASSUME Remember(req, NoLease) PROVE OperationsOK'
  BY <1>1, <1>5, NoLeaseIs, RememberIs
<1>6. CASE UNCHANGED <<jobs, available, fence, operations>>
  <2>1. OperationsOK'
    BY <1>1, <1>6 DEF OperationsOK
  <2>2. QED
    BY <1>1, <1>4, <1>6, <2>1, NoneLost DEF DurableInv
<1>7. CASE Remember(req, NoLease) /\ UNCHANGED <<jobs, available, fence>>
  BY <1>1, <1>4, <1>5, <1>7, NoneLost DEF DurableInv
<1>8. CASE Remember(req, NoLease) /\ jobs' = kept /\ UNCHANGED <<available, fence>>
  BY <1>1, <1>3, <1>5, <1>8, NoneLost
<1>9. CASE /\ able # {} /\ jobs' = [kept EXCEPT ![j] = c] /\ available' = available - Needs[j]
           /\ fence' = fence + 1 /\ Remember(req, lease)
  <2>1. able \in SUBSET Jobs /\ now' \in Nat
    BY <1>1 DEF Candidates, Times
  <2>2. j \in able
    BY <1>3, <1>9, <2>1, FirstIs
  <2>3. /\ j \in Jobs /\ kept[j].state = "queued" /\ Needs[j] <= available
        /\ TenantRuns(kept, Tenant[j]) < TenantLimit[Tenant[j]]
    BY <2>2 DEF Candidates, IsDue, Fits
  <2> HIDE DEF able, j
  <2>4. /\ lease \in Leases /\ lease # NoLease /\ lease.job = j /\ lease.worker = w /\ lease.fence = fence + 1
    <3>1. now' + LeaseSeconds \in Nat /\ fence + 1 \in Nat /\ j \in 0..JobCount
      BY <1>1, <2>1, <2>3, ConstantsAre, JobsAre DEF Jobs
    <3>2. lease \in Leases /\ lease.job = j /\ lease.worker = w /\ lease.fence = fence + 1
      BY <3>1 DEF Leases
    <3>3. QED
      BY <3>2, ConstantsAre, NoLeaseIs
  <2> HIDE DEF lease
  <2>5. kept[j] \in JobRecords
    BY <1>3, <2>3
  <2>6. /\ c \in JobRecords /\ c.state = "running" /\ c.attempts = kept[j].attempts + 1
        /\ c.checkpoint = kept[j].checkpoint /\ c.lease = lease
    <3>1. kept[j].attempts + 1 \in Nat
      BY <2>5 DEF JobRecords
    <3>2. c = StartOf(kept[j], kept[j].attempts + 1, lease)
      BY DEF StartOf
    <3> HIDE DEF c
    <3>3. QED
      BY <2>4, <2>5, <3>1, <3>2, StartIs
  <2>7. OperationsOK'
    BY <1>1, <1>9, <2>4, RememberIs
  <2> HIDE DEF c
  <2>8. QED
    BY <1>1, <1>3, <1>9, <2>3, <2>4, <2>6, <2>7, OneStarted
<1>10. QED
  BY <1>2, <1>6, <1>7, <1>8, <1>9
---------------------------------------------------------------------------
LEMMA DurableInit ==
  ASSUME Init
  PROVE  DurableInv /\ Lifecycle!Init
<1>1. Absent \in JobRecords /\ Absent.lease = NoLease /\ Absent.state = "absent" /\ Absent.attempts = 0 /\ Absent.checkpoint = 0
  BY NoLeaseIs, ConstantsAre DEF Absent, JobRecords, States, Times
<1>2. \A k \in Jobs : jobs[k] = Absent
  BY DEF Init
<1>3. \A k \in Jobs : JobOK(k, jobs[k], fence)
  BY <1>1, <1>2, ConstantsAre DEF JobOK, Init
<1>4. available + Sum(Needs, Held(jobs)) = Capacity
  <2>1. Held(jobs) = {}
    BY <1>1, <1>2 DEF Held
  <2>2. Sum(Needs, Held(jobs)) = 0
    BY <2>1, SumOfNone
  <2>3. available = Capacity /\ Capacity \in Nat
    BY ConstantsAre DEF Init
  <2>4. QED
    BY <2>2, <2>3
<1>5. TenantsWithinLimit
  <2>1. SUFFICES ASSUME NEW j \in Jobs PROVE TenantRuns(jobs, Tenant[j]) <= TenantLimit[Tenant[j]]
    BY DEF TenantsWithinLimit
  <2>2. {k \in Jobs : jobs[k].state = "running" /\ Tenant[k] = Tenant[j]} = {}
    BY <1>1, <1>2
  <2>3. TenantRuns(jobs, Tenant[j]) = 0
    BY <2>2, FS_EmptySet DEF TenantRuns
  <2>4. QED
    BY <2>3, ConstantsAre
<1>6. DurableInv
  BY <1>1, <1>2, <1>3, <1>4, <1>5, ConstantsAre DEF DurableInv, Init, OperationsOK, Times
<1>7. Lifecycle!Init
  BY <1>1, <1>2, NoLeaseIs DEF Lifecycle!Init, Init, Terminal
<1>8. QED
  BY <1>6, <1>7

(* Every step of the kernel.                                               *)
LEMMA DurableStep ==
  ASSUME DurableInv, Next
  PROVE  DurableInv' /\ Forward /\ Lifecycle!Next
<1>1. ASSUME NEW j \in Jobs, Admit(j) \/ RequestCancel(j)
      PROVE  DurableInv' /\ Forward /\ Lifecycle!Next
  BY <1>1, AdmitIs, RequestCancelIs
<1>2. ASSUME NEW t \in Times, ReleaseDependencies(t) \/ Expire(t)
      PROVE  DurableInv' /\ Forward /\ Lifecycle!Next
  BY <1>2, ReleaseDependenciesIs, ExpireIs
<1>3. ASSUME NEW t \in Times, NEW id \in DispatchIds, NEW w \in Workers, Dispatch(id, w, t)
      PROVE  DurableInv' /\ Forward /\ Lifecycle!Next
  BY <1>3, DispatchIs
<1>4. ASSUME NEW t \in Times, NEW j \in Jobs, NEW quoted \in Quotable(j),
             \/ Heartbeat(j, quoted, t) \/ Checkpoint(j, quoted, t) \/ Complete(j, quoted, t)
             \/ \E reason \in Reasons : Fail(j, quoted, reason, t)
             \/ AcknowledgeCancel(j, quoted, t)
      PROVE  DurableInv' /\ Forward /\ Lifecycle!Next
  BY <1>4, HeartbeatIs, CheckpointIs, CompleteIs, FailIs, AcknowledgeCancelIs
<1>5. QED
  BY <1>1, <1>2, <1>3, <1>4 DEF Next

LEMMA DurableStutter ==
  ASSUME DurableInv, UNCHANGED vars
  PROVE  DurableInv' /\ Forward /\ UNCHANGED Lifecycle!vars
<1>1. jobs' = jobs /\ available' = available /\ fence' = fence /\ now' = now /\ operations' = operations
  BY DEF vars
<1>2. DurableInv'
  BY <1>1 DEF DurableInv, OperationsOK, TenantsWithinLimit, TenantRuns, Awaited, Held
<1>3. Forward
  BY <1>1 DEF Forward, DurableInv, JobRecords
<1>4. QED
  BY <1>1, <1>2, <1>3 DEF Lifecycle!vars

(* What the invariant says of the kernel's own properties.                 *)
LEMMA DurableHolds ==
  ASSUME DurableInv
  PROVE  TypeOK /\ ReservationsBalance /\ TenantsWithinLimit
<1>1. Held(jobs) \in SUBSET Jobs /\ Sum(Needs, Held(jobs)) \in Nat
  BY UnitsAreFinite, ConstantsAre DEF Held
<1>2. available \in 0..Capacity
  BY <1>1, ConstantsAre DEF DurableInv
<1>3. ReservationsBalance
  BY ReservedIs DEF DurableInv, ReservationsBalance, Held
<1>4. TypeOK
  BY <1>2 DEF DurableInv, TypeOK, JobOK, JobRecords, OperationsOK
<1>5. QED
  BY <1>3, <1>4 DEF DurableInv
---------------------------------------------------------------------------
(* The fair kernel.                                                        *)
LEMMA FairJobsAre == Fair!Jobs = Jobs /\ Fair!Agents = 1..AgentCount
BY DEF Fair!Jobs, Jobs, Fair!Agents

LEMMA FairConstantsAre ==
  /\ IsAmount(FairNeeds) /\ FairCapacity \in Nat /\ LeaseSeconds \in Nat /\ LeaseSeconds > 0 /\ MaxNow \in Nat
  /\ AgingQuantum \in Nat /\ AgingQuantum > 0 /\ AgentCount \in Nat /\ AgentSlots \in [Fair!Agents -> Nat]
  /\ AgentQuota \in [Fair!Agents -> Nat]
  /\ \A k \in Fair!Jobs : /\ FairMaxAttempts[k] \in Nat /\ RetryBudget[k] \in Nat /\ RetryBudget[k] < FairMaxAttempts[k]
                            /\ FairPriority[k] \in Nat /\ FairNeeds[k] \in Nat /\ Backoff[k] \in Nat /\ FairDeadline[k] \in Nat
                            /\ FairDependencies[k] \subseteq Fair!Jobs /\ k \notin FairDependencies[k]
                            /\ Eligible[k] \subseteq Fair!Agents
  /\ \A k \in Fair!Jobs : \A n \in 0..RetryBudget[k] : 2 ^ n \in Nat
<1>1. \A k \in Fair!Jobs : FairMaxAttempts[k] \in Nat /\ RetryBudget[k] \in Nat /\ RetryBudget[k] < FairMaxAttempts[k]
  BY FairAssumption DEF Fair!LimitsAssumption, Fair!NumbersAssumption
<1>2. QED
  BY <1>1, FairAssumption, FairJobsAre DEF Fair!LimitsAssumption, Fair!NumbersAssumption, IsAmount

LEMMA SetsOfAgents == \A S \in SUBSET Fair!Agents : IsFiniteSet(S) /\ Cardinality(S) \in Nat
<1>1. IsFiniteSet(Fair!Agents)
  BY FairJobsAre, FairConstantsAre, FS_Interval
<1>2. QED
  BY <1>1, FS_Subset, FS_CardinalityType

LEMMA FairNoLeaseIs ==
  /\ Fair!NoLease \in Fair!Leases /\ Fair!NoLease.fence = 0 /\ Fair!NoLease.job = 0 /\ Fair!NoLease.agent = 0
BY JobsAre, FairConstantsAre DEF Fair!NoLease, Fair!Leases

(* Cardinality is the same operator in either module.                      *)
LEMMA CardinalityIs == ASSUME NEW S PROVE Fair!Cardinality(S) = Cardinality(S)
BY DEF Fair!Cardinality, Cardinality

LEMMA FairReservedIs == ASSUME NEW S PROVE Fair!Reserved(S) = Sum(FairNeeds, S) /\ Fair!Served(S) = Sum(service, S)
BY CardinalityIs DEF Fair!Reserved, Fair!Served, Fair!UnitsOf, Sum, Units

(* The order of tuples.                                                    *)
LEMMA OneExceeds ==
  ASSUME NEW n \in Nat, NEW p \in [1..n -> Int], NEW q \in [1..n -> Int], \E i \in 1..n : p[i] # q[i]
  PROVE  Fair!Exceeds(p, q) \/ Fair!Exceeds(q, p)
<1> DEFINE D == {i \in 1..n : p[i] # q[i]}
<1>1. PICK m \in D : \A i \in D : m <= i
  <2>1. D # {} /\ D \in SUBSET Nat
    OBVIOUS
  <2> HIDE DEF D
  <2>2. QED
    BY <2>1, Least
<1>2. m \in 1..n /\ p[m] # q[m] /\ \A h \in 1..m - 1 : p[h] = q[h]
  BY <1>1
<1>3. DOMAIN p = 1..n /\ DOMAIN q = 1..n /\ p[m] \in Int /\ q[m] \in Int
  BY <1>2
<1>4. CASE p[m] > q[m]
  BY <1>2, <1>3, <1>4 DEF Fair!Exceeds
<1>5. CASE q[m] > p[m]
  BY <1>2, <1>3, <1>5 DEF Fair!Exceeds
<1>6. QED
  BY <1>2, <1>3, <1>4, <1>5

LEMMA ExceedsOn ==
  ASSUME NEW n \in Nat, NEW p \in [1..n -> Int], NEW q \in [1..n -> Int], NEW r \in [1..n -> Int],
         Fair!Exceeds(p, q), Fair!Exceeds(q, r)
  PROVE  Fair!Exceeds(p, r)
<1>1. PICK i \in 1..n : p[i] > q[i] /\ \A h \in 1..i - 1 : p[h] = q[h]
  BY DEF Fair!Exceeds
<1>2. PICK j \in 1..n : q[j] > r[j] /\ \A h \in 1..j - 1 : q[h] = r[h]
  BY DEF Fair!Exceeds
<1>3. DOMAIN p = 1..n /\ \A h \in 1..n : p[h] \in Int /\ q[h] \in Int /\ r[h] \in Int
  OBVIOUS
<1>4. CASE i <= j
  <2>1. p[i] > r[i]
    BY <1>1, <1>2, <1>3, <1>4
  <2>2. \A h \in 1..i - 1 : p[h] = r[h]
    BY <1>1, <1>2, <1>4
  <2>3. QED
    BY <1>3, <2>1, <2>2 DEF Fair!Exceeds
<1>5. CASE j < i
  <2>1. p[j] > r[j]
    BY <1>1, <1>2, <1>3, <1>5
  <2>2. \A h \in 1..j - 1 : p[h] = r[h]
    BY <1>1, <1>2, <1>5
  <2>3. QED
    BY <1>3, <2>1, <2>2 DEF Fair!Exceeds
<1>6. QED
  BY <1>4, <1>5
---------------------------------------------------------------------------
FairRecords == [state : Fair!States, queuedAt : Fair!Times, attempts : Nat, retries : Nat,
                retryAt : Nat, lease : Fair!Leases, cancel : BOOLEAN]

InHand == {"running", "cancelling"}

FairAwaited(js, k) == \A d \in FairDependencies[k] : js[d].state = "succeeded"

(* What holds of job k, whose record is b, while the latest fence is f.    *)
FairOK(k, b, f) ==
  /\ b \in FairRecords
  /\ b.lease # Fair!NoLease <=> b.state \in InHand
  /\ b.lease # Fair!NoLease => /\ b.lease.job = k /\ b.lease.agent \in Fair!Agents /\ b.lease.fence \in 1..f
                               /\ b.attempts = b.retries + 1
  /\ b.state \in {"absent", "submitted"} => b.attempts = 0 /\ b.retries = 0
  /\ b.state = "queued" => b.attempts = b.retries
  /\ b.retries <= RetryBudget[k]

FairGoes(k, b, c) ==
  /\ c.attempts = b.attempts
  /\ c.lease = Fair!NoLease \/ (b.lease # Fair!NoLease /\ c.lease.fence = b.lease.fence)
  /\ b.state \in Fair!Terminal => c.state = b.state
  /\ c.state \in InHand \cup {"queued"} => b.state \in InHand \cup {"queued"} \/ FairAwaited(fairJobs, k)

FairHeld(js)      == {j \in Fair!Jobs : js[j].lease # Fair!NoLease}
FairHeldOn(js, a) == {j \in Fair!Jobs : js[j].lease # Fair!NoLease /\ js[j].lease.agent = a}

Balanced(js, av, sl) ==
  /\ av + Sum(FairNeeds, FairHeld(js)) = FairCapacity
  /\ \A a \in Fair!Agents : sl[a] + Cardinality(FairHeldOn(js, a)) = AgentSlots[a]

Returned == {o \in fairOperations : o.lease # Fair!NoLease}

(* Every dispatch that returned a lease took a fence of its own.           *)
FairOperationsOK ==
  /\ fairOperations \subseteq [request : [id : DispatchIds, agents : SUBSET Fair!Agents, now : Fair!Times],
                               lease : Fair!Leases]
  /\ IsFiniteSet(Returned) /\ Cardinality(Returned) <= fairFence
  /\ \A o \in Returned : o.lease.fence <= fairFence

FairInv ==
  /\ fairJobs \in [Fair!Jobs -> FairRecords]
  /\ fairAvailable \in Nat /\ slots \in [Fair!Agents -> Nat] /\ fairFence \in Nat /\ fairNow \in Fair!Times
  /\ service \in [Fair!Jobs -> Nat] /\ agentService \in [Fair!Agents -> Nat]
  /\ FairOperationsOK
  /\ \A k \in Fair!Jobs : FairOK(k, fairJobs[k], fairFence)
  /\ \A k \in Fair!Jobs : fairJobs[k].state \in InHand \cup {"queued"} => FairAwaited(fairJobs, k)
  /\ Cardinality(Returned) = fairFence => Balanced(fairJobs, fairAvailable, slots)

(* The table js, with av resources and the slots sl free, is what can be   *)
(* made of the kernel's without starting a job.                            *)
Taken(js, av, sl) ==
  /\ js \in [Fair!Jobs -> FairRecords] /\ av \in Nat /\ sl \in [Fair!Agents -> Nat]
  /\ \A k \in Fair!Jobs : FairOK(k, js[k], fairFence) /\ FairGoes(k, fairJobs[k], js[k])
  /\ Balanced(fairJobs, fairAvailable, slots) => Balanced(js, av, sl)

LEMMA FairStaysIs ==
  ASSUME NEW k \in Fair!Jobs, NEW f, NEW b, FairOK(k, b, f)
  PROVE  FairGoes(k, b, b)
BY DEF FairGoes

LEMMA FairGoesOn ==
  ASSUME NEW k \in Fair!Jobs, NEW a, NEW b, NEW c, FairGoes(k, a, b), FairGoes(k, b, c)
  PROVE  FairGoes(k, a, c)
BY DEF FairGoes

(* A step in which no job is started.                                      *)
LEMMA FairNoneStarted ==
  ASSUME FairInv, Taken(fairJobs', fairAvailable', slots'), fairFence' = fairFence, fairNow' \in Fair!Times,
         FairOperationsOK', Returned' = Returned, service' = service, agentService' = agentService
  PROVE  FairInv' /\ Fair!NobodyIsOvertaken /\ Fair!Lifecycle!Next
<1>1. /\ fairJobs' \in [Fair!Jobs -> FairRecords] /\ fairAvailable' \in Nat /\ slots' \in [Fair!Agents -> Nat]
      /\ \A k \in Fair!Jobs : FairOK(k, fairJobs'[k], fairFence) /\ FairGoes(k, fairJobs[k], fairJobs'[k])
  BY DEF Taken
<1>2. \A k \in Fair!Jobs : fairJobs[k].state \in Fair!Terminal => fairJobs'[k].state = fairJobs[k].state
  BY <1>1 DEF FairGoes
<1>3. \A k \in Fair!Jobs : fairJobs'[k].state \in InHand \cup {"queued"} => FairAwaited(fairJobs', k)
  <2>1. SUFFICES ASSUME NEW k \in Fair!Jobs, fairJobs'[k].state \in InHand \cup {"queued"}, NEW d \in FairDependencies[k]
                 PROVE  fairJobs'[d].state = "succeeded"
    BY DEF FairAwaited
  <2>2. FairAwaited(fairJobs, k)
    BY <1>1, <2>1 DEF FairInv, FairGoes
  <2>3. d \in Fair!Jobs /\ fairJobs[d].state = "succeeded"
    BY <2>1, <2>2, FairConstantsAre DEF FairAwaited
  <2>4. QED
    BY <1>2, <2>3 DEF Fair!Terminal
<1>4. Cardinality(Returned') = fairFence' => Balanced(fairJobs', fairAvailable', slots')
  BY DEF FairInv, Taken
<1>5. FairInv'
  BY <1>1, <1>3, <1>4 DEF FairInv
<1>6. \A k \in Fair!Jobs : fairJobs'[k].attempts = fairJobs[k].attempts /\ fairJobs[k].attempts \in Nat
  BY <1>1 DEF FairGoes, FairOK, FairInv, FairRecords
<1>7. Fair!NobodyIsOvertaken
  BY <1>6 DEF Fair!NobodyIsOvertaken, Fair!Started
<1>8. Fair!Lifecycle!Next
  <2>1. /\ {j \in Fair!Jobs : fairJobs[j].state \in Fair!Terminal} \subseteq {j \in Fair!Jobs : fairJobs'[j].state \in Fair!Terminal}
        /\ {j \in Fair!Jobs : fairJobs[j].state = "succeeded"} =
             {j \in Fair!Jobs : fairJobs'[j].state = "succeeded"} \cap {j \in Fair!Jobs : fairJobs[j].state \in Fair!Terminal}
        /\ {j \in Fair!Jobs : fairJobs'[j].state = "succeeded"} \subseteq {j \in Fair!Jobs : fairJobs'[j].state \in Fair!Terminal}
    BY <1>2 DEF Fair!Terminal
  <2>2. \A j \in {k \in Fair!Jobs : fairJobs'[k].state \in Fair!Terminal} : [k \in Fair!Jobs |-> fairJobs'[k].lease.fence][j] = 0
    BY <1>1, FairNoLeaseIs DEF FairOK, Fair!Terminal, InHand
  <2>3. [j \in Fair!Jobs |-> fairJobs'[j].attempts] = [j \in Fair!Jobs |-> fairJobs[j].attempts]
    BY <1>6
  <2>4. \A k \in Fair!Jobs : [j \in Fair!Jobs |-> fairJobs'[j].lease.fence][k] \in {[j \in Fair!Jobs |-> fairJobs[j].lease.fence][k], 0}
    BY <1>1, FairNoLeaseIs DEF FairGoes
  <2>5. QED
    BY <2>1, <2>2, <2>3, <2>4 DEF Fair!Lifecycle!Next, Fair!Lifecycle!KeepOrLose
<1>9. QED
  BY <1>5, <1>7, <1>8
---------------------------------------------------------------------------
(* How records change: the end of an attempt, a retry, and what becomes of *)
(* a job that has no lease.                                                *)
FairEndOf(b, s)         == [[b EXCEPT !.state = s] EXCEPT !.lease = Fair!NoLease]
FairAgain(b, n, r, t)   == [[b EXCEPT !.state = "queued", !.retries = n, !.retryAt = r, !.queuedAt = t]
                              EXCEPT !.lease = Fair!NoLease]
FairFailed(b)           == [b EXCEPT !.state = "failed"]
FairQueued(b, t)        == [b EXCEPT !.state = "queued", !.queuedAt = t]

LEMMA FairEndIs ==
  ASSUME NEW k \in Fair!Jobs, NEW f \in Nat, NEW b, FairOK(k, b, f), b.state \in InHand, NEW s \in Fair!Terminal
  PROVE  LET c == FairEndOf(b, s) IN FairOK(k, c, f) /\ FairGoes(k, b, c) /\ c.lease = Fair!NoLease /\ c.state = s
<1> DEFINE c == FairEndOf(b, s)
<1>1. c \in FairRecords
  BY FairNoLeaseIs DEF FairOK, FairRecords, Fair!States, FairEndOf
<1>2. c.state = s /\ c.lease = Fair!NoLease /\ c.attempts = b.attempts /\ c.retries = b.retries
  BY DEF FairOK, FairRecords, FairEndOf
<1>3. s \notin {"absent", "submitted", "queued"} \cup InHand /\ b.state \notin Fair!Terminal
  BY DEF Fair!Terminal, InHand
<1> HIDE DEF c
<1>4. FairOK(k, c, f)
  BY <1>1, <1>2, <1>3 DEF FairOK
<1>5. FairGoes(k, b, c)
  BY <1>2, <1>3 DEF FairGoes
<1>6. QED
  BY <1>2, <1>4, <1>5 DEF c

LEMMA FairAgainIs ==
  ASSUME NEW k \in Fair!Jobs, NEW f \in Nat, NEW b, FairOK(k, b, f), b.state \in InHand, b.retries < RetryBudget[k],
         NEW r \in Nat, NEW t \in Fair!Times
  PROVE  LET c == FairAgain(b, b.retries + 1, r, t) IN
         FairOK(k, c, f) /\ FairGoes(k, b, c) /\ c.lease = Fair!NoLease /\ c.state = "queued"
<1> DEFINE n == b.retries + 1
           c == FairAgain(b, n, r, t)
<1>1. n \in Nat /\ b.attempts = n /\ n <= RetryBudget[k] /\ b \in FairRecords
  <2>1. b.retries \in Nat /\ RetryBudget[k] \in Nat /\ b.lease # Fair!NoLease
    BY FairConstantsAre DEF FairOK, FairRecords
  <2>2. QED
    BY <2>1 DEF FairOK
<1> HIDE DEF n
<1>2. c \in FairRecords
  BY <1>1, FairNoLeaseIs DEF FairRecords, Fair!States, FairAgain
<1>3. c.state = "queued" /\ c.lease = Fair!NoLease /\ c.attempts = b.attempts /\ c.retries = n
  BY <1>1 DEF FairRecords, FairAgain
<1> HIDE DEF c
<1>4. FairOK(k, c, f)
  BY <1>1, <1>2, <1>3 DEF FairOK, InHand
<1>5. FairGoes(k, b, c)
  BY <1>3 DEF FairGoes, InHand, Fair!Terminal
<1>6. QED
  BY <1>3, <1>4, <1>5 DEF c, n

LEMMA FairFailedIs ==
  ASSUME NEW k \in Fair!Jobs, NEW f \in Nat, NEW b, FairOK(k, b, f), b.state \in {"submitted", "queued"}
  PROVE  LET c == FairFailed(b) IN FairOK(k, c, f) /\ FairGoes(k, b, c) /\ c.lease = b.lease /\ c.state = "failed"
<1> DEFINE c == FairFailed(b)
<1>1. c \in FairRecords
  BY DEF FairOK, FairRecords, Fair!States, Fair!Terminal, FairFailed
<1>2. c.state = "failed" /\ c.lease = b.lease /\ c.attempts = b.attempts /\ c.retries = b.retries
  BY DEF FairOK, FairRecords, FairFailed
<1> HIDE DEF c
<1>3. FairOK(k, c, f)
  BY <1>1, <1>2 DEF FairOK, InHand
<1>4. FairGoes(k, b, c)
  BY <1>2 DEF FairGoes, FairOK, InHand, Fair!Terminal
<1>5. QED
  BY <1>2, <1>3, <1>4 DEF c

LEMMA FairQueuedIs ==
  ASSUME NEW k \in Fair!Jobs, NEW f \in Nat, NEW b, FairOK(k, b, f), b.state = "submitted", FairAwaited(fairJobs, k),
         NEW t \in Fair!Times
  PROVE  LET c == FairQueued(b, t) IN FairOK(k, c, f) /\ FairGoes(k, b, c) /\ c.lease = b.lease /\ c.state = "queued"
<1> DEFINE c == FairQueued(b, t)
<1>1. c \in FairRecords
  BY DEF FairOK, FairRecords, Fair!States, FairQueued
<1>2. c.state = "queued" /\ c.lease = b.lease /\ c.attempts = b.attempts /\ c.retries = b.retries
  BY DEF FairOK, FairRecords, FairQueued
<1> HIDE DEF c
<1>3. FairOK(k, c, f)
  BY <1>1, <1>2 DEF FairOK, InHand
<1>4. FairGoes(k, b, c)
  BY <1>2 DEF FairGoes, Fair!Terminal
<1>5. QED
  BY <1>2, <1>3, <1>4 DEF c
---------------------------------------------------------------------------
LEMMA SetsTakeAway ==
  ASSUME NEW A, IsFiniteSet(A), NEW B \in SUBSET A
  PROVE  /\ Cardinality(A) \in Nat /\ Cardinality(B) \in Nat /\ Cardinality(A \ B) \in Nat
         /\ Cardinality(A) = Cardinality(A \ B) + Cardinality(B)
<1>1. IsFiniteSet(B) /\ IsFiniteSet(A \ B) /\ (A \ B) \cap B = {} /\ (A \ B) \cup B = A
  BY FS_Subset
<1>2. /\ Cardinality(A \ B) \in Nat /\ Cardinality(B) \in Nat
      /\ Cardinality((A \ B) \cup B) = Cardinality(A \ B) + Cardinality(B)
  BY <1>1, DisjointSets
<1>3. QED
  BY <1>1, <1>2, FS_CardinalityType

LEMMA HeldOnAre ==
  ASSUME NEW js, NEW a
  PROVE  /\ FairHeld(js) \in SUBSET Jobs /\ FairHeldOn(js, a) \in SUBSET Jobs
         /\ IsFiniteSet(FairHeldOn(js, a)) /\ Cardinality(FairHeldOn(js, a)) \in Nat
<1>1. FairHeldOn(js, a) \in SUBSET Jobs /\ FairHeld(js) \in SUBSET Jobs
  BY FairJobsAre DEF FairHeldOn, FairHeld
<1>2. QED
  BY <1>1, JobsAre

(* The balance depends on the leases alone.                                *)
LEMMA SameBalance ==
  ASSUME NEW js, NEW r, \A k \in Fair!Jobs : r[k].lease = Fair!NoLease <=> js[k].lease = Fair!NoLease,
         \A k \in Fair!Jobs : r[k].lease # Fair!NoLease => r[k].lease.agent = js[k].lease.agent,
         NEW av, NEW sl, Balanced(js, av, sl)
  PROVE  Balanced(r, av, sl)
<1>1. FairHeld(r) = FairHeld(js)
  BY DEF FairHeld
<1>2. \A a \in Fair!Agents : FairHeldOn(r, a) = FairHeldOn(js, a)
  BY DEF FairHeldOn
<1>3. QED
  BY <1>1, <1>2 DEF Balanced

(* What is taken may be changed further, if no lease is touched.           *)
LEMMA TakenOn ==
  ASSUME NEW js, NEW av, NEW sl, Taken(js, av, sl), NEW r \in [Fair!Jobs -> FairRecords],
         \A k \in Fair!Jobs : FairOK(k, r[k], fairFence) /\ FairGoes(k, js[k], r[k]) /\ r[k].lease = js[k].lease
  PROVE  Taken(r, av, sl)
<1>1. \A k \in Fair!Jobs : FairGoes(k, fairJobs[k], r[k])
  BY FairGoesOn DEF Taken
<1>2. Balanced(fairJobs, fairAvailable, slots) => Balanced(r, av, sl)
  BY SameBalance DEF Taken
<1>3. QED
  BY <1>1, <1>2 DEF Taken

(* One job of the table replaced.                                          *)
LEMMA OneTaken ==
  ASSUME FairInv, NEW j \in Fair!Jobs, NEW c, FairOK(j, c, fairFence), FairGoes(j, fairJobs[j], c),
         (c.lease = Fair!NoLease) <=> (fairJobs[j].lease = Fair!NoLease), c.lease.agent = fairJobs[j].lease.agent
  PROVE  Taken([fairJobs EXCEPT ![j] = c], fairAvailable, slots)
<1> DEFINE r == [fairJobs EXCEPT ![j] = c]
<1>1. fairJobs \in [Fair!Jobs -> FairRecords] /\ \A k \in Fair!Jobs : FairOK(k, fairJobs[k], fairFence)
  BY DEF FairInv
<1>2. c \in FairRecords
  BY DEF FairOK
<1>3. r[j] = c /\ \A k \in Fair!Jobs : k # j => r[k] = fairJobs[k]
  BY <1>1
<1>4. r \in [Fair!Jobs -> FairRecords]
  BY <1>1, <1>2
<1> HIDE DEF r
<1>5. \A k \in Fair!Jobs : FairOK(k, r[k], fairFence) /\ FairGoes(k, fairJobs[k], r[k])
  BY <1>1, <1>3, FairStaysIs
<1>6. Balanced(fairJobs, fairAvailable, slots) => Balanced(r, fairAvailable, slots)
  BY <1>3, SameBalance
<1>7. Taken(r, fairAvailable, slots)
  BY <1>4, <1>5, <1>6 DEF Taken, FairInv
<1>8. QED
  BY <1>7 DEF r

(* _release, after the records of the jobs in lost were changed.           *)
LEMMA BackTaken ==
  ASSUME FairInv, NEW js, NEW lost \in SUBSET FairHeld(fairJobs),
         \A k \in Fair!Jobs \ lost : js[k] = fairJobs[k],
         \A k \in lost : LET c == [js[k] EXCEPT !.lease = Fair!NoLease] IN
            FairOK(k, c, fairFence) /\ FairGoes(k, fairJobs[k], c) /\ c.lease = Fair!NoLease
  PROVE  Taken(Fair!Unleased(js, lost), Fair!ResourcesBack(lost), Fair!SlotsBack(lost))
<1> DEFINE r  == Fair!Unleased(js, lost)
           av == Fair!ResourcesBack(lost)
           sl == Fair!SlotsBack(lost)
<1>1. fairJobs \in [Fair!Jobs -> FairRecords] /\ \A k \in Fair!Jobs : FairOK(k, fairJobs[k], fairFence)
  BY DEF FairInv
<1>2. \A k \in Fair!Jobs : r[k] = IF k \in lost THEN [js[k] EXCEPT !.lease = Fair!NoLease] ELSE js[k]
  BY DEF Fair!Unleased
<1>3. /\ \A k \in Fair!Jobs : k \notin lost => r[k] = fairJobs[k]
      /\ \A k \in lost : k \in Fair!Jobs /\ r[k] = [js[k] EXCEPT !.lease = Fair!NoLease]
  BY <1>2 DEF FairHeld
<1>4. DOMAIN r = Fair!Jobs /\ r = [k \in Fair!Jobs |-> r[k]]
  BY DEF Fair!Unleased
<1> HIDE DEF r
<1>5. \A k \in lost : FairOK(k, r[k], fairFence) /\ FairGoes(k, fairJobs[k], r[k]) /\ r[k].lease = Fair!NoLease
  BY <1>3
<1>6. \A k \in Fair!Jobs : FairOK(k, r[k], fairFence) /\ FairGoes(k, fairJobs[k], r[k])
  BY <1>1, <1>3, <1>5, FairStaysIs
<1>7. r \in [Fair!Jobs -> FairRecords]
  <2>1. \A k \in Fair!Jobs : r[k] \in FairRecords
    BY <1>6 DEF FairOK
  <2>2. QED
    BY <1>4, <2>1
<1>8. lost \in SUBSET Jobs /\ av = fairAvailable + Sum(FairNeeds, lost) /\ Sum(FairNeeds, lost) \in Nat /\ av \in Nat
  <2>1. lost \in SUBSET Jobs
    BY HeldOnAre
  <2>2. av = fairAvailable + Sum(FairNeeds, lost)
    BY FairReservedIs DEF Fair!ResourcesBack
  <2>3. Sum(FairNeeds, lost) \in Nat /\ fairAvailable \in Nat
    BY <2>1, UnitsAreFinite, FairConstantsAre DEF FairInv
  <2> HIDE DEF av
  <2>4. QED
    BY <2>1, <2>2, <2>3
<1> DEFINE on(a) == {j \in lost : fairJobs[j].lease.agent = a}
<1>9. ASSUME NEW a \in Fair!Agents
      PROVE  /\ sl[a] = slots[a] + Cardinality(on(a)) /\ Cardinality(on(a)) \in Nat /\ slots[a] \in Nat
             /\ on(a) \in SUBSET FairHeldOn(fairJobs, a)
  <2>1. sl[a] = slots[a] + Cardinality(on(a))
    BY CardinalityIs DEF Fair!SlotsBack, Fair!LeasedOn
  <2>2. on(a) \in SUBSET FairHeldOn(fairJobs, a) /\ slots[a] \in Nat
    BY DEF FairHeld, FairHeldOn, FairInv
  <2>3. Cardinality(on(a)) \in Nat
    <3> HIDE DEF on
    <3>1. on(a) \in SUBSET Jobs
      BY <2>2, HeldOnAre
    <3>2. QED
      BY <3>1, JobsAre
  <2>4. QED
    BY <2>1, <2>2, <2>3
<1>10. sl \in [Fair!Agents -> Nat]
  <2>1. \A a \in Fair!Agents : slots[a] + Cardinality(on(a)) \in Nat
    <3> HIDE DEF on
    <3>1. QED
      BY <1>9
  <2>2. sl = [a \in Fair!Agents |-> slots[a] + Cardinality(on(a))]
    BY CardinalityIs DEF Fair!SlotsBack, Fair!LeasedOn
  <2>3. QED
    BY <2>1, <2>2
<1>11. ASSUME Balanced(fairJobs, fairAvailable, slots)
       PROVE  Balanced(r, av, sl)
  <2>1. FairHeld(r) = FairHeld(fairJobs) \ lost
    BY <1>3, <1>5 DEF FairHeld
  <2>2. av + Sum(FairNeeds, FairHeld(r)) = FairCapacity
    <3>1. FairHeld(fairJobs) \in SUBSET Jobs
      BY HeldOnAre
    <3>2. /\ Sum(FairNeeds, FairHeld(fairJobs)) = Sum(FairNeeds, FairHeld(fairJobs) \ lost) + Sum(FairNeeds, lost)
          /\ Sum(FairNeeds, FairHeld(fairJobs) \ lost) \in Nat
      BY <3>1, SumsTakeAway, FairConstantsAre
    <3>3. fairAvailable + Sum(FairNeeds, FairHeld(fairJobs)) = FairCapacity /\ fairAvailable \in Nat
      BY <1>11 DEF Balanced, FairInv
    <3> HIDE DEF av
    <3>4. QED
      BY <1>8, <2>1, <3>2, <3>3
  <2>3. ASSUME NEW a \in Fair!Agents
        PROVE  sl[a] + Cardinality(FairHeldOn(r, a)) = AgentSlots[a]
    <3>1. FairHeldOn(r, a) = FairHeldOn(fairJobs, a) \ on(a)
      BY <1>3, <1>5 DEF FairHeldOn
    <3>2. IsFiniteSet(FairHeldOn(fairJobs, a)) /\ on(a) \in SUBSET FairHeldOn(fairJobs, a)
      BY <1>9, HeldOnAre
    <3> HIDE DEF on, sl
    <3>3. /\ Cardinality(FairHeldOn(fairJobs, a)) = Cardinality(FairHeldOn(fairJobs, a) \ on(a)) + Cardinality(on(a))
          /\ Cardinality(FairHeldOn(fairJobs, a) \ on(a)) \in Nat /\ Cardinality(on(a)) \in Nat
      BY <3>2, SetsTakeAway
    <3>4. slots[a] + Cardinality(FairHeldOn(fairJobs, a)) = AgentSlots[a] /\ sl[a] = slots[a] + Cardinality(on(a)) /\ slots[a] \in Nat
      BY <1>9, <1>11 DEF Balanced
    <3>5. Cardinality(FairHeldOn(r, a)) = Cardinality(FairHeldOn(fairJobs, a) \ on(a))
      BY <3>1
    <3>6. QED
      BY <3>3, <3>4, <3>5
  <2>4. QED
    BY <2>2, <2>3 DEF Balanced
<1> HIDE DEF av, sl
<1>12. Taken(r, av, sl)
  BY <1>6, <1>7, <1>8, <1>10, <1>11 DEF Taken
<1>13. QED
  BY <1>12 DEF r, av, sl
---------------------------------------------------------------------------
(* The calls of the fair kernel.                                           *)
LEMMA FairLaterIs == ASSUME NEW s \in Fair!Times, NEW t \in Fair!Times PROVE Fair!Later(s, t) \in Fair!Times
BY DEF Fair!Later

LEMMA SameOperations ==
  ASSUME FairInv, fairOperations' = fairOperations, fairFence' = fairFence
  PROVE  FairOperationsOK' /\ Returned' = Returned
BY DEF FairInv, FairOperationsOK, Returned

LEMMA FairAdmitIs ==
  ASSUME FairInv, NEW j \in Fair!Jobs, Fair!Admit(j)
  PROVE  FairInv' /\ Fair!NobodyIsOvertaken /\ Fair!Lifecycle!Next
<1> DEFINE c == [fairJobs[j] EXCEPT !.state = "submitted"]
<1>1. fairJobs[j].state = "absent" /\ FairOK(j, fairJobs[j], fairFence) /\ fairNow \in Fair!Times
  BY DEF Fair!Admit, FairInv
<1>2. /\ c \in FairRecords /\ c.state = "submitted" /\ c.lease = fairJobs[j].lease
      /\ c.attempts = fairJobs[j].attempts /\ c.retries = fairJobs[j].retries
  BY <1>1 DEF FairOK, FairRecords, Fair!States
<1>3. /\ fairJobs' = [fairJobs EXCEPT ![j] = c] /\ fairFence' = fairFence /\ fairNow' = fairNow
      /\ fairAvailable' = fairAvailable /\ slots' = slots /\ service' = service /\ agentService' = agentService
      /\ fairOperations' = fairOperations
  BY DEF Fair!Admit
<1> HIDE DEF c
<1>4. FairOK(j, c, fairFence)
  BY <1>1, <1>2 DEF FairOK, InHand
<1>5. FairGoes(j, fairJobs[j], c)
  BY <1>1, <1>2 DEF FairGoes, Fair!Terminal, InHand
<1>6. Taken(fairJobs', fairAvailable', slots')
  BY <1>2, <1>3, <1>4, <1>5, OneTaken
<1>7. QED
  BY <1>1, <1>3, <1>6, SameOperations, FairNoneStarted

LEMMA FairRequestCancelIs ==
  ASSUME FairInv, NEW j \in Fair!Jobs, NEW t \in Fair!Times, Fair!RequestCancel(j, t)
  PROVE  FairInv' /\ Fair!NobodyIsOvertaken /\ Fair!Lifecycle!Next
<1> DEFINE s == IF fairJobs[j].state \in {"submitted", "queued"} THEN "cancelled" ELSE "cancelling"
           c == [fairJobs[j] EXCEPT !.cancel = TRUE, !.state = s]
<1>1. FairOK(j, fairJobs[j], fairFence) /\ fairNow \in Fair!Times /\ fairJobs[j].state \notin Fair!Terminal \cup {"absent"}
  BY DEF Fair!RequestCancel, FairInv
<1>2. fairJobs[j].state \in {"submitted", "queued"} \cup InHand
  BY <1>1 DEF FairOK, FairRecords, Fair!States, InHand
<1>3. /\ c \in FairRecords /\ c.state = s /\ c.lease = fairJobs[j].lease
      /\ c.attempts = fairJobs[j].attempts /\ c.retries = fairJobs[j].retries
  BY <1>1 DEF FairOK, FairRecords, Fair!States, Fair!Terminal
<1>4. /\ fairJobs' = [fairJobs EXCEPT ![j] = c] /\ fairFence' = fairFence /\ fairNow' = Fair!Later(fairNow, t)
      /\ fairAvailable' = fairAvailable /\ slots' = slots /\ service' = service /\ agentService' = agentService
      /\ fairOperations' = fairOperations
  BY DEF Fair!RequestCancel
<1> HIDE DEF c
<1>5. FairOK(j, c, fairFence)
  BY <1>1, <1>2, <1>3 DEF FairOK, InHand
<1>6. FairGoes(j, fairJobs[j], c)
  BY <1>1, <1>2, <1>3 DEF FairGoes, InHand
<1>7. Taken(fairJobs', fairAvailable', slots')
  BY <1>3, <1>4, <1>5, <1>6, OneTaken
<1>8. fairNow' \in Fair!Times
  BY <1>1, <1>4, FairLaterIs
<1>9. QED
  BY <1>4, <1>7, <1>8, SameOperations, FairNoneStarted

LEMMA FairOwnedIs ==
  ASSUME FairInv, NEW j \in Fair!Jobs, NEW quoted, NEW t \in Fair!Times, Fair!Owned(j, quoted, t)
  PROVE  /\ FairOK(j, fairJobs[j], fairFence) /\ fairFence \in Nat /\ Fair!Later(fairNow, t) \in Fair!Times
         /\ fairJobs[j].state \in InHand /\ fairJobs[j].lease # Fair!NoLease
         /\ {j} \in SUBSET FairHeld(fairJobs)
BY FairLaterIs DEF Fair!Owned, FairInv, FairOK, FairHeld, InHand

LEMMA FairHeartbeatIs ==
  ASSUME FairInv, NEW j \in Fair!Jobs, NEW quoted, NEW t \in Fair!Times, Fair!Heartbeat(j, quoted, t)
  PROVE  FairInv' /\ Fair!NobodyIsOvertaken /\ Fair!Lifecycle!Next
<1> DEFINE l == [fairJobs[j].lease EXCEPT !.expires = t + LeaseSeconds]
           c == [fairJobs[j] EXCEPT !.lease = l]
<1>1. /\ FairOK(j, fairJobs[j], fairFence) /\ fairFence \in Nat /\ Fair!Later(fairNow, t) \in Fair!Times
      /\ fairJobs[j].state \in InHand /\ fairJobs[j].lease # Fair!NoLease
  BY FairOwnedIs DEF Fair!Heartbeat
<1>2. /\ fairJobs' = [fairJobs EXCEPT ![j] = c] /\ fairFence' = fairFence /\ fairNow' = Fair!Later(fairNow, t)
      /\ fairAvailable' = fairAvailable /\ slots' = slots /\ service' = service /\ agentService' = agentService
      /\ fairOperations' = fairOperations
  BY DEF Fair!Heartbeat
<1>3. /\ l \in Fair!Leases /\ l.fence = fairJobs[j].lease.fence /\ l.job = fairJobs[j].lease.job
      /\ l.agent = fairJobs[j].lease.agent
  <2>1. fairJobs[j].lease \in Fair!Leases /\ t + LeaseSeconds \in Nat
    BY <1>1, FairConstantsAre DEF FairOK, FairRecords, Fair!Times
  <2>2. QED
    BY <2>1 DEF Fair!Leases
<1> HIDE DEF l
<1>4. l # Fair!NoLease
  BY <1>1, <1>3, FairNoLeaseIs DEF FairOK
<1>5. /\ c \in FairRecords /\ c.state = fairJobs[j].state /\ c.lease = l
      /\ c.attempts = fairJobs[j].attempts /\ c.retries = fairJobs[j].retries
  BY <1>1, <1>3 DEF FairOK, FairRecords
<1> HIDE DEF c
<1>6. FairOK(j, c, fairFence)
  BY <1>1, <1>3, <1>4, <1>5 DEF FairOK
<1>7. FairGoes(j, fairJobs[j], c)
  BY <1>1, <1>3, <1>5 DEF FairGoes
<1>8. Taken(fairJobs', fairAvailable', slots')
  BY <1>1, <1>2, <1>3, <1>4, <1>5, <1>6, <1>7, OneTaken
<1>9. QED
  BY <1>1, <1>2, <1>8, SameOperations, FairNoneStarted

(* The end of an attempt by its holder.                                    *)
LEMMA HandBackIs ==
  ASSUME FairInv, NEW j \in Fair!Jobs, NEW b, NEW t \in Fair!Times, {j} \in SUBSET FairHeld(fairJobs), Fair!HandBack(j, b, t),
         LET c == [b EXCEPT !.lease = Fair!NoLease] IN
           FairOK(j, c, fairFence) /\ FairGoes(j, fairJobs[j], c) /\ c.lease = Fair!NoLease
  PROVE  FairInv' /\ Fair!NobodyIsOvertaken /\ Fair!Lifecycle!Next
<1> DEFINE js == [fairJobs EXCEPT ![j] = b]
<1>1. /\ fairJobs' = Fair!Unleased(js, {j}) /\ fairAvailable' = Fair!ResourcesBack({j}) /\ slots' = Fair!SlotsBack({j})
      /\ fairFence' = fairFence /\ fairNow' = Fair!Later(fairNow, t) /\ service' = service /\ agentService' = agentService
      /\ fairOperations' = fairOperations
  BY DEF Fair!HandBack
<1>2. js[j] = b /\ \A k \in Fair!Jobs \ {j} : js[k] = fairJobs[k]
  BY DEF FairInv
<1>3. fairNow' \in Fair!Times
  BY <1>1, FairLaterIs DEF FairInv
<1> HIDE DEF js
<1>4. Taken(fairJobs', fairAvailable', slots')
  BY <1>1, <1>2, BackTaken
<1>5. QED
  BY <1>1, <1>3, <1>4, SameOperations, FairNoneStarted

LEMMA FairCompleteIs ==
  ASSUME FairInv, NEW j \in Fair!Jobs, NEW quoted, NEW t \in Fair!Times, NEW s \in Fair!Terminal, Fair!Owned(j, quoted, t),
         Fair!HandBack(j, [fairJobs[j] EXCEPT !.state = s], t)
  PROVE  FairInv' /\ Fair!NobodyIsOvertaken /\ Fair!Lifecycle!Next
<1> DEFINE b == [fairJobs[j] EXCEPT !.state = s]
<1>1. /\ FairOK(j, fairJobs[j], fairFence) /\ fairFence \in Nat /\ fairJobs[j].state \in InHand
      /\ {j} \in SUBSET FairHeld(fairJobs)
  BY FairOwnedIs
<1>2. LET c == FairEndOf(fairJobs[j], s) IN
        FairOK(j, c, fairFence) /\ FairGoes(j, fairJobs[j], c) /\ c.lease = Fair!NoLease
  BY <1>1, FairEndIs
<1>3. [b EXCEPT !.lease = Fair!NoLease] = FairEndOf(fairJobs[j], s)
  BY DEF FairEndOf
<1> HIDE DEF b
<1>4. Fair!HandBack(j, b, t)
  BY DEF b
<1>5. QED
  BY <1>1, <1>2, <1>3, <1>4, HandBackIs

(* A job is queued again for a retry.                                      *)
LEMMA RequeuedIs ==
  ASSUME FairInv, NEW j \in Fair!Jobs, NEW t \in Fair!Times, fairJobs[j].state \in InHand, Fair!MayRetry(j)
  PROVE  LET c == [Fair!Requeued(j, t) EXCEPT !.lease = Fair!NoLease] IN
         FairOK(j, c, fairFence) /\ FairGoes(j, fairJobs[j], c) /\ c.lease = Fair!NoLease /\ c.state = "queued"
<1> DEFINE n == fairJobs[j].retries
           r == t + Backoff[j] * 2 ^ n
<1>1. FairOK(j, fairJobs[j], fairFence) /\ fairFence \in Nat /\ t \in Nat /\ fairJobs[j].retries < RetryBudget[j]
  BY DEF FairInv, Fair!Times, Fair!MayRetry
<1>2. r \in Nat
  <2>1. n \in 0..RetryBudget[j]
    BY <1>1, FairConstantsAre DEF FairOK, FairRecords
  <2>2. Backoff[j] \in Nat /\ 2 ^ n \in Nat
    BY <2>1, FairConstantsAre
  <2>3. \A x, y \in Nat : x * y \in Nat
    OBVIOUS
  <2>4. Backoff[j] * 2 ^ n \in Nat
    BY <2>2, <2>3
  <2> HIDE DEF n
  <2>5. QED
    BY <1>1, <2>4
<1>3. LET c == FairAgain(fairJobs[j], fairJobs[j].retries + 1, r, t) IN
        FairOK(j, c, fairFence) /\ FairGoes(j, fairJobs[j], c) /\ c.lease = Fair!NoLease /\ c.state = "queued"
  <2> HIDE DEF r
  <2>1. QED
    BY <1>1, <1>2, FairAgainIs
<1>4. [Fair!Requeued(j, t) EXCEPT !.lease = Fair!NoLease] = FairAgain(fairJobs[j], fairJobs[j].retries + 1, r, t)
  BY DEF Fair!Requeued, FairAgain
<1> HIDE DEF r
<1>5. QED
  BY <1>3, <1>4

LEMMA FairFailIs ==
  ASSUME FairInv, NEW j \in Fair!Jobs, NEW quoted, NEW reason, NEW t \in Fair!Times, Fair!Fail(j, quoted, reason, t)
  PROVE  FairInv' /\ Fair!NobodyIsOvertaken /\ Fair!Lifecycle!Next
<1>1. Fair!Owned(j, quoted, t) /\ fairJobs[j].state \in InHand /\ {j} \in SUBSET FairHeld(fairJobs)
  BY FairOwnedIs DEF Fair!Fail
<1>2. CASE Fair!MayRetry(j) /\ Fair!HandBack(j, Fair!Requeued(j, t), t)
  BY <1>1, <1>2, RequeuedIs, HandBackIs
<1>3. CASE Fair!HandBack(j, [fairJobs[j] EXCEPT !.state = "failed"], t)
  <2>1. "failed" \in Fair!Terminal
    BY DEF Fair!Terminal
  <2>2. QED
    BY <1>1, <1>3, <2>1, FairCompleteIs
<1>4. QED
  BY <1>2, <1>3 DEF Fair!Fail

LEMMA FairCallIs ==
  ASSUME FairInv, NEW j \in Fair!Jobs, NEW quoted, NEW t \in Fair!Times,
         Fair!Complete(j, quoted, t) \/ Fair!AcknowledgeCancel(j, quoted, t)
  PROVE  FairInv' /\ Fair!NobodyIsOvertaken /\ Fair!Lifecycle!Next
<1>1. "succeeded" \in Fair!Terminal /\ "cancelled" \in Fair!Terminal
  BY DEF Fair!Terminal
<1>2. QED
  BY <1>1, FairCompleteIs DEF Fair!Complete, Fair!AcknowledgeCancel
---------------------------------------------------------------------------
(* What advance makes of the jobs.                                         *)
LEMMA AdvancedTaken ==
  ASSUME FairInv, NEW t \in Fair!Times
  PROVE  /\ Taken(Fair!Advanced(t), Fair!ResourcesBack(Fair!Overdue(t)), Fair!SlotsBack(Fair!Overdue(t)))
         /\ \A k \in Fair!Jobs : \/ Fair!Advanced(t)[k] = fairJobs[k]
                                 \/ /\ fairJobs[k].state \in InHand
                                    /\ Fair!Advanced(t)[k].state \in {"queued", "cancelled", "failed"}
                                    /\ Fair!Advanced(t)[k].lease = Fair!NoLease
<1> DEFINE lost == Fair!Overdue(t)
           js   == [k \in Fair!Jobs |-> IF k \in lost THEN Fair!Expired(k, t) ELSE fairJobs[k]]
<1>1. Fair!Advanced(t) = Fair!Unleased(js, lost)
  BY DEF Fair!Advanced
<1>2. /\ lost \in SUBSET FairHeld(fairJobs) /\ fairFence \in Nat
      /\ \A k \in lost : k \in Fair!Jobs /\ fairJobs[k].state \in InHand /\ FairOK(k, fairJobs[k], fairFence)
  BY DEF Fair!Overdue, Fair!Leased, FairHeld, InHand, FairInv
<1>3. (\A k \in Fair!Jobs \ lost : js[k] = fairJobs[k]) /\ \A k \in lost : js[k] = Fair!Expired(k, t)
  BY <1>2
<1>4. ASSUME NEW k \in lost
      PROVE  LET c == [js[k] EXCEPT !.lease = Fair!NoLease] IN
             /\ FairOK(k, c, fairFence) /\ FairGoes(k, fairJobs[k], c) /\ c.lease = Fair!NoLease
             /\ c.state \in {"queued", "cancelled", "failed"}
  <2>1. k \in Fair!Jobs /\ fairJobs[k].state \in InHand /\ FairOK(k, fairJobs[k], fairFence)
    BY <1>2
  <2>2. js[k] = Fair!Expired(k, t)
    BY <1>3
  <2> HIDE DEF lost, js
  <2>3. CASE Fair!MayRetry(k) /\ ~fairJobs[k].cancel
    <3>1. js[k] = Fair!Requeued(k, t)
      BY <2>2, <2>3 DEF Fair!Expired
    <3>2. QED
      BY <2>1, <2>3, <3>1, RequeuedIs
  <2>4. CASE ~(Fair!MayRetry(k) /\ ~fairJobs[k].cancel)
    <3> DEFINE s == IF fairJobs[k].cancel THEN "cancelled" ELSE "failed"
    <3>1. js[k] = [fairJobs[k] EXCEPT !.state = s]
      BY <2>2, <2>4 DEF Fair!Expired
    <3>2. s \in Fair!Terminal /\ s \in {"cancelled", "failed"}
      BY DEF Fair!Terminal
    <3> HIDE DEF s
    <3>3. LET c == FairEndOf(fairJobs[k], s) IN
            FairOK(k, c, fairFence) /\ FairGoes(k, fairJobs[k], c) /\ c.lease = Fair!NoLease /\ c.state = s
      BY <1>2, <2>1, <3>2, FairEndIs
    <3>4. [js[k] EXCEPT !.lease = Fair!NoLease] = FairEndOf(fairJobs[k], s)
      BY <3>1 DEF FairEndOf
    <3>5. QED
      BY <3>2, <3>3, <3>4
  <2>5. QED
    BY <2>3, <2>4
<1> HIDE DEF lost, js
<1>5. Taken(Fair!Advanced(t), Fair!ResourcesBack(lost), Fair!SlotsBack(lost))
  BY <1>1, <1>2, <1>3, <1>4, BackTaken
<1>6. \A k \in Fair!Jobs : Fair!Advanced(t)[k] = IF k \in lost THEN [js[k] EXCEPT !.lease = Fair!NoLease] ELSE js[k]
  BY <1>1 DEF Fair!Unleased
<1>7. ASSUME NEW k \in Fair!Jobs
      PROVE  \/ Fair!Advanced(t)[k] = fairJobs[k]
             \/ /\ fairJobs[k].state \in InHand
                /\ Fair!Advanced(t)[k].state \in {"queued", "cancelled", "failed"}
                /\ Fair!Advanced(t)[k].lease = Fair!NoLease
  <2>1. CASE k \in lost
    BY <1>2, <1>4, <1>6, <2>1
  <2>2. CASE k \notin lost
    BY <1>3, <1>6, <2>2
  <2>3. QED
    BY <2>1, <2>2
<1>8. QED
  BY <1>5, <1>7 DEF lost

LEMMA AdvanceIs ==
  ASSUME FairInv, NEW t \in Fair!Times, Fair!Advance(t)
  PROVE  FairInv' /\ Fair!NobodyIsOvertaken /\ Fair!Lifecycle!Next
<1>1. /\ fairNow' = t /\ fairJobs' = Fair!Advanced(t) /\ fairAvailable' = Fair!ResourcesBack(Fair!Overdue(t))
      /\ slots' = Fair!SlotsBack(Fair!Overdue(t)) /\ fairFence' = fairFence /\ service' = service
      /\ agentService' = agentService /\ fairOperations' = fairOperations
  BY DEF Fair!Advance
<1>2. Taken(fairJobs', fairAvailable', slots')
  BY <1>1, AdvancedTaken
<1>3. QED
  BY <1>1, <1>2, SameOperations, FairNoneStarted
---------------------------------------------------------------------------
(* What _ready makes of the jobs of the table base.                        *)
FairSettles(base, k, b, c, t) ==
  \/ c = b
  \/ b.state = "submitted" /\ c = FairFailed(b)
  \/ b.state = "submitted" /\ FairAwaited(base, k) /\ c = FairQueued(b, t)

FairSettled(base, r, t) ==
  r \in [Fair!Jobs -> FairRecords] /\ \A k \in Fair!Jobs : FairSettles(base, k, base[k], r[k], t)

LEMMA FairSettlesIs ==
  ASSUME NEW base, NEW k \in Fair!Jobs, NEW b \in FairRecords, NEW c, NEW t \in Fair!Times, FairSettles(base, k, b, c, t)
  PROVE  /\ c \in FairRecords
         /\ c.state = "succeeded" => b.state = "succeeded"
         /\ c = b \/ (b.state = "submitted" /\ c.state \in {"failed", "queued"})
<1>1. FairFailed(b) \in FairRecords /\ FairFailed(b).state = "failed"
  BY DEF FairRecords, Fair!States, Fair!Terminal, FairFailed
<1>2. FairQueued(b, t) \in FairRecords /\ FairQueued(b, t).state = "queued"
  BY DEF FairRecords, Fair!States, FairQueued
<1>3. QED
  BY <1>1, <1>2 DEF FairSettles

LEMMA ReadiedSettles ==
  ASSUME NEW base \in [Fair!Jobs -> FairRecords], NEW j \in Fair!Jobs, NEW r, NEW t \in Fair!Times, FairSettled(base, r, t)
  PROVE  FairSettled(base, Fair!Readied(r, j, t), t)
<1>1. r \in [Fair!Jobs -> FairRecords] /\ \A k \in Fair!Jobs : FairSettles(base, k, base[k], r[k], t)
  BY DEF FairSettled
<1>2. CASE Fair!Readied(r, j, t) = r
  BY <1>2
<1>3. ASSUME r[j].state = "submitted"
      PROVE  r[j] = base[j]
  <2>1. FairSettles(base, j, base[j], r[j], t) /\ base[j] \in FairRecords
    BY <1>1
  <2>2. QED
    BY <1>3, <2>1, FairSettlesIs
<1>4. ASSUME NEW c, r[j].state = "submitted", FairSettles(base, j, base[j], c, t), Fair!Readied(r, j, t) = [r EXCEPT ![j] = c]
      PROVE  FairSettled(base, Fair!Readied(r, j, t), t)
  <2>1. base[j] \in FairRecords
    OBVIOUS
  <2>2. c \in FairRecords
    BY <1>4, <2>1, FairSettlesIs
  <2>3. QED
    BY <1>1, <1>4, <2>2 DEF FairSettled
<1>5. CASE r[j].state = "submitted" /\ Fair!Readied(r, j, t) = [r EXCEPT ![j] = FairFailed(r[j])]
  BY <1>3, <1>4, <1>5 DEF FairSettles
<1>6. CASE /\ r[j].state = "submitted" /\ \A d \in FairDependencies[j] : r[d].state = "succeeded"
           /\ Fair!Readied(r, j, t) = [r EXCEPT ![j] = FairQueued(r[j], t)]
  <2>1. FairAwaited(base, j)
    <3>1. SUFFICES ASSUME NEW d \in FairDependencies[j] PROVE base[d].state = "succeeded"
      BY DEF FairAwaited
    <3>2. d \in Fair!Jobs /\ r[d].state = "succeeded" /\ base[d] \in FairRecords
      BY <1>6, FairConstantsAre
    <3>3. QED
      BY <1>1, <3>2, FairSettlesIs
  <2>2. QED
    BY <1>3, <1>4, <1>6, <2>1 DEF FairSettles
<1>7. QED
  BY <1>2, <1>5, <1>6 DEF Fair!Readied, FairFailed, FairQueued

FairWalks(f, js, t) == f = [j \in 0..JobCount |-> IF j = 0 THEN js ELSE Fair!Readied(f[j - 1], j, t)]

LEMMA FairWalkExists == ASSUME NEW js, NEW t PROVE \E f : FairWalks(f, js, t)
<1> DEFINE Step(f, j) == IF j = 0 THEN js ELSE Fair!Readied(f[j - 1], j, t)
           H == {i \in 0..JobCount : \E f : f = [j \in 0..i |-> Step(f, j)]}
<1>1. 0 \in H
  <2> DEFINE f == [j \in 0..0 |-> js]
  <2>1. f = [j \in 0..0 |-> Step(f, j)]
    OBVIOUS
  <2> HIDE DEF f, Step
  <2>2. \E g : g = [j \in 0..0 |-> Step(g, j)]
    BY <2>1
  <2>3. QED
    BY <2>2, JobsAre
<1>2. ASSUME NEW i \in 0..JobCount, i \in H, i < JobCount
      PROVE  i + 1 \in H
  <2>1. PICK f : f = [j \in 0..i |-> Step(f, j)]
    BY <1>2
  <2> DEFINE g == [j \in 0..(i + 1) |-> IF j \in 0..i THEN f[j] ELSE Fair!Readied(f[i], i + 1, t)]
  <2>2. ASSUME NEW j \in 0..(i + 1) PROVE g[j] = Step(g, j)
    <3>1. CASE j = 0
      BY <2>1, <3>1
    <3>2. CASE j # 0 /\ j \in 0..i
      <4>1. j - 1 \in 0..i /\ j - 1 \in 0..(i + 1) /\ g[j - 1] = f[j - 1] /\ g[j] = f[j]
        BY <3>2
      <4>2. f[j] = Fair!Readied(f[j - 1], j, t)
        BY <2>1, <3>2
      <4>3. QED
        BY <3>2, <4>1, <4>2
    <3>3. CASE j = i + 1
      <4>1. j # 0 /\ j - 1 = i /\ i \in 0..i /\ i \in 0..(i + 1) /\ j \notin 0..i
        BY <3>3
      <4>2. g[i] = f[i] /\ g[j] = Fair!Readied(f[i], i + 1, t)
        BY <3>3, <4>1
      <4>3. QED
        BY <3>3, <4>1, <4>2
    <3>4. QED
      BY <3>1, <3>2, <3>3
  <2>3. g = [j \in 0..(i + 1) |-> Step(g, j)]
    <3>1. DOMAIN g = 0..(i + 1)
      OBVIOUS
    <3> HIDE DEF Step
    <3>2. QED
      BY <2>2, <3>1
  <2>4. i + 1 \in 0..JobCount
    BY <1>2, JobsAre
  <2>5. QED
    BY <2>3, <2>4
<1>3. JobCount \in H
  <2> HIDE DEF H
  <2> QED
    BY <1>1, <1>2, JobsAre, AllUpTo
<1>4. QED
  BY <1>3 DEF FairWalks

LEMMA AllReadiedSettles ==
  ASSUME NEW base \in [Fair!Jobs -> FairRecords], NEW t \in Fair!Times
  PROVE  FairSettled(base, Fair!AllReadied(base, t), t)
<1> DEFINE upTo == CHOOSE f : FairWalks(f, base, t)
<1>1. FairWalks(upTo, base, t)
  BY FairWalkExists
<1>2. Fair!AllReadied(base, t) = upTo[JobCount]
  BY DEF Fair!AllReadied, FairWalks
<1> HIDE DEF upTo
<1>3. upTo[0] = base /\ \A i \in 0..JobCount : i < JobCount => upTo[i + 1] = Fair!Readied(upTo[i], i + 1, t)
  <2>1. 0 \in 0..JobCount /\ \A i \in 0..JobCount : i < JobCount => i + 1 \in 0..JobCount /\ i + 1 # 0 /\ (i + 1) - 1 = i
    BY JobsAre
  <2>2. QED
    BY <1>1, <2>1 DEF FairWalks
<1> DEFINE H == {i \in 0..JobCount : FairSettled(base, upTo[i], t)}
<1>4. 0 \in H
  <2>1. FairSettled(base, base, t)
    BY DEF FairSettled, FairSettles
  <2>2. QED
    BY <1>3, <2>1, JobsAre
<1>5. ASSUME NEW i \in 0..JobCount, i \in H, i < JobCount
      PROVE  i + 1 \in H
  <2>1. FairSettled(base, upTo[i], t) /\ i + 1 \in Fair!Jobs /\ i + 1 \in 0..JobCount
    BY <1>5, JobsAre DEF Fair!Jobs
  <2>2. FairSettled(base, Fair!Readied(upTo[i], i + 1, t), t)
    BY <2>1, ReadiedSettles
  <2>3. QED
    BY <1>3, <1>5, <2>1, <2>2
<1>6. JobCount \in H
  <2> HIDE DEF H
  <2> QED
    BY <1>4, <1>5, JobsAre, AllUpTo
<1>7. QED
  BY <1>2, <1>6
---------------------------------------------------------------------------
(* The tables dispatch works on, one after the other.                      *)
Ready(t)        == Fair!AllReadied(Fair!Advanced(t), t)
FairLate(js, t) == {k \in Fair!Jobs : Fair!IsDue(js, k, t) /\ FairDeadline[k] < t}
FairKept(js, t) == [k \in Fair!Jobs |-> IF k \in FairLate(js, t) THEN FairFailed(js[k]) ELSE js[k]]
Left(t)         == Fair!ResourcesBack(Fair!Overdue(t))
Free(t)         == Fair!SlotsBack(Fair!Overdue(t))

LEMMA ReadyTaken ==
  ASSUME FairInv, NEW t \in Fair!Times
  PROVE  /\ Taken(Ready(t), Left(t), Free(t))
         /\ \A k \in Fair!Jobs : \/ Ready(t)[k] = fairJobs[k]
                                 \/ /\ fairJobs[k].state # "queued" /\ Ready(t)[k].lease = Fair!NoLease
                                    /\ Ready(t)[k].state \notin InHand
<1> DEFINE base == Fair!Advanced(t)
           r    == Ready(t)
<1>1. /\ Taken(base, Left(t), Free(t))
      /\ \A k \in Fair!Jobs : base[k] = fairJobs[k] \/ (/\ fairJobs[k].state \in InHand
                                                          /\ base[k].state \in {"queued", "cancelled", "failed"}
                                                          /\ base[k].lease = Fair!NoLease)
  BY AdvancedTaken DEF Left, Free
<1> HIDE DEF base
<1>2. r = Fair!AllReadied(base, t)
  BY DEF base, Ready
<1> HIDE DEF r
<1>3. base \in [Fair!Jobs -> FairRecords] /\ \A k \in Fair!Jobs : FairOK(k, base[k], fairFence)
  BY <1>1 DEF Taken
<1>4. r \in [Fair!Jobs -> FairRecords] /\ \A k \in Fair!Jobs : FairSettles(base, k, base[k], r[k], t)
  BY <1>2, <1>3, AllReadiedSettles DEF FairSettled
<1>5. \A k \in Fair!Jobs : FairAwaited(base, k) => FairAwaited(fairJobs, k)
  BY <1>1, FairConstantsAre DEF FairAwaited
<1>6. ASSUME NEW k \in Fair!Jobs
      PROVE  /\ FairOK(k, r[k], fairFence) /\ FairGoes(k, base[k], r[k]) /\ r[k].lease = base[k].lease
             /\ r[k] = base[k] \/ (base[k].state = "submitted" /\ r[k].state \in {"failed", "queued"})
  <2>1. FairOK(k, base[k], fairFence) /\ fairFence \in Nat /\ FairSettles(base, k, base[k], r[k], t)
    BY <1>3, <1>4 DEF FairInv
  <2>2. CASE r[k] = base[k]
    BY <2>1, <2>2, FairStaysIs
  <2>3. CASE base[k].state = "submitted" /\ r[k] = FairFailed(base[k])
    BY <2>1, <2>3, FairFailedIs
  <2>4. CASE base[k].state = "submitted" /\ FairAwaited(base, k) /\ r[k] = FairQueued(base[k], t)
    BY <1>5, <2>1, <2>4, FairQueuedIs
  <2>5. QED
    BY <2>1, <2>2, <2>3, <2>4 DEF FairSettles
<1>7. Taken(r, Left(t), Free(t))
  BY <1>1, <1>4, <1>6, TakenOn
<1>8. ASSUME NEW k \in Fair!Jobs, r[k] # fairJobs[k]
      PROVE  fairJobs[k].state # "queued" /\ r[k].lease = Fair!NoLease /\ r[k].state \notin InHand
  <2>1. CASE r[k] = base[k]
    BY <1>1, <1>8, <2>1 DEF InHand
  <2>2. CASE r[k] # base[k]
    <3>1. base[k].state = "submitted" /\ r[k].state \in {"failed", "queued"}
      BY <1>6, <2>2
    <3>2. base[k] = fairJobs[k]
      BY <1>1, <3>1
    <3>3. FairOK(k, r[k], fairFence)
      BY <1>6
    <3>4. QED
      BY <3>1, <3>2, <3>3 DEF InHand, FairOK
  <2>3. QED
    BY <2>1, <2>2
<1>9. QED
  BY <1>7, <1>8 DEF r

LEMMA KeptTaken ==
  ASSUME FairInv, NEW t \in Fair!Times
  PROVE  LET r == FairKept(Ready(t), t) IN
         /\ Taken(r, Left(t), Free(t))
         /\ \A k \in Fair!Jobs : r[k].state \in InHand => r[k] = fairJobs[k]
         /\ \A k \in Fair!Jobs : fairJobs[k].state = "queued" /\ (r[k].state = "queued" \/ FairDeadline[k] >= t) => r[k] = fairJobs[k]
<1> DEFINE q == Ready(t)
           r == FairKept(q, t)
<1>1. /\ Taken(q, Left(t), Free(t))
      /\ \A k \in Fair!Jobs : \/ q[k] = fairJobs[k]
                              \/ /\ fairJobs[k].state # "queued" /\ q[k].lease = Fair!NoLease /\ q[k].state \notin InHand
  BY ReadyTaken
<1> HIDE DEF q
<1>2. q \in [Fair!Jobs -> FairRecords] /\ fairFence \in Nat /\ \A k \in Fair!Jobs : FairOK(k, q[k], fairFence)
  BY <1>1 DEF Taken, FairInv
<1>3. \A k \in Fair!Jobs : r[k] = IF k \in FairLate(q, t) THEN FairFailed(q[k]) ELSE q[k]
  BY DEF FairKept
<1>4. DOMAIN r = Fair!Jobs /\ r = [k \in Fair!Jobs |-> r[k]]
  BY DEF FairKept
<1> HIDE DEF r
<1>5. ASSUME NEW k \in Fair!Jobs
      PROVE  /\ FairOK(k, r[k], fairFence) /\ FairGoes(k, q[k], r[k]) /\ r[k].lease = q[k].lease
             /\ r[k] = q[k] \/ (q[k].state = "queued" /\ r[k].state = "failed" /\ FairDeadline[k] < t)
  <2>1. CASE k \notin FairLate(q, t)
    BY <1>2, <1>3, <2>1, FairStaysIs
  <2>2. CASE k \in FairLate(q, t)
    <3>1. q[k].state = "queued" /\ FairDeadline[k] < t
      BY <2>2 DEF FairLate, Fair!IsDue
    <3>2. QED
      BY <1>2, <1>3, <2>2, <3>1, FairFailedIs
  <2>3. QED
    BY <2>1, <2>2
<1>6. r \in [Fair!Jobs -> FairRecords]
  <2>1. \A k \in Fair!Jobs : r[k] \in FairRecords
    BY <1>5 DEF FairOK
  <2>2. QED
    BY <1>4, <2>1
<1>7. Taken(r, Left(t), Free(t))
  BY <1>1, <1>5, <1>6, TakenOn
<1>8. \A k \in Fair!Jobs : r[k].state \in InHand => r[k] = fairJobs[k]
  BY <1>1, <1>5 DEF InHand
<1>9. ASSUME NEW k \in Fair!Jobs, fairJobs[k].state = "queued", r[k].state = "queued" \/ FairDeadline[k] >= t
      PROVE  r[k] = fairJobs[k]
  <2>1. ~(FairDeadline[k] >= t /\ FairDeadline[k] < t)
    BY FairConstantsAre DEF Fair!Times
  <2>2. r[k] = q[k]
    BY <1>5, <1>9, <2>1
  <2>3. QED
    BY <1>1, <1>9, <2>2
<1>10. QED
  BY <1>7, <1>8, <1>9 DEF r, q
---------------------------------------------------------------------------
(* The first of the candidates, and the least busy agent.                  *)
LEMMA ScoreIs ==
  ASSUME FairInv, NEW js \in [Fair!Jobs -> FairRecords], NEW t \in Fair!Times, NEW j \in Fair!Jobs
  PROVE  /\ Fair!Score(js, j, t) \in [1..6 -> Int] /\ Fair!Score(js, j, t)[6] = j
         /\ Fair!Score(js, j, t)[1] = FairPriority[j] + (t - js[j].queuedAt) \div AgingQuantum
<1>1. js[j].queuedAt \in Nat /\ js[j].attempts \in Nat /\ j \in Int /\ t \in Nat
  BY FairJobsAre, JobsAre DEF FairRecords, Fair!Times, Jobs
<1>2. FairPriority[j] + (t - js[j].queuedAt) \div AgingQuantum \in Int
  BY <1>1, FairConstantsAre
<1>3. -Fair!Served(Fair!OfTenant(j)) \in Int /\ -Fair!Served(Fair!OfProject(j)) \in Int
  <2>1. Fair!OfTenant(j) \in SUBSET Jobs /\ Fair!OfProject(j) \in SUBSET Jobs
    BY FairJobsAre DEF Fair!OfTenant, Fair!OfProject
  <2>2. IsAmount(service)
    BY FairJobsAre DEF FairInv, IsAmount
  <2>3. Fair!Served(Fair!OfTenant(j)) \in Nat /\ Fair!Served(Fair!OfProject(j)) \in Nat
    BY <2>1, <2>2, UnitsAreFinite, FairReservedIs
  <2>4. QED
    BY <2>3
<1>4. QED
  BY <1>1, <1>2, <1>3 DEF Fair!Score

LEMMA FairFirstIs ==
  ASSUME FairInv, NEW js \in [Fair!Jobs -> FairRecords], NEW t \in Fair!Times, NEW S \in SUBSET Fair!Jobs, S # {}
  PROVE  LET j == Fair!First(js, S, t) IN
         j \in S /\ \A k \in S \ {j} : Fair!Exceeds(Fair!Score(js, j, t), Fair!Score(js, k, t))
<1> DEFINE G == {p \in Fair!Jobs \X Fair!Jobs : Fair!Exceeds(Fair!Score(js, p[1], t), Fair!Score(js, p[2], t))}
<1>1. \A j, k \in Fair!Jobs : <<j, k>> \in G <=> Fair!Exceeds(Fair!Score(js, j, t), Fair!Score(js, k, t))
  OBVIOUS
<1>2. \A j \in Fair!Jobs : Fair!Score(js, j, t) \in [1..6 -> Int] /\ Fair!Score(js, j, t)[6] = j
  BY ScoreIs
<1> HIDE DEF G
<1>3. ASSUME NEW j \in S, NEW k \in S, j # k PROVE <<j, k>> \in G \/ <<k, j>> \in G
  <2>1. Fair!Score(js, j, t)[6] # Fair!Score(js, k, t)[6] /\ 6 \in 1..6 /\ 6 \in Nat
    BY <1>2, <1>3
  <2>2. Fair!Exceeds(Fair!Score(js, j, t), Fair!Score(js, k, t)) \/ Fair!Exceeds(Fair!Score(js, k, t), Fair!Score(js, j, t))
    BY <1>2, <2>1, OneExceeds
  <2>3. QED
    BY <1>1, <2>2
<1>4. ASSUME NEW i \in S, NEW j \in S, NEW k \in S, <<i, j>> \in G, <<j, k>> \in G PROVE <<i, k>> \in G
  <2>1. Fair!Exceeds(Fair!Score(js, i, t), Fair!Score(js, j, t)) /\ Fair!Exceeds(Fair!Score(js, j, t), Fair!Score(js, k, t))
    BY <1>1, <1>4
  <2>2. Fair!Exceeds(Fair!Score(js, i, t), Fair!Score(js, k, t))
    <3>1. 6 \in Nat
      OBVIOUS
    <3>2. QED
      BY <1>2, <2>1, <3>1, ExceedsOn
  <2>3. QED
    BY <1>1, <2>2
<1>5. HasFirst(G, S)
  <2>1. PICK n \in Nat : S \subseteq 1..n
    BY JobsAre DEF Fair!Jobs
  <2>2. Orders(G, S)
    BY <1>3, <1>4 DEF Orders
  <2>3. QED
    BY <2>1, <2>2, Foremost
<1>6. \E j \in S : \A k \in S \ {j} : Fair!Exceeds(Fair!Score(js, j, t), Fair!Score(js, k, t))
  BY <1>1, <1>5 DEF HasFirst
<1>7. QED
  BY <1>6 DEF Fair!First

LEMMA LeastBusyIs ==
  ASSUME FairInv, NEW js, NEW S \in SUBSET Fair!Agents, S # {}
  PROVE  Fair!LeastBusy(js, S) \in S
<1> DEFINE load(a) == <<Cardinality(Fair!RunningOn(js, a)), agentService[a], a>>
           G == {p \in Fair!Agents \X Fair!Agents : Fair!Exceeds(load(p[2]), load(p[1]))}
<1>1. \A a, b \in Fair!Agents : <<a, b>> \in G <=> Fair!Exceeds(load(b), load(a))
  OBVIOUS
<1>2. ASSUME NEW a \in Fair!Agents PROVE load(a) \in [1..3 -> Int] /\ load(a)[3] = a
  <2>1. Fair!RunningOn(js, a) \in SUBSET Jobs
    BY FairJobsAre DEF Fair!RunningOn, Fair!Running
  <2>2. Cardinality(Fair!RunningOn(js, a)) \in Nat /\ agentService[a] \in Nat /\ a \in Int
    BY <2>1, JobsAre, FairJobsAre, FairConstantsAre DEF FairInv
  <2>3. QED
    BY <2>2
<1> HIDE DEF G, load
<1>3. ASSUME NEW a \in S, NEW b \in S, a # b PROVE <<a, b>> \in G \/ <<b, a>> \in G
  <2>1. load(a)[3] # load(b)[3] /\ 3 \in 1..3 /\ 3 \in Nat
    BY <1>2, <1>3
  <2>2. Fair!Exceeds(load(a), load(b)) \/ Fair!Exceeds(load(b), load(a))
    BY <1>2, <2>1, OneExceeds
  <2>3. QED
    BY <1>1, <2>2
<1>4. ASSUME NEW a \in S, NEW b \in S, NEW c \in S, <<a, b>> \in G, <<b, c>> \in G PROVE <<a, c>> \in G
  <2>1. Fair!Exceeds(load(b), load(a)) /\ Fair!Exceeds(load(c), load(b))
    BY <1>1, <1>4
  <2>2. Fair!Exceeds(load(c), load(a))
    <3>1. 3 \in Nat
      OBVIOUS
    <3>2. QED
      BY <1>2, <2>1, <3>1, ExceedsOn
  <2>3. QED
    BY <1>1, <2>2
<1>5. HasFirst(G, S)
  <2>1. AgentCount \in Nat /\ S \subseteq 1..AgentCount
    BY FairConstantsAre, FairJobsAre
  <2>2. Orders(G, S)
    BY <1>3, <1>4 DEF Orders
  <2>3. QED
    BY <2>1, <2>2, Foremost
<1>6. \E a \in S : \A b \in S \ {a} : Fair!Exceeds(load(b), load(a))
  BY <1>1, <1>5 DEF HasFirst
<1>7. Fair!LeastBusy(js, S) = CHOOSE a \in S : \A b \in S \ {a} : Fair!Exceeds(load(b), load(a))
  BY CardinalityIs DEF Fair!LeastBusy, load
<1>8. QED
  BY <1>6, <1>7
---------------------------------------------------------------------------
(* The dispatches remembered.                                              *)
LEMMA NoneRemembered ==
  ASSUME FairInv, NEW id \in DispatchIds, NEW agents \in SUBSET Fair!Agents, NEW t \in Fair!Times,
         Fair!Remember(Fair!Request(id, agents, t), Fair!NoLease), fairFence' = fairFence
  PROVE  FairOperationsOK' /\ Returned' = Returned
<1>1. Fair!Request(id, agents, t) \in [id : DispatchIds, agents : SUBSET Fair!Agents, now : Fair!Times]
  BY DEF Fair!Request
<1>2. Returned' = Returned
  BY DEF Returned, Fair!Remember
<1>3. QED
  BY <1>1, <1>2, FairNoLeaseIs DEF FairInv, FairOperationsOK, Fair!Remember

LEMMA OneRemembered ==
  ASSUME FairInv, NEW id \in DispatchIds, NEW agents \in SUBSET Fair!Agents, NEW t \in Fair!Times, NEW l \in Fair!Leases,
         Fair!Remember(Fair!Request(id, agents, t), l), l # Fair!NoLease, l.fence = fairFence + 1, fairFence' = fairFence + 1
  PROVE  FairOperationsOK' /\ (Cardinality(Returned') = fairFence' => Cardinality(Returned) = fairFence)
<1> DEFINE o == [request |-> Fair!Request(id, agents, t), lease |-> l]
<1>1. o \in [request : [id : DispatchIds, agents : SUBSET Fair!Agents, now : Fair!Times], lease : Fair!Leases]
  BY DEF Fair!Request
<1>2. fairOperations' = fairOperations \cup {o} /\ o.lease = l
  BY DEF Fair!Remember
<1> HIDE DEF o
<1>3. /\ IsFiniteSet(Returned) /\ Cardinality(Returned) \in Nat /\ fairFence \in Nat
      /\ Cardinality(Returned) <= fairFence /\ \A p \in Returned : p.lease.fence <= fairFence /\ p.lease.fence \in Nat
  BY FS_CardinalityType DEF FairInv, FairOperationsOK, Returned, Fair!Leases
<1>4. Returned' = Returned \cup {o} /\ o \notin Returned
  BY <1>2, <1>3 DEF Returned
<1>5. IsFiniteSet(Returned \cup {o}) /\ Cardinality(Returned \cup {o}) = Cardinality(Returned) + 1
  BY <1>3, <1>4, FS_AddElement
<1>6. Cardinality(Returned') = Cardinality(Returned) + 1 /\ IsFiniteSet(Returned')
  BY <1>4, <1>5
<1>7. \A p \in Returned' : p.lease.fence <= fairFence + 1
  BY <1>2, <1>3, <1>4
<1>8. FairOperationsOK'
  <2>1. Cardinality(Returned') <= fairFence'
    BY <1>3, <1>6
  <2>2. QED
    BY <1>1, <1>2, <1>6, <1>7, <2>1 DEF FairInv, FairOperationsOK
<1>9. QED
  BY <1>3, <1>6, <1>8

(* A dispatch that raised after it took a fence.                           *)
LEMMA FenceTaken ==
  ASSUME FairInv, fairOperations' = fairOperations, fairFence' = fairFence + 1
  PROVE  FairOperationsOK' /\ Cardinality(Returned') # fairFence'
<1>1. /\ IsFiniteSet(Returned) /\ Cardinality(Returned) \in Nat /\ fairFence \in Nat
      /\ Cardinality(Returned) <= fairFence /\ \A p \in Returned : p.lease.fence <= fairFence /\ p.lease.fence \in Nat
  BY FS_CardinalityType DEF FairInv, FairOperationsOK, Returned, Fair!Leases
<1>2. Returned' = Returned
  BY DEF Returned
<1>3. Cardinality(Returned) <= fairFence + 1 /\ Cardinality(Returned) # fairFence + 1
  BY <1>1
<1>4. \A p \in Returned : p.lease.fence <= fairFence + 1
  BY <1>1
<1>5. QED
  BY <1>1, <1>2, <1>3, <1>4 DEF FairInv, FairOperationsOK
---------------------------------------------------------------------------
(* A step that starts a job.                                               *)
FairStartOf(b, n, l) == [b EXCEPT !.state = "running", !.retryAt = 0, !.attempts = n, !.lease = l]

LEMMA FairStartIs ==
  ASSUME NEW k \in Fair!Jobs, NEW f \in Nat, NEW b, FairOK(k, b, f), b.state = "queued", NEW l \in Fair!Leases,
         l # Fair!NoLease, l.job = k, l.agent \in Fair!Agents, l.fence = f + 1
  PROVE  LET c == FairStartOf(b, b.attempts + 1, l) IN
         FairOK(k, c, f + 1) /\ c.state = "running" /\ c.attempts = b.attempts + 1 /\ c.lease = l
<1> DEFINE n == b.attempts + 1
           c == FairStartOf(b, n, l)
<1>1. b \in FairRecords /\ b.attempts \in Nat /\ b.attempts = b.retries /\ n \in Nat
  BY DEF FairOK, FairRecords
<1> HIDE DEF n
<1>2. c \in FairRecords /\ c.state = "running" /\ c.attempts = n /\ c.retries = b.retries /\ c.lease = l
  BY <1>1 DEF FairRecords, Fair!States, FairStartOf
<1> HIDE DEF c
<1>3. n = b.retries + 1 /\ l.fence \in 1..(f + 1) /\ b.retries <= RetryBudget[k]
  BY <1>1 DEF n, FairOK
<1>4. FairOK(k, c, f + 1)
  BY <1>2, <1>3 DEF FairOK, InHand
<1>5. QED
  BY <1>2, <1>4 DEF c, n

LEMMA FairOneStarted ==
  ASSUME FairInv, fairNow' \in Fair!Times, NEW kept, NEW left, NEW free, Taken(kept, left, free),
         NEW j \in Fair!Jobs, kept[j].state = "queued",
         NEW c, FairOK(j, c, fairFence + 1), c.state = "running", c.attempts = kept[j].attempts + 1, c.lease.fence = fairFence + 1,
         c.lease # Fair!NoLease,
         fairJobs' = [kept EXCEPT ![j] = c], fairFence' = fairFence + 1, FairOperationsOK',
         fairAvailable' \in Nat, slots' \in [Fair!Agents -> Nat], service' \in [Fair!Jobs -> Nat], agentService' \in [Fair!Agents -> Nat],
         Cardinality(Returned') = fairFence' =>
           /\ Cardinality(Returned) = fairFence
           /\ fairAvailable' = left - FairNeeds[j]
           /\ slots' = [free EXCEPT ![c.lease.agent] = free[c.lease.agent] - 1]
  PROVE  FairInv' /\ Fair!Lifecycle!Next
<1>1. /\ kept \in [Fair!Jobs -> FairRecords] /\ left \in Nat /\ free \in [Fair!Agents -> Nat] /\ fairFence \in Nat
      /\ \A k \in Fair!Jobs : FairOK(k, kept[k], fairFence) /\ FairGoes(k, fairJobs[k], kept[k])
  BY DEF Taken, FairInv
<1>2. fairJobs'[j] = c /\ \A k \in Fair!Jobs \ {j} : fairJobs'[k] = kept[k]
  BY <1>1
<1>3. \A k \in Fair!Jobs : FairOK(k, fairJobs'[k], fairFence + 1)
  <2>1. \A k \in Fair!Jobs : FairOK(k, kept[k], fairFence + 1)
    BY <1>1 DEF FairOK
  <2>2. QED
    BY <1>2, <2>1
<1>4. fairJobs' \in [Fair!Jobs -> FairRecords]
  BY <1>1 DEF FairOK
<1>5. \A k \in Fair!Jobs : fairJobs[k].state \in Fair!Terminal => k # j /\ fairJobs'[k].state = fairJobs[k].state
  BY <1>1, <1>2 DEF FairGoes, Fair!Terminal
<1>6. \A k \in Fair!Jobs : FairAwaited(fairJobs, k) => FairAwaited(fairJobs', k)
  BY <1>5, FairConstantsAre DEF FairAwaited, Fair!Terminal
<1>7. FairAwaited(fairJobs, j) /\ \A k \in Fair!Jobs : fairJobs'[k].state \in InHand \cup {"queued"} => FairAwaited(fairJobs', k)
  <2>1. FairAwaited(fairJobs, j)
    BY <1>1 DEF FairInv, FairGoes
  <2>2. \A k \in Fair!Jobs \ {j} : kept[k].state \in InHand \cup {"queued"} => FairAwaited(fairJobs, k)
    BY <1>1 DEF FairInv, FairGoes
  <2>3. QED
    BY <1>2, <1>6, <2>1, <2>2
<1>8. kept[j].lease = Fair!NoLease
  BY <1>1 DEF FairOK, InHand
<1>9. ASSUME Cardinality(Returned') = fairFence'
      PROVE  Balanced(fairJobs', fairAvailable', slots')
  <2> DEFINE a == c.lease.agent
  <2>1. Balanced(kept, left, free)
    BY <1>9 DEF Taken, FairInv
  <2>2. fairAvailable' = left - FairNeeds[j] /\ slots' = [free EXCEPT ![a] = free[a] - 1] /\ a \in Fair!Agents
    BY <1>9 DEF FairOK
  <2>3. fairAvailable' + Sum(FairNeeds, FairHeld(fairJobs')) = FairCapacity
    <3>1. FairHeld(fairJobs') = FairHeld(kept) \cup {j} /\ FairHeld(kept) \cap {j} = {} /\ FairHeld(kept) \in SUBSET Jobs
      BY <1>2, <1>8, FairJobsAre DEF FairHeld
    <3>2. j \in Jobs /\ {j} \in SUBSET Jobs
      BY FairJobsAre
    <3>3. Sum(FairNeeds, FairHeld(kept) \cup {j}) = Sum(FairNeeds, FairHeld(kept)) + Sum(FairNeeds, {j})
      BY <3>1, <3>2, SumsAdd, FairConstantsAre
    <3>4. Sum(FairNeeds, {j}) = FairNeeds[j] /\ FairNeeds[j] \in Nat /\ Sum(FairNeeds, FairHeld(kept)) \in Nat
      BY <3>1, <3>2, SumOfOne, UnitsAreFinite, FairConstantsAre DEF IsAmount
    <3>5. left + Sum(FairNeeds, FairHeld(kept)) = FairCapacity
      BY <2>1 DEF Balanced
    <3>6. Sum(FairNeeds, FairHeld(fairJobs')) = Sum(FairNeeds, FairHeld(kept)) + FairNeeds[j]
      BY <3>1, <3>3, <3>4
    <3>7. QED
      BY <1>1, <2>2, <3>4, <3>5, <3>6
  <2>4. ASSUME NEW b \in Fair!Agents
        PROVE  slots'[b] + Cardinality(FairHeldOn(fairJobs', b)) = AgentSlots[b]
    <3>1. free[b] + Cardinality(FairHeldOn(kept, b)) = AgentSlots[b] /\ free[b] \in Nat
      BY <1>1, <2>1 DEF Balanced
    <3>2. CASE b # a
      <4>1. FairHeldOn(fairJobs', b) = FairHeldOn(kept, b)
        BY <1>2, <1>8, <3>2 DEF FairHeldOn
      <4>2. slots'[b] = free[b]
        BY <1>1, <2>2, <3>2
      <4>3. QED
        BY <3>1, <4>1, <4>2
    <3>3. CASE b = a
      <4>1. FairHeldOn(fairJobs', b) = FairHeldOn(kept, b) \cup {j} /\ j \notin FairHeldOn(kept, b)
        BY <1>2, <1>8, <3>3 DEF FairHeldOn
      <4>2. slots'[b] = free[b] - 1
        BY <1>1, <2>2, <3>3
      <4>3. IsFiniteSet(FairHeldOn(kept, b)) /\ Cardinality(FairHeldOn(kept, b)) \in Nat
        BY HeldOnAre
      <4>4. Cardinality(FairHeldOn(kept, b) \cup {j}) = Cardinality(FairHeldOn(kept, b)) + 1
        BY <4>1, <4>3, FS_AddElement
      <4>5. Cardinality(FairHeldOn(fairJobs', b)) = Cardinality(FairHeldOn(kept, b)) + 1
        BY <4>1, <4>4
      <4>6. QED
        BY <3>1, <4>2, <4>3, <4>5
    <3>4. QED
      BY <3>2, <3>3
  <2>5. QED
    BY <2>3, <2>4 DEF Balanced
<1>10. FairInv'
  <2>1. fairFence' \in Nat /\ \A k \in Fair!Jobs : FairOK(k, fairJobs'[k], fairFence')
    BY <1>1, <1>3
  <2>2. QED
    BY <2>1, <1>4, <1>7, <1>9 DEF FairInv
<1>11. Fair!Lifecycle!Next
  <2> DEFINE holder   == [k \in Fair!Jobs |-> fairJobs[k].lease.fence]
             attempts == [k \in Fair!Jobs |-> fairJobs[k].attempts]
             over     == {k \in Fair!Jobs : fairJobs[k].state \in Fair!Terminal}
  <2>1. /\ over \subseteq {k \in Fair!Jobs : fairJobs'[k].state \in Fair!Terminal}
        /\ {k \in Fair!Jobs : fairJobs[k].state = "succeeded"} =
             {k \in Fair!Jobs : fairJobs'[k].state = "succeeded"} \cap over
        /\ {k \in Fair!Jobs : fairJobs'[k].state = "succeeded"} \subseteq {k \in Fair!Jobs : fairJobs'[k].state \in Fair!Terminal}
    BY <1>5 DEF Fair!Terminal
  <2>2. \A k \in {i \in Fair!Jobs : fairJobs'[i].state \in Fair!Terminal} : holder'[k] = 0
    BY <1>3, FairNoLeaseIs DEF FairOK, Fair!Terminal, InHand
  <2>3. \A k \in Fair!Jobs : kept[k].attempts = fairJobs[k].attempts
    BY <1>1 DEF FairGoes
  <2>4. attempts' = [attempts EXCEPT ![j] = attempts[j] + 1]
    <3>1. \A k \in Fair!Jobs : fairJobs'[k].attempts = IF k = j THEN fairJobs[j].attempts + 1 ELSE fairJobs[k].attempts
      BY <1>2, <2>3
    <3>2. QED
      BY <3>1
  <2>5. \A k \in Fair!Jobs \ {j} : holder'[k] \in {holder[k], 0}
    BY <1>1, <1>2, FairNoLeaseIs DEF FairGoes
  <2>6. j \notin over /\ j \notin over' /\ holder'[j] = fairFence'
    BY <1>2, <1>5 DEF Fair!Terminal
  <2>7. attempts[j] < [k \in Fair!Jobs |-> RetryBudget[k] + 1][j]
    <3>1. kept[j].attempts = kept[j].retries /\ kept[j].retries <= RetryBudget[j] /\ kept[j].retries \in Nat /\ RetryBudget[j] \in Nat
      BY <1>1, FairConstantsAre DEF FairOK, FairRecords
    <3>2. QED
      BY <2>3, <3>1
  <2>8. FairDependencies[j] \subseteq {k \in Fair!Jobs : fairJobs[k].state = "succeeded"}
    BY <1>7, FairConstantsAre DEF FairAwaited
  <2>9. Fair!Lifecycle!Start(j)
    BY <2>4, <2>6, <2>7, <2>8 DEF Fair!Lifecycle!Start
  <2>10. \A k \in Fair!Jobs \ {j} : Fair!Lifecycle!KeepOrLose(k)
    BY <2>5 DEF Fair!Lifecycle!KeepOrLose
  <2>11. QED
    BY <2>1, <2>2, <2>9, <2>10 DEF Fair!Lifecycle!Next
<1>12. QED
  BY <1>10, <1>11
---------------------------------------------------------------------------
(* What aging is worth.                                                    *)
LEMMA QuotientIs ==
  ASSUME NEW A \in Nat, A > 0, NEW d \in Int
  PROVE  d \div A \in Int /\ A * (d \div A) <= d /\ d < A * (d \div A) + A
<1>1. d \div A \in Int
  OBVIOUS
<1>2. d = A * (d \div A) + (d % A) /\ (d % A) \in 0..A - 1
  OBVIOUS
<1>3. QED
  BY <1>1, <1>2

LEMMA TimesIsMonotone ==
  ASSUME NEW A \in Nat, NEW x \in Int, NEW y \in Int, x <= y
  PROVE  A * x <= A * y /\ A * x \in Int /\ A * y \in Int
OBVIOUS

LEMMA AgingIsWorth ==
  ASSUME NEW A \in Nat, A > 0, NEW p \in Int, NEW q \in Int, NEW u \in Int, NEW v \in Int, NEW t \in Int,
         p + (t - u) \div A >= q + (t - v) \div A
  PROVE  u < v + A * (p - q + 1)
<1> DEFINE x == (t - u) \div A
           y == (t - v) \div A
<1>1. x \in Int /\ A * x <= t - u
  BY QuotientIs
<1>2. y \in Int /\ t - v < A * y + A
  BY QuotientIs
<1>3. p + x >= q + y
  OBVIOUS
<1> HIDE DEF x, y
<1>4. y + 1 - x \in Int /\ p - q + 1 \in Int /\ y + 1 - x <= p - q + 1
  BY <1>1, <1>2, <1>3
<1>5. A * (y + 1 - x) <= A * (p - q + 1) /\ A * (y + 1 - x) \in Int /\ A * (p - q + 1) \in Int
  BY <1>4, TimesIsMonotone
<1>6. A * (y + 1 - x) = A * y + A - A * x /\ A * x \in Int /\ A * y \in Int
  BY <1>1, <1>2
<1>7. u - v < A * (y + 1 - x)
  <2>1. u - v < (A * y + A) - A * x
    BY <1>1, <1>2, <1>6
  <2>2. QED
    BY <1>6, <2>1
<1>8. QED
  BY <1>5, <1>7

LEMMA ExceedsAtFirst ==
  ASSUME NEW p \in [1..6 -> Int], NEW q \in [1..6 -> Int], Fair!Exceeds(p, q)
  PROVE  p[1] >= q[1]
<1>1. PICK i \in 1..6 : p[i] > q[i] /\ \A h \in 1..i - 1 : p[h] = q[h]
  BY DEF Fair!Exceeds
<1>2. p[1] \in Int /\ q[1] \in Int
  OBVIOUS
<1>3. CASE i = 1
  BY <1>1, <1>2, <1>3
<1>4. CASE i > 1
  <2>1. 1 \in 1..i - 1
    BY <1>4
  <2>2. QED
    BY <1>1, <1>2, <2>1
<1>5. QED
  BY <1>3, <1>4

(* A job that is started is overtaken by none that aging keeps behind it.  *)
LEMMA OvertakesNone ==
  ASSUME FairInv, NEW t \in Fair!Times, fairNow' = t, NEW kept, kept = FairKept(Ready(t), t),
         NEW agents \in SUBSET Fair!Agents, NEW S \in SUBSET Fair!Jobs,
         S = {k \in Fair!Jobs : Fair!IsDue(kept, k, t) /\ Fair!Able(kept, Free(t), k) \cap agents # {}},
         NEW j \in S, j = Fair!First(kept, S, t), NEW c, fairJobs' = [kept EXCEPT ![j] = c], c.lease.agent \in agents
  PROVE  Fair!NobodyIsOvertaken
<1>1. /\ Taken(kept, Left(t), Free(t))
      /\ \A k \in Fair!Jobs : kept[k].state \in InHand => kept[k] = fairJobs[k]
      /\ \A k \in Fair!Jobs : fairJobs[k].state = "queued" /\ (kept[k].state = "queued" \/ FairDeadline[k] >= t) => kept[k] = fairJobs[k]
  BY KeptTaken
<1>2. kept \in [Fair!Jobs -> FairRecords] /\ \A k \in Fair!Jobs : kept[k].attempts = fairJobs[k].attempts /\ fairJobs[k].attempts \in Nat
  BY <1>1 DEF Taken, FairGoes, FairInv, FairRecords
<1>3. fairJobs'[j] = c /\ \A k \in Fair!Jobs \ {j} : fairJobs'[k] = kept[k]
  BY <1>2
<1>4. SUFFICES ASSUME NEW k \in Fair!Jobs, fairJobs[j].state = "queued", Fair!CouldRunOn(k, c.lease.agent)
               PROVE  fairJobs[j].queuedAt < fairJobs[k].queuedAt + AgingQuantum * (FairPriority[j] - FairPriority[k] + 1)
  <2>1. ASSUME NEW i \in Fair!Jobs, Fair!Started(i) PROVE i = j
    BY <1>2, <1>3, <2>1 DEF Fair!Started
  <2>2. QED
    BY <1>3, <2>1 DEF Fair!NobodyIsOvertaken
<1>5. kept[j].state = "queued" /\ kept[j] = fairJobs[j]
  <2>1. kept[j].state = "queued"
    BY DEF Fair!IsDue
  <2>2. QED
    BY <1>1, <1>4, <2>1
<1>6. /\ fairJobs[k].state = "queued" /\ fairJobs[k].retryAt <= t /\ FairDeadline[k] >= t
      /\ c.lease.agent \in Fair!Able(fairJobs, slots, k)
  BY <1>4 DEF Fair!CouldRunOn
<1>7. kept[k] = fairJobs[k]
  BY <1>1, <1>6
<1>8. c.lease.agent \in Fair!Able(kept, Free(t), k)
  <2> DEFINE a == c.lease.agent
  <2>1. a \in Eligible[k] /\ a \in Fair!Agents /\ slots[a] > 0 /\ FairNeeds[k] <= AgentCapacity[a]
        /\ Cardinality(Fair!RunningOn(fairJobs, a)) < AgentQuota[a]
    BY <1>6, FairConstantsAre, CardinalityIs DEF Fair!Able
  <2> HIDE DEF a
  <2>2. Free(t)[a] > 0
    <3>1. Free(t)[a] = slots[a] + Cardinality({i \in Fair!Overdue(t) : fairJobs[i].lease.agent = a})
      BY <2>1, CardinalityIs DEF Free, Fair!SlotsBack, Fair!LeasedOn
    <3>2. {i \in Fair!Overdue(t) : fairJobs[i].lease.agent = a} \in SUBSET Jobs
      BY FairJobsAre DEF Fair!Overdue, Fair!Leased
    <3>3. Cardinality({i \in Fair!Overdue(t) : fairJobs[i].lease.agent = a}) \in Nat
      BY <3>2, JobsAre
    <3>4. slots[a] \in Nat
      BY <2>1 DEF FairInv
    <3>5. QED
      BY <2>1, <3>1, <3>3, <3>4
  <2>3. Cardinality(Fair!RunningOn(kept, a)) <= Cardinality(Fair!RunningOn(fairJobs, a))
    <3>1. Fair!RunningOn(kept, a) \subseteq Fair!RunningOn(fairJobs, a)
      BY <1>1 DEF Fair!RunningOn, Fair!Running, InHand
    <3>2. Fair!RunningOn(fairJobs, a) \in SUBSET Jobs
      BY FairJobsAre DEF Fair!RunningOn, Fair!Running
    <3>3. IsFiniteSet(Fair!RunningOn(fairJobs, a))
      BY <3>2, JobsAre
    <3>4. QED
      BY <3>1, <3>3, FS_Subset
  <2>4. Cardinality(Fair!RunningOn(kept, a)) < AgentQuota[a]
    <3>1. Fair!RunningOn(kept, a) \in SUBSET Jobs /\ Fair!RunningOn(fairJobs, a) \in SUBSET Jobs
      BY FairJobsAre DEF Fair!RunningOn, Fair!Running
    <3>2. Cardinality(Fair!RunningOn(kept, a)) \in Nat /\ Cardinality(Fair!RunningOn(fairJobs, a)) \in Nat
      BY <3>1, JobsAre
    <3>3. AgentQuota[a] \in Nat
      BY <2>1, FairConstantsAre
    <3>4. QED
      BY <2>1, <2>3, <3>2, <3>3
  <2>5. QED
    BY <2>1, <2>2, <2>4, CardinalityIs DEF Fair!Able, a
<1>9. k \in S
  BY <1>6, <1>7, <1>8 DEF Fair!IsDue
<1>10. /\ FairPriority[j] \in Int /\ FairPriority[k] \in Int /\ fairJobs[j].queuedAt \in Int /\ fairJobs[k].queuedAt \in Int
       /\ t \in Int /\ AgingQuantum \in Nat /\ AgingQuantum > 0
  BY FairConstantsAre DEF FairInv, FairRecords, Fair!Times
<1>11. CASE k = j
  BY <1>10, <1>11
<1>12. CASE k # j
  <2>1. Fair!Exceeds(Fair!Score(kept, j, t), Fair!Score(kept, k, t))
    BY <1>2, <1>9, <1>12, FairFirstIs
  <2>2. Fair!Score(kept, j, t)[1] >= Fair!Score(kept, k, t)[1]
    BY <1>2, <2>1, ScoreIs, ExceedsAtFirst
  <2>3. FairPriority[j] + (t - fairJobs[j].queuedAt) \div AgingQuantum >= FairPriority[k] + (t - fairJobs[k].queuedAt) \div AgingQuantum
    BY <1>2, <1>5, <1>7, <2>2, ScoreIs
  <2>4. QED
    BY <1>10, <2>3, AgingIsWorth
<1>13. QED
  BY <1>11, <1>12
---------------------------------------------------------------------------
(* As above, when dispatch reserved what the job needs.                    *)
LEMMA FairOneReserved ==
  ASSUME FairInv, fairNow' \in Fair!Times, NEW kept, NEW left, NEW free, Taken(kept, left, free),
         NEW j \in Fair!Jobs, kept[j].state = "queued", NEW a,
         NEW c, FairOK(j, c, fairFence + 1), c.state = "running", c.attempts = kept[j].attempts + 1, c.lease.fence = fairFence + 1,
         c.lease # Fair!NoLease, c.lease.agent = a,
         fairJobs' = [kept EXCEPT ![j] = c], fairFence' = fairFence + 1, FairOperationsOK',
         Cardinality(Returned') = fairFence' => Cardinality(Returned) = fairFence,
         fairAvailable' \in Nat, slots' \in [Fair!Agents -> Nat], service' \in [Fair!Jobs -> Nat], agentService' \in [Fair!Agents -> Nat],
         fairAvailable' = left - FairNeeds[j], slots' = [free EXCEPT ![a] = free[a] - 1]
  PROVE  FairInv' /\ Fair!Lifecycle!Next
<1>1. slots' = [free EXCEPT ![c.lease.agent] = free[c.lease.agent] - 1]
  OBVIOUS
<1>2. Cardinality(Returned') = fairFence' =>
        /\ Cardinality(Returned) = fairFence
        /\ fairAvailable' = left - FairNeeds[j]
        /\ slots' = [free EXCEPT ![c.lease.agent] = free[c.lease.agent] - 1]
  BY <1>1
<1>3. QED
  BY <1>2, FairOneStarted

LEMMA FairDispatchIs ==
  ASSUME FairInv, NEW id \in DispatchIds, NEW agents \in SUBSET Fair!Agents, NEW t \in Fair!Times, Fair!Dispatch(id, agents, t)
  PROVE  FairInv' /\ Fair!NobodyIsOvertaken /\ Fair!Lifecycle!Next
<1> DEFINE req   == Fair!Request(id, agents, t)
           kept  == FairKept(Ready(t), t)
           able(k) == Fair!Able(kept, Free(t), k) \cap agents
           S     == {k \in Fair!Jobs : Fair!IsDue(kept, k, t) /\ able(k) # {}}
           j     == Fair!First(kept, S, t)
           a     == Fair!LeastBusy(kept, able(j))
           lease == [job |-> j, agent |-> a, fence |-> fairFence + 1, expires |-> t + LeaseSeconds]
           c     == FairStartOf(kept[j], kept[j].attempts + 1, lease)
<1> DEFINE Nothing ==
             /\ \/ fairJobs' = Fair!Advanced(t) /\ fairOperations' = fairOperations
                \/ fairJobs' = Ready(t) /\ Fair!Remember(req, Fair!NoLease)
                \/ fairJobs' = kept /\ Fair!Remember(req, Fair!NoLease)
             /\ fairAvailable' = Left(t) /\ slots' = Free(t) /\ service' = service /\ agentService' = agentService
             /\ fairFence' = fairFence
           One ==
             /\ S # {} /\ fairFence' = fairFence + 1 /\ fairJobs' = [kept EXCEPT ![j] = c]
             /\ \/ /\ Left(t) > FairNeeds[j] /\ fairAvailable' = Left(t) - FairNeeds[j]
                   /\ slots' = [Free(t) EXCEPT ![a] = Free(t)[a] - 1]
                   /\ service' = [service EXCEPT ![j] = service[j] + FairNeeds[j]]
                   /\ agentService' = [agentService EXCEPT ![a] = agentService[a] + 1]
                   /\ Fair!Remember(req, lease)
                \/ /\ fairAvailable' = Left(t) /\ slots' = Free(t) /\ service' = service /\ agentService' = agentService
                   /\ fairOperations' = fairOperations
<1>1. fairNow' = t /\ (Nothing \/ One)
  <2> DEFINE ready  == Fair!AllReadied(Fair!Advanced(t), t)
             keeps  == [k \in Fair!Jobs |-> IF Fair!IsDue(ready, k, t) /\ FairDeadline[k] < t
                                            THEN [ready[k] EXCEPT !.state = "failed"] ELSE ready[k]]
             left   == Fair!ResourcesBack(Fair!Overdue(t))
             free   == Fair!SlotsBack(Fair!Overdue(t))
             ables(k) == Fair!Able(keeps, free, k) \cap agents
             wait   == {k \in Fair!Jobs : Fair!IsDue(keeps, k, t) /\ ables(k) # {}}
             first  == Fair!First(keeps, wait, t)
             to     == Fair!LeastBusy(keeps, ables(first))
             given  == [job |-> first, agent |-> to, fence |-> fairFence + 1, expires |-> t + LeaseSeconds]
  <2>1. ready = Ready(t) /\ left = Left(t) /\ free = Free(t)
    BY DEF Ready, Left, Free
  <2>2. keeps = kept
    BY <2>1 DEF FairKept, FairLate, FairFailed
  <2>3. wait = S
    BY <2>1, <2>2
  <2>4. first = j
    BY <2>2, <2>3
  <2>5. to = a
    BY <2>1, <2>2, <2>4
  <2>6. given = lease
    BY <2>4, <2>5
  <2>7. /\ fairNow' = t
        /\ \/ /\ \/ fairJobs' = Fair!Advanced(t) /\ fairOperations' = fairOperations
                 \/ fairJobs' = ready /\ Fair!Remember(req, Fair!NoLease)
                 \/ fairJobs' = keeps /\ Fair!Remember(req, Fair!NoLease)
              /\ fairAvailable' = left /\ slots' = free /\ service' = service /\ agentService' = agentService
              /\ fairFence' = fairFence
           \/ /\ wait # {} /\ fairFence' = fairFence + 1
              /\ fairJobs' = [keeps EXCEPT ![first] = [keeps[first] EXCEPT !.state = "running", !.retryAt = 0,
                                                       !.attempts = keeps[first].attempts + 1, !.lease = given]]
              /\ \/ /\ left > FairNeeds[first] /\ fairAvailable' = left - FairNeeds[first]
                    /\ slots' = [free EXCEPT ![to] = free[to] - 1]
                    /\ service' = [service EXCEPT ![first] = service[first] + FairNeeds[first]]
                    /\ agentService' = [agentService EXCEPT ![to] = agentService[to] + 1]
                    /\ Fair!Remember(req, given)
                 \/ /\ fairAvailable' = left /\ slots' = free /\ service' = service /\ agentService' = agentService
                    /\ fairOperations' = fairOperations
    BY Zenon DEF Fair!Dispatch
  <2> HIDE DEF ready, keeps, left, free, wait, first, to, given
  <2>8. QED
    BY <2>1, <2>2, <2>3, <2>4, <2>5, <2>6, <2>7 DEF FairStartOf
<1>2. Taken(Fair!Advanced(t), Left(t), Free(t)) /\ Taken(Ready(t), Left(t), Free(t)) /\ Taken(kept, Left(t), Free(t))
  BY AdvancedTaken, ReadyTaken, KeptTaken DEF Left, Free
<1>3. CASE Nothing
  <2>1. Taken(fairJobs', fairAvailable', slots')
    BY <1>2, <1>3
  <2>2. FairOperationsOK' /\ Returned' = Returned
    BY <1>3, SameOperations, NoneRemembered
  <2>3. QED
    BY <1>1, <1>3, <2>1, <2>2, FairNoneStarted
<1>4. CASE One
  <2>1. /\ kept \in [Fair!Jobs -> FairRecords] /\ Left(t) \in Nat /\ Free(t) \in [Fair!Agents -> Nat] /\ fairFence \in Nat
        /\ \A k \in Fair!Jobs : FairOK(k, kept[k], fairFence)
    BY <1>2 DEF Taken, FairInv
  <2>2. S \in SUBSET Fair!Jobs /\ S # {} /\ j \in S
    <3>1. S \in SUBSET Fair!Jobs /\ S # {}
      BY <1>4
    <3> HIDE DEF S, kept
    <3>2. QED
      BY <2>1, <3>1, FairFirstIs
  <2>3. j \in Fair!Jobs /\ kept[j].state = "queued" /\ able(j) # {} /\ able(j) \in SUBSET Fair!Agents
    <3>1. j \in Fair!Jobs /\ Fair!IsDue(kept, j, t) /\ able(j) # {}
      <4> HIDE DEF j, able
      <4>1. QED
        BY <2>2
    <3> HIDE DEF j, kept
    <3>2. able(j) \in SUBSET Fair!Agents
      BY <3>1, FairConstantsAre DEF Fair!Able
    <3>3. QED
      BY <3>1, <3>2 DEF Fair!IsDue
  <2> HIDE DEF S, kept, j
  <2>4. a \in able(j)
    <3> HIDE DEF able
    <3>1. QED
      BY <2>3, LeastBusyIs
  <2>5. a \in Fair!Agents /\ a \in agents /\ Free(t)[a] > 0
    BY <2>3, <2>4 DEF Fair!Able
  <2> HIDE DEF a
  <2>6. /\ lease \in Fair!Leases /\ lease # Fair!NoLease /\ lease.job = j /\ lease.agent = a /\ lease.fence = fairFence + 1
    <3>1. t + LeaseSeconds \in Nat /\ fairFence + 1 \in Nat /\ j \in 0..JobCount /\ a \in 0..AgentCount
      <4>1. t + LeaseSeconds \in Nat
        BY FairConstantsAre DEF Fair!Times
      <4>2. fairFence + 1 \in Nat
        BY <2>1
      <4>3. j \in 0..JobCount
        BY <2>3, FairConstantsAre, FairJobsAre DEF Jobs
      <4>4. a \in 0..AgentCount
        BY <2>5, FairConstantsAre, FairJobsAre
      <4>5. QED
        BY <4>1, <4>2, <4>3, <4>4
    <3>2. lease \in Fair!Leases /\ lease.job = j /\ lease.agent = a /\ lease.fence = fairFence + 1
      BY <3>1 DEF Fair!Leases
    <3>3. QED
      BY <2>1, <3>2, FairNoLeaseIs
  <2> HIDE DEF lease
  <2>7. FairOK(j, c, fairFence + 1) /\ c.state = "running" /\ c.attempts = kept[j].attempts + 1 /\ c.lease = lease
    BY <2>1, <2>3, <2>5, <2>6, FairStartIs
  <2> HIDE DEF c
  <2>8. Fair!NobodyIsOvertaken
    <3>1. kept = FairKept(Ready(t), t) /\ j = Fair!First(kept, S, t) /\ fairJobs' = [kept EXCEPT ![j] = c]
          /\ c.lease.agent \in agents
      BY <1>4, <2>5, <2>6, <2>7 DEF kept, j
    <3>2. S = {k \in Fair!Jobs : Fair!IsDue(kept, k, t) /\ Fair!Able(kept, Free(t), k) \cap agents # {}}
      BY DEF S
    <3> HIDE DEF able
    <3>3. QED
      BY <1>1, <2>2, <3>1, <3>2, OvertakesNone
  <2>9. FairNeeds[j] \in Nat /\ service[j] \in Nat /\ agentService[a] \in Nat /\ service \in [Fair!Jobs -> Nat]
        /\ agentService \in [Fair!Agents -> Nat]
    BY <2>3, <2>5, FairConstantsAre DEF FairInv
  <2>10. CASE /\ Left(t) > FairNeeds[j] /\ fairAvailable' = Left(t) - FairNeeds[j]
              /\ slots' = [Free(t) EXCEPT ![a] = Free(t)[a] - 1]
              /\ service' = [service EXCEPT ![j] = service[j] + FairNeeds[j]]
              /\ agentService' = [agentService EXCEPT ![a] = agentService[a] + 1]
              /\ Fair!Remember(req, lease)
    <3>1. fairAvailable' \in Nat /\ slots' \in [Fair!Agents -> Nat] /\ service' \in [Fair!Jobs -> Nat] /\ agentService' \in [Fair!Agents -> Nat]
      <4>1. Free(t)[a] - 1 \in Nat /\ service[j] + FairNeeds[j] \in Nat /\ agentService[a] + 1 \in Nat /\ Left(t) - FairNeeds[j] \in Nat
        BY <2>1, <2>5, <2>9, <2>10
      <4>2. QED
        BY <2>1, <2>9, <2>10, <4>1
    <3>2. FairOperationsOK' /\ (Cardinality(Returned') = fairFence' => Cardinality(Returned) = fairFence)
      BY <1>4, <2>6, <2>10, OneRemembered
    <3>3. /\ fairNow' \in Fair!Times /\ fairJobs' = [kept EXCEPT ![j] = c] /\ fairFence' = fairFence + 1
          /\ c.lease.fence = fairFence + 1 /\ c.lease # Fair!NoLease /\ c.lease.agent = a
      BY <1>1, <1>4, <2>6, <2>7
    <3> HIDE DEF able
    <3>5. FairInv' /\ Fair!Lifecycle!Next
      BY <1>2, <2>3, <2>7, <2>10, <3>1, <3>2, <3>3, FairOneReserved
    <3>6. QED
      BY <2>8, <3>5
  <2>11. CASE /\ fairAvailable' = Left(t) /\ slots' = Free(t) /\ service' = service /\ agentService' = agentService
              /\ fairOperations' = fairOperations
    <3>1. fairAvailable' \in Nat /\ slots' \in [Fair!Agents -> Nat] /\ service' \in [Fair!Jobs -> Nat] /\ agentService' \in [Fair!Agents -> Nat]
      BY <2>1, <2>9, <2>11
    <3>2. FairOperationsOK' /\ Cardinality(Returned') # fairFence'
      BY <1>4, <2>11, FenceTaken
    <3>3. /\ fairNow' \in Fair!Times /\ fairJobs' = [kept EXCEPT ![j] = c] /\ fairFence' = fairFence + 1
          /\ c.lease.fence = fairFence + 1 /\ c.lease # Fair!NoLease
      BY <1>1, <1>4, <2>6, <2>7
    <3> HIDE DEF able
    <3>4. FairInv' /\ Fair!Lifecycle!Next
      BY <1>2, <2>3, <2>7, <3>1, <3>2, <3>3, FairOneStarted
    <3>5. QED
      BY <2>8, <3>4
  <2>12. QED
    BY <1>4, <2>10, <2>11
<1>5. QED
  BY <1>1, <1>3, <1>4
---------------------------------------------------------------------------
LEMMA FairInit ==
  ASSUME Fair!Init
  PROVE  FairInv /\ Fair!Lifecycle!Init
<1>1. /\ Fair!Absent \in FairRecords /\ Fair!Absent.lease = Fair!NoLease /\ Fair!Absent.state = "absent"
      /\ Fair!Absent.attempts = 0 /\ Fair!Absent.retries = 0
  BY FairNoLeaseIs, FairConstantsAre DEF Fair!Absent, FairRecords, Fair!States, Fair!Times
<1>2. fairJobs \in [Fair!Jobs -> FairRecords] /\ \A k \in Fair!Jobs : fairJobs[k] = Fair!Absent
  BY <1>1 DEF Fair!Init
<1>3. \A k \in Fair!Jobs : FairOK(k, fairJobs[k], fairFence)
  BY <1>1, <1>2, FairConstantsAre DEF FairOK, InHand
<1>4. FairHeld(fairJobs) = {} /\ \A a : FairHeldOn(fairJobs, a) = {}
  BY <1>1, <1>2 DEF FairHeld, FairHeldOn
<1>5. Balanced(fairJobs, fairAvailable, slots)
  <2>1. fairAvailable + Sum(FairNeeds, FairHeld(fairJobs)) = FairCapacity
    <3>1. Sum(FairNeeds, FairHeld(fairJobs)) = 0
      BY <1>4, SumOfNone
    <3>2. fairAvailable = FairCapacity /\ FairCapacity \in Nat
      BY FairConstantsAre DEF Fair!Init
    <3>3. QED
      BY <3>1, <3>2
  <2>2. ASSUME NEW a \in Fair!Agents PROVE slots[a] + Cardinality(FairHeldOn(fairJobs, a)) = AgentSlots[a]
    <3>1. Cardinality(FairHeldOn(fairJobs, a)) = 0
      BY <1>4, FS_EmptySet
    <3>2. slots[a] = AgentSlots[a] /\ AgentSlots[a] \in Nat
      BY FairConstantsAre DEF Fair!Init
    <3>3. QED
      BY <3>1, <3>2
  <2>3. QED
    BY <2>1, <2>2 DEF Balanced
<1>6. FairOperationsOK
  <2>1. Returned = {} /\ fairOperations = {} /\ fairFence = 0
    BY DEF Fair!Init, Returned
  <2>2. IsFiniteSet(Returned) /\ Cardinality(Returned) = 0
    BY <2>1, FS_EmptySet
  <2>3. QED
    BY <2>1, <2>2 DEF FairOperationsOK
<1>7. /\ fairAvailable \in Nat /\ slots \in [Fair!Agents -> Nat] /\ fairFence \in Nat /\ fairNow \in Fair!Times
      /\ service \in [Fair!Jobs -> Nat] /\ agentService \in [Fair!Agents -> Nat]
  BY FairConstantsAre DEF Fair!Init, Fair!Times
<1>8. FairInv
  BY <1>1, <1>2, <1>3, <1>5, <1>6, <1>7 DEF FairInv, InHand
<1>9. Fair!Lifecycle!Init
  BY <1>1, <1>2, FairNoLeaseIs DEF Fair!Lifecycle!Init, Fair!Init, Fair!Terminal
<1>10. QED
  BY <1>8, <1>9

(* Every step of the fair kernel.                                          *)
LEMMA FairStep ==
  ASSUME FairInv, Fair!Next
  PROVE  FairInv' /\ Fair!NobodyIsOvertaken /\ Fair!Lifecycle!Next
<1>1. ASSUME NEW j \in Fair!Jobs, Fair!Admit(j)
      PROVE  FairInv' /\ Fair!NobodyIsOvertaken /\ Fair!Lifecycle!Next
  BY <1>1, FairAdmitIs
<1>2. ASSUME NEW t \in Fair!Times, Fair!Advance(t)
      PROVE  FairInv' /\ Fair!NobodyIsOvertaken /\ Fair!Lifecycle!Next
  BY <1>2, AdvanceIs
<1>3. ASSUME NEW t \in Fair!Times, NEW id \in DispatchIds,
             NEW agents \in {Fair!Agents} \cup {{a} : a \in Fair!Agents}, Fair!Dispatch(id, agents, t)
      PROVE  FairInv' /\ Fair!NobodyIsOvertaken /\ Fair!Lifecycle!Next
  <2>1. agents \in SUBSET Fair!Agents
    OBVIOUS
  <2>2. QED
    BY <1>3, <2>1, FairDispatchIs
<1>4. ASSUME NEW t \in Fair!Times, NEW j \in Fair!Jobs, Fair!RequestCancel(j, t)
      PROVE  FairInv' /\ Fair!NobodyIsOvertaken /\ Fair!Lifecycle!Next
  BY <1>4, FairRequestCancelIs
<1>5. ASSUME NEW t \in Fair!Times, NEW j \in Fair!Jobs, NEW quoted \in Fair!Quotable(j),
             \/ Fair!Complete(j, quoted, t)
             \/ \E reason \in Fair!Reasons : Fair!Fail(j, quoted, reason, t)
             \/ Fair!AcknowledgeCancel(j, quoted, t)
             \/ Fair!Heartbeat(j, quoted, t)
      PROVE  FairInv' /\ Fair!NobodyIsOvertaken /\ Fair!Lifecycle!Next
  BY <1>5, FairCallIs, FairFailIs, FairHeartbeatIs
<1>6. QED
  BY <1>1, <1>2, <1>3, <1>4, <1>5 DEF Fair!Next

LEMMA FairStutter ==
  ASSUME FairInv, UNCHANGED fairVars
  PROVE  FairInv' /\ Fair!NobodyIsOvertaken /\ UNCHANGED Fair!Lifecycle!vars
<1>1. /\ fairJobs' = fairJobs /\ fairAvailable' = fairAvailable /\ slots' = slots /\ service' = service
      /\ agentService' = agentService /\ fairFence' = fairFence /\ fairNow' = fairNow /\ fairOperations' = fairOperations
  BY DEF fairVars
<1>2. FairOperationsOK' /\ Returned' = Returned
  BY <1>1, SameOperations
<1>3. FairInv'
  BY <1>1, <1>2 DEF FairInv, FairAwaited, Balanced, FairHeld, FairHeldOn
<1>4. \A k \in Fair!Jobs : fairJobs[k].attempts \in Nat
  BY DEF FairInv, FairRecords
<1>5. Fair!NobodyIsOvertaken
  BY <1>1, <1>4 DEF Fair!NobodyIsOvertaken, Fair!Started
<1>6. QED
  BY <1>1, <1>3, <1>5 DEF Fair!Lifecycle!vars

(* What the invariant says of the fair kernel's own properties.            *)
LEMMA FairHolds ==
  ASSUME FairInv
  PROVE  Fair!TypeOK /\ Fair!ReservationsBalance
<1>1. Fair!TypeOK
  BY DEF FairInv, Fair!TypeOK, FairOK, FairRecords, FairOperationsOK, InHand
<1>2. Fair!ReservationsBalance
  <2>1. SUFFICES ASSUME Fair!EveryDispatchReturned
                 PROVE  /\ fairAvailable + Fair!Reserved(Fair!Leased(fairJobs)) = FairCapacity
                        /\ \A a \in Fair!Agents : slots[a] + Fair!Cardinality(Fair!LeasedOn(fairJobs, Fair!Leased(fairJobs), a)) = AgentSlots[a]
    BY DEF Fair!ReservationsBalance
  <2>2. Cardinality(Returned) = fairFence
    BY <2>1, CardinalityIs DEF Fair!EveryDispatchReturned, Returned
  <2>3. Balanced(fairJobs, fairAvailable, slots)
    BY <2>2 DEF FairInv
  <2>4. Fair!Leased(fairJobs) = FairHeld(fairJobs)
    BY DEF Fair!Leased, FairHeld
  <2>5. fairAvailable + Fair!Reserved(Fair!Leased(fairJobs)) = FairCapacity
    BY <2>3, <2>4, FairReservedIs DEF Balanced
  <2>6. ASSUME NEW a \in Fair!Agents
        PROVE  slots[a] + Fair!Cardinality(Fair!LeasedOn(fairJobs, Fair!Leased(fairJobs), a)) = AgentSlots[a]
    <3>1. Fair!LeasedOn(fairJobs, Fair!Leased(fairJobs), a) = FairHeldOn(fairJobs, a)
      BY DEF Fair!Leased, Fair!LeasedOn, FairHeldOn
    <3>2. Fair!Cardinality(Fair!LeasedOn(fairJobs, Fair!Leased(fairJobs), a)) = Cardinality(FairHeldOn(fairJobs, a))
      BY <3>1, CardinalityIs
    <3>3. slots[a] + Cardinality(FairHeldOn(fairJobs, a)) = AgentSlots[a]
      BY <2>3 DEF Balanced
    <3>4. QED
      BY <3>2, <3>3
  <2>7. QED
    BY <2>5, <2>6
<1>3. QED
  BY <1>1, <1>2
---------------------------------------------------------------------------
(* Of both kernels.                                                        *)
Kernels == inUse \in {"durable", "fair"} /\ DurableInv /\ FairInv

LEMMA KernelsInit ==
  ASSUME MCInit
  PROVE  Kernels /\ Lifecycle!Init /\ Fair!Lifecycle!Init
BY DurableInit, FairInit DEF MCInit, Kernels

(* A step is one of the kernel in use, and leaves the other as it is.      *)
LEMMA KernelsStep ==
  ASSUME Kernels, [MCNext]_MCVars
  PROVE  /\ Kernels' /\ Forward /\ Fair!NobodyIsOvertaken
         /\ [Lifecycle!Next]_(Lifecycle!vars) /\ [Fair!Lifecycle!Next]_(Fair!Lifecycle!vars)
<1>1. CASE inUse = "durable" /\ Next /\ UNCHANGED <<inUse, fairVars>>
  BY <1>1, DurableStep, FairStutter DEF Kernels
<1>2. CASE inUse = "fair" /\ Fair!Next /\ UNCHANGED <<inUse, vars>>
  BY <1>2, FairStep, DurableStutter DEF Kernels
<1>3. CASE UNCHANGED MCVars
  <2>1. inUse' = inUse /\ UNCHANGED vars /\ UNCHANGED fairVars
    BY <1>3 DEF MCVars
  <2>2. QED
    BY <2>1, DurableStutter, FairStutter DEF Kernels
<1>4. QED
  BY <1>1, <1>2, <1>3 DEF MCNext

(* In either kernel what is reserved and what is left are all there is, on *)
(* every agent too, and in the durable one no tenant runs more jobs than   *)
(* its limit: dispatch reserves, and complete, fail, acknowledge_cancel,   *)
(* advance and expire_leases give back what was reserved, once.            *)
THEOREM ResourcesAreAlwaysAccounted == MCSpec => []ResourcesAreAccounted
<1>1. MCInit => Kernels
  BY KernelsInit
<1>2. Kernels /\ [MCNext]_MCVars => Kernels'
  BY KernelsStep
<1>3. Kernels => ResourcesAreAccounted
  BY DurableHolds, FairHolds DEF Kernels, ResourcesAreAccounted
<1>4. QED
  BY <1>1, <1>2, <1>3, PTL DEF MCSpec

(* A job's checkpoint never goes back, whoever works on it and however     *)
(* often it changes hands (durable_scheduler.checkpoint).                  *)
THEOREM CheckpointsAlwaysGoForward == MCSpec => CheckpointsGoForward
<1>1. MCInit => Kernels
  BY KernelsInit
<1>2. Kernels /\ [MCNext]_MCVars => Kernels' /\ [Forward]_vars
  BY KernelsStep
<1>3. QED
  BY <1>1, <1>2, PTL DEF MCSpec, CheckpointsGoForward, Forward

(* Aging bounds how long a job is overtaken in the fair kernel: one that   *)
(* came into the queue an aging quantum later for each point of priority   *)
(* it is ahead, and one more, is not dispatched to an agent that could     *)
(* have taken the first (fair_scheduler._score, dispatch).                 *)
THEOREM NobodyIsEverOvertakenLong == MCSpec => NobodyIsOvertakenLong
<1>1. MCInit => Kernels
  BY KernelsInit
<1>2. Kernels /\ [MCNext]_MCVars => Kernels' /\ Fair!NobodyIsOvertaken
  BY KernelsStep
<1>3. QED
  BY <1>1, <1>2, PTL DEF MCSpec, NobodyIsOvertakenLong

(* Either kernel implements JobLifecycle: no two leases ever have one      *)
(* fence, none taken back is revived, no job is started more often than it *)
(* may be or before what it depends on succeeded, and what is over stays   *)
(* over with the outcome it had.                                           *)
THEOREM KernelsAlwaysKeepTheLifecycle == MCSpec => KernelsKeepTheLifecycle
<1>1. MCInit => Kernels /\ Lifecycle!Init /\ Fair!Lifecycle!Init
  BY KernelsInit
<1>2. Kernels /\ [MCNext]_MCVars =>
        /\ Kernels'
        /\ IF inUse = "durable" THEN [Lifecycle!Next]_(Lifecycle!vars)
                                ELSE [Fair!Lifecycle!Next]_(Fair!Lifecycle!vars)
  BY KernelsStep
<1>3. QED
  BY <1>1, <1>2, PTL DEF MCSpec, KernelsKeepTheLifecycle

(* The durable kernel by itself implements JobLifecycle, step by step.     *)
THEOREM DurableKernelImplementsLifecycle == Spec => ImplementsLifecycle
<1>1. Init => DurableInv /\ Lifecycle!Init
  BY DurableInit
<1>2. DurableInv /\ [Next]_vars => DurableInv' /\ [Lifecycle!Next]_(Lifecycle!vars)
  BY DurableStep, DurableStutter
<1>3. QED
  BY <1>1, <1>2, PTL DEF Spec, ImplementsLifecycle, Lifecycle!Spec

(* So does the fair kernel, with one start more than the retry budget.     *)
THEOREM FairKernelImplementsLifecycle == Fair!Spec => Fair!ImplementsLifecycle
<1>1. Fair!Init => FairInv /\ Fair!Lifecycle!Init
  BY FairInit
<1>2. FairInv /\ [Fair!Next]_(Fair!vars) => FairInv' /\ [Fair!Lifecycle!Next]_(Fair!Lifecycle!vars)
  BY FairStep, FairStutter DEF Fair!vars, fairVars
<1>3. QED
  BY <1>1, <1>2, PTL DEF Fair!Spec, Fair!ImplementsLifecycle, Fair!Lifecycle!Spec
=============================================================================
