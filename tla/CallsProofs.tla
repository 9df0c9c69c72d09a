----------------------------- MODULE CallsProofs -----------------------------
(***************************************************************************)
(* Machine-checked proofs about how work is asked for and answered in the  *)
(* local runtime: the file-backed scheduler with its contractors, and the  *)
(* gates over four authorities.  They hold for any jobs, contractors,      *)
(* workers, profiles, tasks, revisions and bounds, and whichever authority *)
(* is asked over which transport.                                          *)
(*                                                                         *)
(* About the jobs (JobsInv): a job is started under the digest that its    *)
(* record has had since it was submitted, and a fence belongs to one job   *)
(* for good, so that a contractor that concludes, which names its own job  *)
(* and the fence it was given, was given its own job (CallsOK).  About the *)
(* gates (GatesInv): what was decided of an operation is exactly what is   *)
(* remembered of it (BooksOK), so that an answer in a pipe, however old,   *)
(* is one that was decided; and a call that is at a gate has been let on   *)
(* by those before it, in their order and for its own task and revision    *)
(* (Passed).                                                               *)
(***************************************************************************)
EXTENDS MCCalls, Sequences, FiniteSetTheorems, TLAPS

---------------------------------------------------------------------------
(* The scheduler's file and its callers.                                   *)
Digests == {p.digest : p \in Profiles}
Places  == {"new", "submitted", "leased", "admitted", "executed", "rejected", "accepted", "raised", "concluded"}
Calls   == [at : Places, job : Jobs \cup {None}, fence : Nat]

(* The registry was written as often as it has profiles.                   *)
Filled(profiles) == {a \in Adapters : profiles[a] # None}
RegistryOK ==
  /\ registry \in Registries \cup {None}
  /\ registry # None => registry.revision = Cardinality(Filled(registry.profiles))
  /\ opening \subseteq Openers
  /\ submitting \in [Jobs -> Profiles \cup {None}]

(* What the record r of job j says, when f is the latest fence.            *)
Recorded(j, r, f) ==
  /\ r.lease # None <=> r.state = "running"
  /\ r.lease # None => r.lease.fence \in 1..f
  /\ r.attempts <= JobSpec[j].retries + 1
  /\ r.state \in {"waiting", "queued"} => r.attempts <= JobSpec[j].retries
  /\ r.state \in {"running", "done", "failed"} => r.attempts > 0

JobsOK ==
  /\ fence \in Nat
  /\ jobs \in [Jobs -> Records \cup {None}]
  /\ started \in [Jobs -> Digests \cup {None}]
  /\ \A j \in Jobs : jobs[j] # None =>
       /\ Recorded(j, jobs[j], fence)
       /\ jobs[j].state # "waiting" => \A d \in JobSpec[j].needs : Done(d)
  /\ \A j \in Jobs : started[j] # None => jobs[j] # None /\ started[j] = jobs[j].digest
  /\ Cardinality(Running) <= MaxConcurrency

(* The fence that a contractor was given belongs to the job it was given.  *)
CallsOK ==
  /\ calls \in [Contractors -> Calls]
  /\ \A c \in Contractors :
       /\ calls[c].fence <= fence
       /\ \A j \in Running : jobs[j].lease.fence = calls[c].fence => calls[c].job = j
       /\ At(c, "concluded") => calls[c].job = c

JobsInv == RegistryOK /\ JobsOK /\ CallsOK

LEMMA LocalsAre ==
  /\ IsFiniteSet(Jobs) /\ IsFiniteSet(Adapters) /\ MaxConcurrency \in Nat /\ Contractors \subseteq Jobs
  /\ \A j \in Jobs : JobSpec[j].needs \subseteq Jobs /\ JobSpec[j].retries \in Nat
  /\ None \notin Profiles /\ None \notin Registries /\ None \notin Leases /\ None \notin Records
<1>1. IsFiniteSet(Adapters)
  <2> DEFINE f == [p \in Profiles |-> p.adapter]
  <2>1. f \in Surjection(Profiles, Adapters)
    BY DEF Surjection, Adapters
  <2>2. IsFiniteSet(Profiles)
    BY LocalAssumption
  <2> HIDE DEF f
  <2>3. QED
    BY <2>1, <2>2, FS_Surjection
<1>2. QED
  BY <1>1, LocalAssumption

LEMMA RunningIsFinite == IsFiniteSet(Running) /\ Cardinality(Running) \in Nat /\ Running \subseteq Jobs
<1>1. Running \subseteq Jobs
  BY DEF Running
<1>2. QED
  BY <1>1, LocalsAre, FS_Subset, FS_CardinalityType

LEMMA JobsStart ==
  ASSUME Init
  PROVE  JobsInv /\ Lifecycle!Init
<1>1. /\ registry = None /\ opening = {} /\ jobs = [j \in Jobs |-> None] /\ fence = 0
      /\ submitting = [j \in Jobs |-> None] /\ calls = [c \in Contractors |-> Idle] /\ started = [j \in Jobs |-> None]
  BY DEF Init
<1>2. Running = {} /\ Cardinality(Running) = 0
  BY <1>1, FS_EmptySet DEF Running
<1>3. JobsOK
  BY <1>1, <1>2, LocalsAre DEF JobsOK
<1>4. Idle \in Calls /\ Idle.at = "new" /\ Idle.fence = 0
  BY DEF Idle, Calls, Places
<1>5. CallsOK
  BY <1>1, <1>2, <1>4 DEF CallsOK, At
<1>6. RegistryOK
  BY <1>1 DEF RegistryOK
<1>7. Lifecycle!Init
  BY <1>1, <1>2 DEF Lifecycle!Init, Done
<1>8. QED
  BY <1>3, <1>5, <1>6, <1>7 DEF JobsInv

(* ---- the registry ----                                                   *)

LEMMA RegistrySteps ==
  ASSUME RegistryOK,
         \/ \E p \in Openers : Open(p) \/ Initialize(p)
         \/ \E p \in Profiles : \E expected \in {None} \cup (IF registry = None THEN {} ELSE {registry.revision}) :
               Register(p, expected)
         \/ \E j \in Jobs : Negotiate(j)
  PROVE  RegistryOK' /\ UNCHANGED <<jobs, fence, calls, started>>
<1>1. UNCHANGED <<jobs, fence, calls, started>>
  BY DEF Open, Initialize, Register, Negotiate, schedulerVars
<1>2. ASSUME NEW p \in Openers, Open(p) PROVE RegistryOK'
  BY <1>2 DEF Open, RegistryOK
<1>3. ASSUME NEW p \in Openers, Initialize(p) PROVE RegistryOK'
  <2>1. registry' = Empty /\ opening' \subseteq opening /\ submitting' = submitting
    BY <1>3 DEF Initialize
  <2>2. Empty \in Registries /\ Empty.revision = 0 /\ Filled(Empty.profiles) = {}
    BY DEF Empty, Registries, Filled
  <2>3. QED
    BY <2>1, <2>2, FS_EmptySet DEF RegistryOK
<1>4. ASSUME NEW p \in Profiles, NEW expected, Register(p, expected) PROVE RegistryOK'
  <2> DEFINE old == registry.profiles
             a   == p.adapter
             new == [old EXCEPT ![a] = p]
  <2>1. /\ registry # None /\ old[a] = None /\ registry' = [revision |-> registry.revision + 1, profiles |-> new]
        /\ opening' = opening /\ submitting' = submitting
    BY <1>4 DEF Register, MayRegister
  <2>2. a \in Adapters /\ registry \in Registries /\ registry.revision = Cardinality(Filled(old)) /\ registry.revision \in Nat
    BY <2>1 DEF Adapters, RegistryOK, Registries
  <2>3. old \in [Adapters -> Profiles \cup {None}] /\ p # None
    BY <2>2, LocalsAre DEF Registries
  <2>4. new \in [Adapters -> Profiles \cup {None}] /\ new[a] = p /\ \A b \in Adapters \ {a} : new[b] = old[b]
    BY <2>2, <2>3
  <2>5. Filled(new) = Filled(old) \cup {a} /\ a \notin Filled(old)
    BY <2>1, <2>2, <2>3, <2>4 DEF Filled
  <2>6. IsFiniteSet(Filled(old))
    BY LocalsAre, FS_Subset DEF Filled
  <2>7. Cardinality(Filled(new)) = registry.revision + 1
    BY <2>2, <2>5, <2>6, FS_AddElement
  <2>8. registry' \in Registries /\ registry'.revision = Cardinality(Filled(registry'.profiles))
    BY <2>1, <2>2, <2>4, <2>7 DEF Registries
  <2>9. QED
    BY <2>1, <2>8 DEF RegistryOK
<1>5. ASSUME NEW j \in Jobs, Negotiate(j) PROVE RegistryOK'
  <2>1. PICK p \in Profiles : submitting' = [submitting EXCEPT ![j] = p]
    BY <1>5 DEF Negotiate, Negotiated
  <2>2. UNCHANGED <<registry, opening>>
    BY <1>5 DEF Negotiate
  <2>3. QED
    BY <2>1, <2>2 DEF RegistryOK
<1>6. QED
  BY <1>1, <1>2, <1>3, <1>4, <1>5

(* ---- the scheduler ----                                                  *)

(* Nothing of the lifecycle changes with a job that has not been started.   *)
LEMMA LifecycleStays ==
  ASSUME JobsOK, fence' = fence, jobs' \in [Jobs -> Records \cup {None}],
         \A k \in Jobs : \/ jobs'[k] = jobs[k]
                         \/ /\ jobs[k] = None
                            /\ jobs'[k].state \in {"waiting", "queued"} /\ jobs'[k].lease = None /\ jobs'[k].attempts = 0
  PROVE  UNCHANGED Lifecycle!vars /\ Running' = Running /\ \A k \in Jobs : Done(k)' <=> Done(k)
<1>1. \A k \in Jobs : Done(k)' <=> Done(k)
  BY DEF Done
<1>2. Running' = Running
  BY DEF Running
<1>3. {k \in Jobs : Done(k)}' = {k \in Jobs : Done(k)}
  BY <1>1
<1>4. {k \in Jobs : jobs[k] # None /\ jobs[k].state \in {"done", "failed"}}'
        = {k \in Jobs : jobs[k] # None /\ jobs[k].state \in {"done", "failed"}}
  OBVIOUS
<1>5. [k \in Jobs |-> IF k \in Running THEN jobs[k].lease.fence ELSE 0]'
        = [k \in Jobs |-> IF k \in Running THEN jobs[k].lease.fence ELSE 0]
  <2>1. \A k \in Running : jobs'[k] = jobs[k]
    BY DEF Running
  <2>2. QED
    BY <1>2, <2>1
<1>6. [k \in Jobs |-> IF jobs[k] = None THEN 0 ELSE jobs[k].attempts]'
        = [k \in Jobs |-> IF jobs[k] = None THEN 0 ELSE jobs[k].attempts]
  <2>1. \A k \in Jobs : (IF jobs'[k] = None THEN 0 ELSE jobs'[k].attempts) = (IF jobs[k] = None THEN 0 ELSE jobs[k].attempts)
    OBVIOUS
  <2>2. QED
    BY <2>1
<1>7. QED
  BY <1>1, <1>2, <1>3, <1>4, <1>5, <1>6 DEF Lifecycle!vars

LEMMA EnqueueKeeps ==
  ASSUME JobsInv, NEW j \in Jobs, Enqueue(j)
  PROVE  JobsInv' /\ UNCHANGED Lifecycle!vars
<1> DEFINE r == [state |-> IF JobSpec[j].needs = {} THEN "queued" ELSE "waiting",
                 attempts |-> 0, lease |-> None,
                 digest |-> submitting[j].digest, revision |-> registry.revision]
<1>1. /\ submitting[j] # None /\ registry # None /\ jobs[j] = None /\ jobs' = [jobs EXCEPT ![j] = r]
      /\ UNCHANGED <<registry, opening, fence, submitting, started>>
      /\ calls' = IF j \in Contractors THEN [calls EXCEPT ![j].at = "submitted"] ELSE calls
  BY DEF Enqueue
<1>2. RegistryOK /\ JobsOK /\ CallsOK
  BY DEF JobsInv
<1>3. submitting[j].digest \in Digests /\ registry.revision \in Nat
  BY <1>1, <1>2 DEF RegistryOK, Digests, Registries
<1>4. r \in Records /\ r # None /\ r.state \in {"waiting", "queued"} /\ r.lease = None /\ r.attempts = 0
      /\ (r.state # "waiting" => JobSpec[j].needs = {})
  BY <1>3, LocalsAre DEF Records, States, Digests
<1> HIDE DEF r
<1>5. /\ jobs' \in [Jobs -> Records \cup {None}] /\ jobs'[j] = r /\ \A k \in Jobs \ {j} : jobs'[k] = jobs[k]
  BY <1>1, <1>2, <1>4 DEF JobsOK
<1>6. UNCHANGED Lifecycle!vars /\ Running' = Running /\ \A k \in Jobs : Done(k)' <=> Done(k)
  BY <1>1, <1>2, <1>4, <1>5, LifecycleStays
<1>7. RegistryOK'
  BY <1>1, <1>2 DEF RegistryOK
<1>8. JobsOK'
  <2>1. Recorded(j, r, fence')
    BY <1>1, <1>4, LocalsAre DEF Recorded
  <2>2. ASSUME NEW k \in Jobs, jobs'[k] # None
        PROVE  Recorded(k, jobs'[k], fence') /\ (jobs'[k].state # "waiting" => \A d \in JobSpec[k].needs : Done(d)')
    <3>1. JobSpec[k].needs \subseteq Jobs
      BY LocalsAre
    <3>2. CASE k = j
      BY <1>4, <1>5, <2>1, <3>2
    <3>3. CASE k # j
      BY <1>1, <1>2, <1>5, <1>6, <2>2, <3>1, <3>3 DEF JobsOK
    <3>4. QED
      BY <3>2, <3>3
  <2>3. \A k \in Jobs : started'[k] # None => jobs'[k] # None /\ started'[k] = jobs'[k].digest
    BY <1>1, <1>2, <1>5 DEF JobsOK
  <2>4. QED
    BY <1>1, <1>2, <1>5, <1>6, <2>2, <2>3 DEF JobsOK
<1>9. CallsOK'
  <2>1. calls' \in [Contractors -> Calls]
    BY <1>1, <1>2 DEF CallsOK, Calls, Places
  <2>2. \A c \in Contractors : calls'[c].fence = calls[c].fence /\ calls'[c].job = calls[c].job
                               /\ (calls'[c].at = "concluded" => calls[c].at = "concluded")
    BY <1>1, <1>2 DEF CallsOK, Calls
  <2>3. \A k \in Running : jobs'[k] = jobs[k]
    BY <1>1, <1>5 DEF Running
  <2>4. QED
    BY <1>1, <1>2, <1>6, <2>1, <2>2, <2>3 DEF CallsOK, At
<1>10. QED
  BY <1>6, <1>7, <1>8, <1>9 DEF JobsInv

(* A lease is added for the head of the queue, and what is ready is queued. *)
WorkerNames == Workers \cup {WorkerOf[c] : c \in Contractors}

LEMMA LeaseIs ==
  ASSUME JobsOK, NEW j \in Jobs, NEW p \in Profiles, NEW worker \in WorkerNames, Lease(j, p, worker), Ready(j)
  PROVE  /\ fence' = fence + 1 /\ started' = [started EXCEPT ![j] = p.digest]
         /\ jobs' \in [Jobs -> Records \cup {None}]
         /\ jobs'[j] # None /\ jobs'[j].state = "running" /\ jobs'[j].attempts = jobs[j].attempts + 1
         /\ jobs'[j].lease # None /\ jobs'[j].lease.fence = fence + 1 /\ jobs'[j].digest = jobs[j].digest
         /\ \A i \in Jobs \ {j} :
              \/ jobs'[i] = jobs[i] /\ ~Ready(i)
              \/ /\ Ready(i) /\ jobs[i] # None /\ jobs'[i] # None /\ jobs'[i].state = "queued"
                 /\ jobs'[i].attempts = jobs[i].attempts /\ jobs'[i].lease = jobs[i].lease
                 /\ jobs'[i].digest = jobs[i].digest
<1> DEFINE l  == [worker |-> worker, fence |-> fence + 1]
           r  == [jobs[j] EXCEPT !.state = "running", !.attempts = jobs[j].attempts + 1, !.lease = l]
           q(i) == [jobs[i] EXCEPT !.state = "queued"]
<1>1. /\ fence' = fence + 1 /\ started' = [started EXCEPT ![j] = p.digest]
      /\ jobs' = [i \in Jobs |-> IF i = j THEN r ELSE IF Ready(i) THEN q(i) ELSE jobs[i]]
  BY DEF Lease
<1>2. fence \in Nat /\ \A i \in Jobs : Ready(i) => jobs[i] \in Records
  BY DEF JobsOK, Ready
<1>3. l \in Leases /\ l # None /\ l.fence = fence + 1
  BY <1>2, LocalsAre DEF Leases, WorkerNames
<1>4. jobs[j] \in Records
  BY <1>2
<1>5. r \in Records /\ r.state = "running" /\ r.attempts = jobs[j].attempts + 1 /\ r.lease = l /\ r.digest = jobs[j].digest
  <2> HIDE DEF l
  <2>1. jobs[j].attempts + 1 \in Nat
    BY <1>4 DEF Records
  <2>2. QED
    BY <1>3, <1>4, <2>1 DEF Records, States
<1>6. ASSUME NEW i \in Jobs, Ready(i)
      PROVE  q(i) \in Records /\ q(i).state = "queued" /\ q(i).attempts = jobs[i].attempts /\ q(i).lease = jobs[i].lease
             /\ q(i).digest = jobs[i].digest
  BY <1>2, <1>6 DEF Records, States
<1> HIDE DEF r, q, l
<1>7. jobs' \in [Jobs -> Records \cup {None}]
  <2>1. ASSUME NEW i \in Jobs PROVE jobs[i] \in Records \cup {None}
    BY DEF JobsOK
  <2>2. QED
    BY <1>1, <1>5, <1>6, <2>1
<1>8. jobs'[j] = r /\ \A i \in Jobs \ {j} : jobs'[i] = IF Ready(i) THEN q(i) ELSE jobs[i]
  BY <1>1
<1>9. r # None /\ \A i \in Jobs : Ready(i) => q(i) # None /\ jobs[i] # None
  BY <1>2, <1>5, <1>6, LocalsAre
<1>10. QED
  BY <1>1, <1>3, <1>5, <1>6, <1>7, <1>8, <1>9

(* What the lifecycle is told of the scheduler's file.                      *)
DoneJobs == {k \in Jobs : Done(k)}
OverJobs == {k \in Jobs : jobs[k] # None /\ jobs[k].state \in {"done", "failed"}}
Holder   == [k \in Jobs |-> IF k \in Running THEN jobs[k].lease.fence ELSE 0]
Started  == [k \in Jobs |-> IF jobs[k] = None THEN 0 ELSE jobs[k].attempts]

LEMMA LifecycleIsKept ==
  ASSUME OverJobs \subseteq OverJobs', DoneJobs = DoneJobs' \cap OverJobs, DoneJobs' \subseteq OverJobs',
         \A k \in OverJobs' : Holder'[k] = 0,
         Started' = Started, fence' = fence, \A k \in Jobs : Holder'[k] \in {Holder[k], 0}
  PROVE  Lifecycle!Next
BY DEF Lifecycle!Next, Lifecycle!KeepOrLose, OverJobs, DoneJobs, Holder, Started

LEMMA LifecycleStarts ==
  ASSUME OverJobs \subseteq OverJobs', DoneJobs = DoneJobs' \cap OverJobs, DoneJobs' \subseteq OverJobs',
         \A k \in OverJobs' : Holder'[k] = 0,
         NEW j \in Jobs, j \notin OverJobs \cup OverJobs', Started[j] < JobSpec[j].retries + 1,
         JobSpec[j].needs \subseteq DoneJobs, fence' = fence + 1, Holder'[j] = fence',
         Started' = [Started EXCEPT ![j] = Started[j] + 1],
         \A k \in Jobs \ {j} : Holder'[k] \in {Holder[k], 0}
  PROVE  Lifecycle!Next
<1>1. Lifecycle!Start(j)
  BY DEF Lifecycle!Start, OverJobs, DoneJobs, Holder, Started
<1>2. \A k \in Jobs \ {j} : Lifecycle!KeepOrLose(k)
  BY DEF Lifecycle!KeepOrLose, Holder
<1>3. QED
  BY <1>1, <1>2 DEF Lifecycle!Next, OverJobs, DoneJobs, Holder, Started

LEMMA OverAreDone == OverJobs \subseteq Jobs /\ DoneJobs \subseteq OverJobs /\ OverJobs \cap Running = {}
BY DEF OverJobs, DoneJobs, Done, Running

LEMMA DispatchKeeps ==
  ASSUME JobsInv, NEW j \in Jobs, NEW worker \in WorkerNames, Dispatch(j, worker),
         \/ calls' = calls
         \/ \E c \in Contractors : calls' = [calls EXCEPT ![c] = [at |-> "leased", job |-> j, fence |-> fence + 1]]
  PROVE  JobsInv' /\ Lifecycle!Next
<1>1. PICK p \in Negotiated(j) : StillAgreed(j, p) /\ Lease(j, p, worker)
  BY DEF Dispatch
<1>2. /\ Cardinality(Running) < MaxConcurrency /\ Ready(j) /\ UNCHANGED <<registry, opening, submitting>>
      /\ p \in Profiles /\ p.digest = jobs[j].digest
  BY <1>1 DEF Dispatch, First, Negotiated, StillAgreed
<1>3. RegistryOK /\ JobsOK /\ CallsOK /\ fence \in Nat /\ MaxConcurrency \in Nat
  BY LocalsAre DEF JobsInv, JobsOK
<1>4. /\ fence' = fence + 1 /\ started' = [started EXCEPT ![j] = p.digest]
      /\ jobs' \in [Jobs -> Records \cup {None}]
      /\ jobs'[j] # None /\ jobs'[j].state = "running" /\ jobs'[j].attempts = jobs[j].attempts + 1
      /\ jobs'[j].lease # None /\ jobs'[j].lease.fence = fence + 1 /\ jobs'[j].digest = jobs[j].digest
  BY <1>1, <1>2, <1>3, LeaseIs
<1>5. \A i \in Jobs \ {j} :
         \/ jobs'[i] = jobs[i] /\ ~Ready(i)
         \/ /\ Ready(i) /\ jobs[i] # None /\ jobs'[i] # None /\ jobs'[i].state = "queued"
            /\ jobs'[i].attempts = jobs[i].attempts /\ jobs'[i].lease = jobs[i].lease
            /\ jobs'[i].digest = jobs[i].digest
  BY <1>1, <1>2, <1>3, LeaseIs
<1>6. \A i \in Jobs : Ready(i) =>
         /\ jobs[i] # None /\ jobs[i].state \in {"queued", "waiting"} /\ jobs[i].lease = None
         /\ jobs[i].attempts <= JobSpec[i].retries /\ jobs[i].attempts \in Nat
         /\ \A d \in JobSpec[i].needs : Done(d)
  <2>1. SUFFICES ASSUME NEW i \in Jobs, Ready(i)
                 PROVE  /\ jobs[i] # None /\ jobs[i].state \in {"queued", "waiting"} /\ jobs[i].lease = None
                        /\ jobs[i].attempts <= JobSpec[i].retries /\ jobs[i].attempts \in Nat
                        /\ \A d \in JobSpec[i].needs : Done(d)
    OBVIOUS
  <2>2. jobs[i] # None /\ jobs[i].state \in {"queued", "waiting"} /\ (jobs[i].state = "waiting" => \A d \in JobSpec[i].needs : Done(d))
    BY <2>1 DEF Ready
  <2>3. Recorded(i, jobs[i], fence) /\ jobs[i] \in Records /\ (jobs[i].state # "waiting" => \A d \in JobSpec[i].needs : Done(d))
    BY <1>3, <2>2 DEF JobsOK
  <2>4. QED
    BY <2>2, <2>3 DEF Recorded, Records
<1>7. \A k \in Jobs : (Done(k)' <=> Done(k)) /\ (k \in OverJobs' <=> k \in OverJobs)
  <2>1. SUFFICES ASSUME NEW k \in Jobs PROVE (Done(k)' <=> Done(k)) /\ (k \in OverJobs' <=> k \in OverJobs)
    OBVIOUS
  <2>2. CASE k = j
    BY <1>2, <1>4, <1>6, <2>2 DEF Done, OverJobs
  <2>3. CASE k # j
    BY <1>5, <1>6, <2>3 DEF Done, OverJobs
  <2>4. QED
    BY <2>2, <2>3
<1>8. Running' = Running \cup {j} /\ j \notin Running
  <2>1. \A k \in Jobs \ {j} : k \in Running' <=> k \in Running
    BY <1>5, <1>6 DEF Running
  <2>2. j \in Running' /\ j \notin Running
    BY <1>2, <1>4, <1>6 DEF Running
  <2>3. Running' \subseteq Jobs /\ Running \subseteq Jobs
    BY DEF Running
  <2>4. QED
    BY <2>1, <2>2, <2>3
<1>9. \A k \in Running : jobs'[k] = jobs[k] /\ k # j /\ ~Ready(k)
  <2>1. \A k \in Running : k \in Jobs /\ ~Ready(k)
    BY <1>6 DEF Running
  <2>2. QED
    BY <1>2, <1>5, <2>1
<1>10. RegistryOK'
  BY <1>2, <1>3 DEF RegistryOK
<1>11. JobsOK'
  <2>1. Cardinality(Running') <= MaxConcurrency
    <3>1. Cardinality(Running') = Cardinality(Running) + 1
      BY <1>8, RunningIsFinite, FS_AddElement
    <3>2. QED
      BY <1>2, <1>3, <3>1, RunningIsFinite
  <2>2. ASSUME NEW k \in Jobs, jobs'[k] # None
        PROVE  Recorded(k, jobs'[k], fence') /\ (jobs'[k].state # "waiting" => \A d \in JobSpec[k].needs : Done(d)')
    <3>1. JobSpec[k].needs \subseteq Jobs /\ JobSpec[k].retries \in Nat
      BY LocalsAre
    <3>2. CASE k = j
      <4>1. jobs[j].attempts \in Nat /\ jobs[j].attempts <= JobSpec[j].retries /\ \A d \in JobSpec[j].needs : Done(d)
        BY <1>2, <1>6
      <4>2. Recorded(j, jobs'[j], fence')
        BY <1>3, <1>4, <3>1, <3>2, <4>1 DEF Recorded
      <4>3. QED
        BY <1>7, <3>1, <3>2, <4>1, <4>2
    <3>3. CASE k # j /\ Ready(k)
      <4>1. /\ jobs[k].attempts \in Nat /\ jobs[k].attempts <= JobSpec[k].retries /\ jobs[k].lease = None
            /\ \A d \in JobSpec[k].needs : Done(d)
        BY <1>6, <3>3
      <4>2. jobs'[k].state = "queued" /\ jobs'[k].attempts = jobs[k].attempts /\ jobs'[k].lease = None
        BY <1>5, <3>3, <4>1
      <4>3. Recorded(k, jobs'[k], fence')
        BY <3>1, <4>1, <4>2 DEF Recorded
      <4>4. QED
        BY <1>7, <3>1, <4>1, <4>3
    <3>4. CASE k # j /\ ~Ready(k)
      <4>1. jobs'[k] = jobs[k]
        BY <1>5, <3>4
      <4>2. Recorded(k, jobs[k], fence) /\ (jobs[k].state # "waiting" => \A d \in JobSpec[k].needs : Done(d))
        BY <1>3, <2>2, <4>1 DEF JobsOK
      <4>3. Recorded(k, jobs[k], fence + 1)
        BY <1>3, <4>2 DEF Recorded
      <4>4. QED
        BY <1>4, <1>7, <3>1, <4>1, <4>2, <4>3
    <3>5. QED
      BY <3>2, <3>3, <3>4
  <2>3. \A k \in Jobs : started'[k] # None => jobs'[k] # None /\ started'[k] = jobs'[k].digest
    <3>1. SUFFICES ASSUME NEW k \in Jobs, started'[k] # None PROVE jobs'[k] # None /\ started'[k] = jobs'[k].digest
      OBVIOUS
    <3>2. CASE k = j
      BY <1>2, <1>3, <1>4, <3>2 DEF JobsOK
    <3>3. CASE k # j
      <4>1. started[k] # None /\ started'[k] = started[k] /\ jobs[k] # None /\ started[k] = jobs[k].digest
        BY <1>3, <1>4, <3>1, <3>3 DEF JobsOK
      <4>2. QED
        BY <1>5, <3>3, <4>1
    <3>4. QED
      BY <3>2, <3>3
  <2>4. started' \in [Jobs -> Digests \cup {None}]
    BY <1>2, <1>3, <1>4 DEF JobsOK, Digests
  <2>5. QED
    BY <1>3, <1>4, <2>1, <2>2, <2>3, <2>4 DEF JobsOK
<1>12. CallsOK'
  <2>1. ASSUME NEW c \in Contractors, NEW x \in Calls,
               x = calls[c] \/ x = [at |-> "leased", job |-> j, fence |-> fence + 1]
        PROVE  /\ x.fence <= fence'
               /\ \A k \in Running' : jobs'[k].lease.fence = x.fence => x.job = k
               /\ x.at = "concluded" => x.job = c
    <3>1. \A k \in Running : jobs[k].lease.fence \in 1..fence
      BY <1>3 DEF JobsOK, Recorded, Running
    <3>2. CASE x = calls[c]
      <4>1. x.fence \in Nat /\ x.fence <= fence /\ (x.at = "concluded" => x.job = c)
            /\ \A k \in Running : jobs[k].lease.fence = x.fence => x.job = k
        BY <1>3, <3>2 DEF CallsOK, At, Calls
      <4>2. jobs'[j].lease.fence # x.fence
        BY <1>3, <1>4, <4>1
      <4>3. QED
        BY <1>3, <1>4, <1>8, <1>9, <4>1, <4>2
    <3>3. CASE x = [at |-> "leased", job |-> j, fence |-> fence + 1]
      <4>1. \A k \in Running : jobs'[k].lease.fence # x.fence
        BY <1>3, <1>9, <3>1, <3>3
      <4>2. QED
        BY <1>3, <1>4, <1>8, <3>3, <4>1
    <3>4. QED
      BY <2>1, <3>2, <3>3
  <2>2. [at |-> "leased", job |-> j, fence |-> fence + 1] \in Calls
    BY <1>3 DEF Calls, Places
  <2>3. calls' \in [Contractors -> Calls]
        /\ \A c \in Contractors : calls'[c] = calls[c] \/ calls'[c] = [at |-> "leased", job |-> j, fence |-> fence + 1]
    BY <1>3, <2>2 DEF CallsOK
  <2>4. QED
    BY <2>1, <2>3 DEF CallsOK, At
<1>13. Lifecycle!Next
  <2>1. OverJobs' = OverJobs /\ DoneJobs' = DoneJobs
    BY <1>7 DEF OverJobs, DoneJobs
  <2>2. \A k \in OverJobs' : Holder'[k] = 0
    <3>1. OverJobs' \subseteq Jobs /\ OverJobs' \cap Running' = {}
      BY OverAreDone DEF OverJobs, Running
    <3>2. QED
      BY <3>1 DEF Holder
  <2>3. j \notin OverJobs /\ Started[j] < JobSpec[j].retries + 1 /\ JobSpec[j].needs \subseteq DoneJobs
    <3>1. jobs[j] # None /\ jobs[j].state \in {"queued", "waiting"} /\ Started[j] = jobs[j].attempts
      BY <1>2, <1>6 DEF Started
    <3>2. jobs[j].attempts <= JobSpec[j].retries /\ jobs[j].attempts \in Nat /\ JobSpec[j].retries \in Nat
      BY <1>2, <1>6, LocalsAre
    <3>3. JobSpec[j].needs \subseteq DoneJobs
      BY <1>2, <1>6, LocalsAre DEF DoneJobs
    <3>4. QED
      BY <3>1, <3>2, <3>3 DEF OverJobs
  <2>4. Holder'[j] = fence'
    BY <1>4, <1>8 DEF Holder
  <2>5. Started' = [Started EXCEPT ![j] = Started[j] + 1]
    <3>1. \A k \in Jobs \ {j} : Started'[k] = Started[k]
      BY <1>5 DEF Started
    <3>2. Started'[j] = Started[j] + 1
      BY <1>2, <1>4, <1>6 DEF Started
    <3>3. Started' = [k \in Jobs |-> Started'[k]] /\ DOMAIN Started = Jobs
      BY DEF Started
    <3> HIDE DEF Started
    <3>4. QED
      BY <3>1, <3>2, <3>3
  <2>6. \A k \in Jobs \ {j} : Holder'[k] \in {Holder[k], 0}
    BY <1>8, <1>9 DEF Holder
  <2>7. QED
    BY <1>4, <2>1, <2>2, <2>3, <2>4, <2>5, <2>6, OverAreDone, LifecycleStarts
<1>14. QED
  BY <1>10, <1>11, <1>12, <1>13 DEF JobsInv

(* A lease ends, by its holder.                                             *)
LEMMA CompleteKeeps ==
  ASSUME JobsInv, NEW j \in Jobs, NEW worker, NEW f, NEW status \in {"done", "failed"}, Complete(j, worker, f, status),
         \/ calls' = calls
         \/ j \in Contractors /\ f = calls[j].fence /\ calls' = [calls EXCEPT ![j].at = "concluded"]
  PROVE  JobsInv' /\ Lifecycle!Next
<1> DEFINE s == After(j, status)
           r == [jobs[j] EXCEPT !.lease = None, !.state = s]
<1>1. /\ j \in Running /\ jobs[j].lease = [worker |-> worker, fence |-> f] /\ jobs' = [jobs EXCEPT ![j] = r]
      /\ UNCHANGED <<registry, opening, fence, submitting, started>>
  BY DEF Complete, IsHeld
<1>2. RegistryOK /\ JobsOK /\ CallsOK /\ fence \in Nat
  BY DEF JobsInv, JobsOK
<1>3. /\ jobs[j] # None /\ jobs[j].state = "running" /\ jobs[j] \in Records /\ Recorded(j, jobs[j], fence)
      /\ \A d \in JobSpec[j].needs : Done(d)
  BY <1>1, <1>2 DEF Running, JobsOK
<1>4. s \in {"queued", "done", "failed"} /\ (s = "queued" => jobs[j].attempts <= JobSpec[j].retries)
  BY DEF After
<1> HIDE DEF s
<1>5. r \in Records /\ r # None /\ r.state = s /\ r.lease = None /\ r.attempts = jobs[j].attempts /\ r.digest = jobs[j].digest
  <2>1. r \in Records /\ r.state = s /\ r.lease = None /\ r.attempts = jobs[j].attempts /\ r.digest = jobs[j].digest
    BY <1>3, <1>4 DEF Records, States
  <2>2. QED
    BY <2>1, LocalsAre
<1> HIDE DEF r
<1>6. jobs' \in [Jobs -> Records \cup {None}] /\ jobs'[j] = r /\ \A k \in Jobs \ {j} : jobs'[k] = jobs[k]
  BY <1>1, <1>2, <1>5 DEF JobsOK
<1>7. Running' = Running \ {j} /\ Running \subseteq Jobs
  BY <1>4, <1>5, <1>6 DEF Running
<1>8. \A k \in Jobs : Done(k) => Done(k)' /\ k # j
  BY <1>3, <1>6 DEF Done
<1>9. RegistryOK'
  BY <1>1, <1>2 DEF RegistryOK
<1>10. JobsOK'
  <2>1. Cardinality(Running') <= MaxConcurrency
    <3>1. Cardinality(Running \ {j}) = Cardinality(Running) - 1 /\ Cardinality(Running) \in Nat
      BY <1>1, RunningIsFinite, FS_RemoveElement
    <3>2. Cardinality(Running) <= MaxConcurrency /\ MaxConcurrency \in Nat
      BY <1>2, LocalsAre DEF JobsOK
    <3>3. QED
      BY <1>7, <3>1, <3>2
  <2>2. ASSUME NEW k \in Jobs, jobs'[k] # None
        PROVE  Recorded(k, jobs'[k], fence') /\ (jobs'[k].state # "waiting" => \A d \in JobSpec[k].needs : Done(d)')
    <3>1. JobSpec[k].needs \subseteq Jobs
      BY LocalsAre
    <3>2. CASE k = j
      <4>1. Recorded(j, r, fence')
        BY <1>3, <1>4, <1>5 DEF Recorded
      <4>2. QED
        BY <1>3, <1>6, <1>8, <3>1, <3>2, <4>1
    <3>3. CASE k # j
      <4>1. Recorded(k, jobs[k], fence) /\ (jobs[k].state # "waiting" => \A d \in JobSpec[k].needs : Done(d)) /\ jobs'[k] = jobs[k]
        BY <1>2, <1>6, <2>2, <3>3 DEF JobsOK
      <4>2. QED
        BY <1>1, <1>8, <3>1, <4>1
    <3>4. QED
      BY <3>2, <3>3
  <2>3. \A k \in Jobs : started'[k] # None => jobs'[k] # None /\ started'[k] = jobs'[k].digest
    BY <1>1, <1>2, <1>5, <1>6 DEF JobsOK
  <2>4. QED
    BY <1>1, <1>2, <1>6, <2>1, <2>2, <2>3 DEF JobsOK
<1>11. CallsOK'
  <2>1. calls' \in [Contractors -> Calls]
    BY <1>2 DEF CallsOK, Calls, Places
  <2>2. \A c \in Contractors :
           /\ calls'[c].fence = calls[c].fence /\ calls'[c].job = calls[c].job
           /\ calls'[c].at = calls[c].at \/ (c = j /\ f = calls[c].fence)
    <3>1. CASE calls' = calls
      BY <3>1
    <3>2. CASE j \in Contractors /\ f = calls[j].fence /\ calls' = [calls EXCEPT ![j].at = "concluded"]
      BY <1>2, <3>2 DEF CallsOK, Calls
    <3>3. QED
      BY <3>1, <3>2
  <2>3. \A k \in Running' : k \in Running /\ jobs'[k] = jobs[k]
    BY <1>6, <1>7
  <2>4. \A c \in Contractors : c = j /\ f = calls[c].fence => calls[c].job = c
    BY <1>1, <1>2 DEF CallsOK
  <2>5. \A c \in Contractors : calls'[c].at = "concluded" => calls'[c].job = c
    BY <1>2, <2>2, <2>4 DEF CallsOK, At
  <2>6. QED
    BY <1>1, <1>2, <2>1, <2>2, <2>3, <2>5 DEF CallsOK, At
<1>12. Lifecycle!Next
  <2>1. OverJobs \subseteq OverJobs' /\ DoneJobs = DoneJobs' \cap OverJobs /\ DoneJobs' \subseteq OverJobs'
    <3>1. j \notin OverJobs
      BY <1>3 DEF OverJobs
    <3>2. ASSUME NEW k \in Jobs \ {j} PROVE (k \in OverJobs' <=> k \in OverJobs) /\ (k \in DoneJobs' <=> k \in DoneJobs)
      BY <1>6 DEF OverJobs, DoneJobs, Done
    <3>3. DoneJobs \subseteq OverJobs /\ DoneJobs' \subseteq OverJobs' /\ OverJobs \subseteq Jobs /\ OverJobs' \subseteq Jobs
      BY DEF OverJobs, DoneJobs, Done
    <3>4. QED
      BY <3>1, <3>2, <3>3
  <2>2. \A k \in OverJobs' : Holder'[k] = 0
    <3>1. OverJobs' \subseteq Jobs /\ OverJobs' \cap Running' = {}
      BY DEF OverJobs, Running
    <3>2. QED
      BY <3>1 DEF Holder
  <2>3. \A k \in Jobs : Holder'[k] \in {Holder[k], 0}
    BY <1>6, <1>7 DEF Holder
  <2>4. Started' = Started
    <3>1. \A k \in Jobs : (IF jobs'[k] = None THEN 0 ELSE jobs'[k].attempts) = (IF jobs[k] = None THEN 0 ELSE jobs[k].attempts)
      BY <1>3, <1>5, <1>6
    <3>2. QED
      BY <3>1 DEF Started
  <2>5. QED
    BY <1>1, <2>1, <2>2, <2>3, <2>4, LifecycleIsKept
<1>13. QED
  BY <1>9, <1>10, <1>11, <1>12 DEF JobsInv

(* A contractor goes on without the scheduler.                              *)
LEMMA GoKeeps ==
  ASSUME JobsInv, NEW c \in Contractors, NEW place \in Places \ {"concluded"}, Go(c, place), Elsewhere
  PROVE  JobsInv' /\ UNCHANGED Lifecycle!vars
<1>1. calls' = [calls EXCEPT ![c].at = place] /\ UNCHANGED <<registry, opening, jobs, fence, submitting, started>>
  BY DEF Go, Elsewhere, schedulerVars
<1>2. RegistryOK /\ JobsOK /\ CallsOK
  BY DEF JobsInv
<1>3. UNCHANGED Lifecycle!vars /\ Running' = Running /\ \A k \in Jobs : Done(k)' <=> Done(k)
  BY <1>1, <1>2, LifecycleStays DEF JobsOK
<1>4. JobsOK' /\ RegistryOK'
  BY <1>1, <1>2, <1>3, LocalsAre DEF JobsOK, RegistryOK
<1>5. CallsOK'
  <2>1. calls' \in [Contractors -> Calls]
    BY <1>1, <1>2 DEF CallsOK, Calls
  <2>2. \A d \in Contractors : calls'[d].fence = calls[d].fence /\ calls'[d].job = calls[d].job
                               /\ (calls'[d].at = "concluded" => calls[d].at = "concluded")
    BY <1>1, <1>2 DEF CallsOK, Calls
  <2>3. QED
    BY <1>1, <1>2, <1>3, <2>1, <2>2 DEF CallsOK, At
<1>6. QED
  BY <1>3, <1>4, <1>5 DEF JobsInv

LEMMA ContractKeeps ==
  ASSUME JobsInv, NEW c \in Contractors, Contract(c) \/ Raise(c)
  PROVE  JobsInv' /\ (Lifecycle!Next \/ UNCHANGED Lifecycle!vars)
<1>1. CASE GetLease(c)
  <2>1. WorkerOf[c] \in WorkerNames
    BY DEF WorkerNames
  <2>2. QED
    BY <1>1, <2>1, DispatchKeeps DEF GetLease
<1>2. ASSUME NEW place \in Places \ {"concluded"}, Go(c, place), Elsewhere PROVE JobsInv' /\ UNCHANGED Lifecycle!vars
  BY <1>2, GoKeeps
<1>3. CASE Admit(c) \/ RunSession(c) \/ Accept(c) \/ Raise(c)
  BY <1>2, <1>3 DEF Admit, RunSession, Accept, Raise, Places
<1>4. CASE Conclude(c)
  <2>1. /\ Complete(c, WorkerOf[c], calls[c].fence, "done") \/ Complete(c, WorkerOf[c], calls[c].fence, "failed")
        /\ calls' = [calls EXCEPT ![c].at = "concluded"] /\ c \in Jobs
    BY <1>4, LocalsAre DEF Conclude, Go
  <2>2. QED
    BY <2>1, CompleteKeeps
<1>5. QED
  BY <1>1, <1>3, <1>4 DEF Contract

LEMMA JobsStep ==
  ASSUME JobsInv, [Next]_vars
  PROVE  JobsInv' /\ [Lifecycle!Next]_(Lifecycle!vars)
<1>1. ASSUME \/ \E p \in Openers : Open(p) \/ Initialize(p)
             \/ \E p \in Profiles : \E expected \in {None} \cup (IF registry = None THEN {} ELSE {registry.revision}) :
                   Register(p, expected)
             \/ \E j \in Jobs : Negotiate(j)
      PROVE  JobsInv' /\ UNCHANGED Lifecycle!vars
  <2>1. RegistryOK' /\ UNCHANGED <<jobs, fence, calls, started>>
    BY <1>1, RegistrySteps DEF JobsInv
  <2>2. JobsOK /\ CallsOK
    BY DEF JobsInv
  <2>3. UNCHANGED Lifecycle!vars /\ Running' = Running /\ \A k \in Jobs : Done(k)' <=> Done(k)
    BY <2>1, <2>2, LifecycleStays DEF JobsOK
  <2>4. JobsOK' /\ CallsOK'
    BY <2>1, <2>2, <2>3, LocalsAre DEF JobsOK, CallsOK, At
  <2>5. QED
    BY <2>1, <2>3, <2>4 DEF JobsInv
<1>2. ASSUME NEW j \in Jobs, Enqueue(j) PROVE JobsInv' /\ UNCHANGED Lifecycle!vars
  BY <1>2, EnqueueKeeps
<1>3. ASSUME NEW j \in Jobs, NEW w \in Workers, TakeWork(j, w) PROVE JobsInv' /\ Lifecycle!Next
  BY <1>3, DispatchKeeps DEF TakeWork, WorkerNames
<1>4. ASSUME NEW j \in Jobs, NEW w \in Workers, NEW status \in {"done", "failed"}, Report(j, w, status)
      PROVE  JobsInv' /\ Lifecycle!Next
  BY <1>4, CompleteKeeps DEF Report
<1>5. ASSUME NEW c \in Contractors, Contract(c) \/ Raise(c)
      PROVE  JobsInv' /\ (Lifecycle!Next \/ UNCHANGED Lifecycle!vars)
  BY <1>5, ContractKeeps
<1>6. CASE UNCHANGED vars
  <2>1. UNCHANGED <<registry, opening, jobs, fence, submitting, calls, started>>
    BY <1>6 DEF vars
  <2>2. RegistryOK /\ JobsOK /\ CallsOK
    BY DEF JobsInv
  <2>3. UNCHANGED Lifecycle!vars /\ Running' = Running /\ \A k \in Jobs : Done(k)' <=> Done(k)
    BY <2>1, <2>2, LifecycleStays DEF JobsOK
  <2>4. RegistryOK' /\ JobsOK' /\ CallsOK'
    BY <2>1, <2>2, <2>3, LocalsAre DEF RegistryOK, JobsOK, CallsOK, At
  <2>5. QED
    BY <2>3, <2>4 DEF JobsInv
<1>7. QED
  BY <1>1, <1>2, <1>3, <1>4, <1>5, <1>6 DEF Next, Submit

LEMMA JobsAreAgreed ==
  ASSUME JobsInv
  PROVE  TypeOK /\ DispatchedAsSubmitted /\ ConcludesItsOwnJob
<1>1. registry = None \/ registry.revision \in 0..Cardinality(Adapters)
  <2>1. CASE registry # None
    <3>1. registry.revision = Cardinality(Filled(registry.profiles)) /\ Filled(registry.profiles) \subseteq Adapters
      BY <2>1 DEF JobsInv, RegistryOK, Filled
    <3>2. /\ Cardinality(Filled(registry.profiles)) <= Cardinality(Adapters)
          /\ Cardinality(Filled(registry.profiles)) \in Nat /\ Cardinality(Adapters) \in Nat
      BY <3>1, LocalsAre, FS_Subset, FS_CardinalityType
    <3>3. QED
      BY <3>1, <3>2
  <2>2. QED
    BY <2>1
<1>2. ASSUME NEW j \in Jobs, jobs[j] # None
      PROVE  /\ jobs[j].state \in States /\ ((jobs[j].lease # None) <=> (jobs[j].state = "running"))
             /\ jobs[j].attempts \in 0..(JobSpec[j].retries + 1)
             /\ jobs[j].state \in {"done", "failed"} => jobs[j].attempts > 0
  BY <1>2, LocalsAre DEF JobsInv, JobsOK, Recorded, Records
<1>3. TypeOK
  BY <1>1, <1>2 DEF JobsInv, RegistryOK, JobsOK, TypeOK
<1>4. DispatchedAsSubmitted /\ ConcludesItsOwnJob
  BY DEF JobsInv, JobsOK, CallsOK, DispatchedAsSubmitted, ConcludesItsOwnJob
<1>5. QED
  BY <1>3, <1>4

---------------------------------------------------------------------------
(* The gates.                                                              *)
Ids       == {Gates!OperationId(r) : r \in Gates!Requests}
Responses == [request : Gates!Requests, outcome : UNION {Gates!Outcomes(a) : a \in Gates!Authorities}]
Purposes  == {"admit", "accept"}
Askings   == [at : {"asking", "waiting"}, purpose : Purposes, task : Tasks, revision : Revisions,
              gate : Nat, attempt : Nat, trace : Seq(Responses)]

(* The books of the authorities: what was decided is what is repeated.      *)
BooksOK ==
  /\ memory \in [Ids -> Responses \cup {None}]
  /\ decided \subseteq Responses
  /\ \A id \in Ids : memory[id] # None =>
       /\ Gates!OperationId(memory[id].request) = id /\ memory[id].outcome # Gates!Transient /\ memory[id] \in decided
  /\ \A d \in decided : memory[Gates!OperationId(d.request)] = d

PipesOK ==
  /\ inbox \in [Gates!Authorities -> Seq(Gates!Requests)]
  /\ outbox \in [Gates!Authorities -> Seq(Responses)]
  /\ \A a \in Gates!Authorities : \A i \in 1..Len(inbox[a]) : inbox[a][i].authority = a
  /\ \A a \in Gates!Authorities : \A i \in 1..Len(outbox[a]) :
       /\ outbox[a][i].request.authority = a
       /\ outbox[a][i].outcome # Gates!Transient => outbox[a][i] \in decided

(* Of those decided, d lets the i-th gate of a call about task at revision  *)
(* go on.                                                                   *)
LetsOn(purpose, task, revision, i, d) ==
  /\ d.outcome \in Gates!Expected[Gates!Gates(purpose)[i]]
  /\ d.request = [authority |-> Gates!Gates(purpose)[i], purpose |-> purpose, task |-> task, revision |-> revision]

(* A call has been let on by the gates before the one that it is at.        *)
Passed(x, D) ==
  /\ x.gate \in 1..Len(Gates!Gates(x.purpose)) /\ x.attempt \in 1..MaxAttempts
  /\ Len(x.trace) = x.gate - 1
  /\ \A i \in 1..Len(x.trace) : x.trace[i] \in D /\ LetsOn(x.purpose, x.task, x.revision, i, x.trace[i])

(* A call that returned has been let on by every gate.                      *)
PassedAll(g, D) ==
  /\ g.trace \in Seq(Responses) /\ Len(g.trace) = Len(Gates!Gates(g.purpose))
  /\ \A i \in 1..Len(g.trace) : g.trace[i] \in D /\ LetsOn(g.purpose, g.task, g.revision, i, g.trace[i])

CallsPassed ==
  /\ call = Gates!NoCall \/ (call \in Askings /\ Passed(call, decided))
  /\ \A g \in granted : PassedAll(g, decided)

GatesInv == BooksOK /\ PipesOK /\ CallsPassed

LEMMA GatesAre ==
  /\ \A r \in Responses : r # None
  /\ \A p \in Purposes : /\ Gates!Gates(p) \in Seq(Gates!Authorities) /\ Len(Gates!Gates(p)) \in Nat \ {0}
                         /\ \A i \in 1..Len(Gates!Gates(p)) : Gates!Gates(p)[i] \in Gates!Authorities
  /\ \A a \in Gates!Authorities : Gates!Transient \notin Gates!Expected[a]
  /\ \A x \in Askings : x # Gates!NoCall /\ x.at # "none"
  /\ Gates!NoCall.at = "none" /\ MaxAttempts \in Nat /\ 1 \in 1..MaxAttempts
<1>1. \A r \in Responses : r # None
  BY GatesAssumption DEF Responses
<1>2. ASSUME NEW p \in Purposes
      PROVE  /\ Gates!Gates(p) \in Seq(Gates!Authorities) /\ Len(Gates!Gates(p)) \in Nat \ {0}
             /\ \A i \in 1..Len(Gates!Gates(p)) : Gates!Gates(p)[i] \in Gates!Authorities
  <2>1. CASE p = "admit"
    <3>1. Gates!Gates(p) = <<"coordinator", "awq", "awg", "ui">>
      BY <2>1 DEF Gates!Gates
    <3>2. QED
      BY <3>1 DEF Gates!Authorities
  <2>2. CASE p = "accept"
    <3>1. Gates!Gates(p) = <<"awq", "awg", "ui">>
      BY <2>2 DEF Gates!Gates
    <3>2. QED
      BY <3>1 DEF Gates!Authorities
  <2>3. QED
    BY <2>1, <2>2 DEF Purposes
<1>3. \A a \in Gates!Authorities : Gates!Transient \notin Gates!Expected[a]
  BY DEF Gates!Authorities, Gates!Transient, Gates!Expected
<1>4. \A x \in Askings : x.at # Gates!NoCall.at /\ x.at # "none"
  BY DEF Askings, Gates!NoCall
<1>5. Gates!NoCall.at = "none" /\ MaxAttempts \in Nat /\ 1 \in 1..MaxAttempts
  BY GatesAssumption DEF Gates!NoCall
<1>6. QED
  BY <1>1, <1>2, <1>3, <1>4, <1>5

LEMMA GatesStart ==
  ASSUME Gates!Init
  PROVE  GatesInv
<1>1. /\ call = Gates!NoCall /\ memory = [id \in Ids |-> None] /\ decided = {} /\ granted = {}
      /\ inbox = [a \in Gates!Authorities |-> <<>>] /\ outbox = [a \in Gates!Authorities |-> <<>>]
  BY DEF Gates!Init, Ids
<1>2. BooksOK
  BY <1>1 DEF BooksOK
<1>3. PipesOK
  BY <1>1 DEF PipesOK
<1>4. QED
  BY <1>1, <1>2, <1>3 DEF GatesInv, CallsPassed

(* An authority answers, and remembers.                                     *)
LEMMA BooksAreKept ==
  ASSUME BooksOK, NEW q \in Gates!Requests, NEW response \in Gates!Answers(q), Gates!Remember(q, response)
  PROVE  /\ BooksOK' /\ decided \subseteq decided' /\ response \in Responses
         /\ response.request.authority = q.authority
         /\ response.outcome # Gates!Transient => response \in decided'
<1> DEFINE id == Gates!OperationId(q)
<1>1. id \in Ids /\ id = [authority |-> q.authority, purpose |-> q.purpose, task |-> q.task]
  BY DEF Ids, Gates!OperationId
<1>2. /\ memory' = IF response.outcome = Gates!Transient THEN memory ELSE [memory EXCEPT ![id] = response]
      /\ decided' = IF response.outcome = Gates!Transient \/ response = memory[id] THEN decided ELSE decided \cup {response}
  BY DEF Gates!Remember
<1>3. response \in IF memory[id] # None THEN {memory[id]} ELSE {Gates!Response(q, o) : o \in Gates!Outcomes(q.authority)}
  BY DEF Gates!Answers
<1> HIDE DEF id
<1>4. CASE memory[id] # None
  <2>1. /\ response = memory[id] /\ Gates!OperationId(response.request) = id /\ response \in Responses
        /\ response.outcome # Gates!Transient /\ response \in decided
    BY <1>1, <1>3, <1>4 DEF BooksOK
  <2>2. memory' = memory /\ decided' = decided
    BY <1>1, <1>2, <2>1 DEF BooksOK
  <2>3. response.request.authority = q.authority
    BY <1>1, <2>1 DEF Gates!OperationId
  <2>4. QED
    BY <2>1, <2>2, <2>3 DEF BooksOK
<1>5. CASE memory[id] = None
  <2>1. PICK o \in Gates!Outcomes(q.authority) : response = Gates!Response(q, o)
    BY <1>3, <1>5
  <2>2. q.authority \in Gates!Authorities
    BY DEF Gates!Requests
  <2>3. response \in Responses /\ response.request = q
    BY <2>1, <2>2 DEF Gates!Response, Responses
  <2>4. Gates!OperationId(response.request) = id /\ response # None
    BY <2>3, GatesAre DEF id
  <2>5. CASE response.outcome = Gates!Transient
    BY <1>2, <2>3, <2>5 DEF BooksOK
  <2>6. CASE response.outcome # Gates!Transient
    <3>1. memory' = [memory EXCEPT ![id] = response] /\ decided' = decided \cup {response}
      BY <1>2, <1>5, <2>4, <2>6
    <3>2. memory' \in [Ids -> Responses \cup {None}] /\ memory'[id] = response /\ \A e \in Ids \ {id} : memory'[e] = memory[e]
      BY <1>1, <2>3, <3>1 DEF BooksOK
    <3>3. ASSUME NEW d \in decided' PROVE memory'[Gates!OperationId(d.request)] = d
      <4>1. CASE d = response
        BY <2>4, <3>2, <4>1
      <4>2. CASE d \in decided
        <5>1. memory[Gates!OperationId(d.request)] = d /\ d \in Responses /\ d # None
          BY <4>2, GatesAre DEF BooksOK
        <5>2. Gates!OperationId(d.request) \in Ids /\ Gates!OperationId(d.request) # id
          BY <1>5, <5>1 DEF Ids, Responses
        <5>3. QED
          BY <3>2, <5>1, <5>2
      <4>3. QED
        BY <3>1, <4>1, <4>2
    <3>4. ASSUME NEW e \in Ids, memory'[e] # None
          PROVE  Gates!OperationId(memory'[e].request) = e /\ memory'[e].outcome # Gates!Transient /\ memory'[e] \in decided'
      <4>1. CASE e = id
        BY <2>4, <2>6, <3>1, <3>2, <4>1
      <4>2. CASE e # id
        BY <3>1, <3>2, <3>4, <4>2 DEF BooksOK
      <4>3. QED
        BY <4>1, <4>2
    <3>5. BooksOK'
      BY <2>3, <3>1, <3>2, <3>3, <3>4 DEF BooksOK
    <3>6. QED
      BY <2>3, <3>1, <3>5
  <2>7. QED
    BY <2>5, <2>6
<1>6. QED
  BY <1>4, <1>5

LEMMA ServeKeeps ==
  ASSUME GatesInv, NEW a \in Gates!Authorities, Gates!Serve(a)
  PROVE  GatesInv'
<1> DEFINE q == Head(inbox[a])
<1>1. PICK response \in Gates!Answers(q) :
         /\ Gates!Remember(q, response) /\ outbox' = [outbox EXCEPT ![a] = Append(outbox[a], response)]
         /\ inbox[a] # <<>> /\ inbox' = [inbox EXCEPT ![a] = Tail(inbox[a])] /\ UNCHANGED <<call, granted>>
  BY DEF Gates!Serve
<1>2. BooksOK /\ PipesOK /\ CallsPassed /\ inbox[a] \in Seq(Gates!Requests) /\ outbox[a] \in Seq(Responses)
  BY DEF GatesInv, PipesOK
<1>3. q \in Gates!Requests /\ q.authority = a
  BY <1>1, <1>2 DEF PipesOK
<1> HIDE DEF q
<1>4. /\ BooksOK' /\ decided \subseteq decided' /\ response \in Responses /\ response.request.authority = a
      /\ response.outcome # Gates!Transient => response \in decided'
  BY <1>1, <1>2, <1>3, BooksAreKept
<1>5. PipesOK'
  <2>1. /\ inbox' \in [Gates!Authorities -> Seq(Gates!Requests)]
        /\ \A b \in Gates!Authorities : \A i \in 1..Len(inbox'[b]) : inbox'[b][i].authority = b
    <3>1. Tail(inbox[a]) \in Seq(Gates!Requests) /\ \A i \in 1..Len(Tail(inbox[a])) : Tail(inbox[a])[i].authority = a
      <4>1. \A i \in 1..Len(inbox[a]) : inbox[a][i].authority = a
        BY <1>2 DEF PipesOK
      <4>2. QED
        BY <1>1, <1>2, <4>1
    <3>2. inbox'[a] = Tail(inbox[a]) /\ \A b \in Gates!Authorities \ {a} : inbox'[b] = inbox[b]
      BY <1>1, <1>2 DEF PipesOK
    <3>3. QED
      BY <1>1, <1>2, <3>1, <3>2 DEF PipesOK
  <2>2. /\ outbox' \in [Gates!Authorities -> Seq(Responses)]
        /\ \A b \in Gates!Authorities : \A i \in 1..Len(outbox'[b]) :
              outbox'[b][i].request.authority = b /\ (outbox'[b][i].outcome # Gates!Transient => outbox'[b][i] \in decided')
    <3> DEFINE new == Append(outbox[a], response)
    <3>1. new \in Seq(Responses) /\ \A i \in 1..Len(new) :
              new[i].request.authority = a /\ (new[i].outcome # Gates!Transient => new[i] \in decided')
      <4>1. \A i \in 1..Len(outbox[a]) :
              outbox[a][i].request.authority = a /\ (outbox[a][i].outcome # Gates!Transient => outbox[a][i] \in decided')
        BY <1>2, <1>4 DEF PipesOK
      <4>2. new \in Seq(Responses) /\ Len(new) = Len(outbox[a]) + 1 /\ Len(outbox[a]) \in Nat
            /\ new[Len(outbox[a]) + 1] = response /\ \A i \in 1..Len(outbox[a]) : new[i] = outbox[a][i]
        BY <1>2, <1>4
      <4> HIDE DEF new
      <4>3. QED
        BY <1>4, <4>1, <4>2
    <3>2. outbox'[a] = new /\ \A b \in Gates!Authorities \ {a} : outbox'[b] = outbox[b]
      BY <1>1, <1>2 DEF PipesOK
    <3> HIDE DEF new
    <3>3. outbox' \in [Gates!Authorities -> Seq(Responses)]
      BY <1>1, <1>2, <3>1 DEF PipesOK, new
    <3>4. QED
      BY <1>2, <1>4, <3>1, <3>2, <3>3 DEF PipesOK
  <2>3. QED
    BY <2>1, <2>2 DEF PipesOK
<1>6. CallsPassed'
  BY <1>1, <1>2, <1>4 DEF CallsPassed, Passed, PassedAll
<1>7. QED
  BY <1>4, <1>5, <1>6 DEF GatesInv

(* What was let on stays so when more is decided.                           *)
LEMMA PassedStay ==
  ASSUME CallsPassed, decided \subseteq decided'
  PROVE  /\ call # Gates!NoCall => call \in Askings /\ Passed(call, decided')
         /\ \A g \in granted : PassedAll(g, decided')
BY DEF CallsPassed, Passed, PassedAll

LEMMA RaiseKeeps ==
  ASSUME CallsPassed, decided \subseteq decided', Gates!Raise
  PROVE  CallsPassed'
BY PassedStay DEF Gates!Raise, CallsPassed

LEMMA RetryKeeps ==
  ASSUME CallsPassed, decided \subseteq decided', call \in Askings, call.attempt < MaxAttempts, Gates!Retry
  PROVE  CallsPassed'
<1> DEFINE y == [call EXCEPT !.at = "asking", !.attempt = call.attempt + 1]
<1>1. call' = y /\ granted' = granted
  BY DEF Gates!Retry
<1>2. Passed(call, decided') /\ \A g \in granted : PassedAll(g, decided')
  BY PassedStay, GatesAre
<1>3. call.attempt + 1 \in Nat /\ call.attempt \in Nat /\ call.attempt + 1 \in 1..MaxAttempts
  BY <1>2, GatesAre DEF Passed, Askings
<1>4. y \in Askings /\ y.purpose = call.purpose /\ y.task = call.task /\ y.revision = call.revision
      /\ y.gate = call.gate /\ y.attempt = call.attempt + 1 /\ y.trace = call.trace
  BY <1>3 DEF Askings
<1> HIDE DEF y
<1>5. Passed(y, decided')
  BY <1>2, <1>3, <1>4 DEF Passed
<1>6. QED
  BY <1>1, <1>2, <1>4, <1>5 DEF CallsPassed

LEMMA ValidateKeeps ==
  ASSUME CallsPassed, decided \subseteq decided', call \in Askings, NEW response \in Responses,
         response.outcome # Gates!Transient => response \in decided', Gates!Validate(response)
  PROVE  CallsPassed'
<1> DEFINE trace == Append(call.trace, response)
           n     == Len(call.trace)
<1>1. Passed(call, decided') /\ \A g \in granted : PassedAll(g, decided')
  BY PassedStay, GatesAre
<1>2. CASE Gates!Raise
  BY <1>2, RaiseKeeps
<1>3. CASE ~Gates!Raise
  <2>1. Gates!Corresponds(response) /\ Gates!GoesOn(response) /\ Gates!Observe(response)
    BY <1>3 DEF Gates!Validate, Gates!Observe
  <2>2. /\ response.request = [authority |-> Gates!Gates(call.purpose)[call.gate], purpose |-> call.purpose,
                               task |-> call.task, revision |-> call.revision]
        /\ response.outcome \in Gates!Expected[Gates!Gates(call.purpose)[call.gate]]
    BY <2>1 DEF Gates!Corresponds, Gates!Request, Gates!GoesOn, Gates!Asked
  <2>3. /\ call.purpose \in Purposes /\ call.trace \in Seq(Responses) /\ n \in Nat /\ call.gate \in Nat
        /\ call.gate = n + 1 /\ call.gate \in 1..Len(Gates!Gates(call.purpose)) /\ Len(Gates!Gates(call.purpose)) \in Nat
    BY <1>1, GatesAre DEF Passed, Askings
  <2>4. LetsOn(call.purpose, call.task, call.revision, n + 1, response)
    BY <2>2, <2>3 DEF LetsOn
  <2>5. response \in decided'
    <3>1. Gates!Gates(call.purpose)[call.gate] \in Gates!Authorities
      BY <2>3, GatesAre
    <3>2. QED
      BY <2>2, <3>1, GatesAre
  <2>6. /\ trace \in Seq(Responses) /\ Len(trace) = n + 1
        /\ trace[n + 1] = response /\ \A i \in 1..n : trace[i] = call.trace[i]
    BY <2>3
  <2> HIDE DEF trace
  <2>7. \A i \in 1..Len(trace) :
           trace[i] \in decided' /\ LetsOn(call.purpose, call.task, call.revision, i, trace[i])
    <3>1. ASSUME NEW i \in 1..n PROVE trace[i] \in decided' /\ LetsOn(call.purpose, call.task, call.revision, i, trace[i])
      BY <1>1, <2>6 DEF Passed
    <3>2. \A i \in 1..(n + 1) : i \in 1..n \/ i = n + 1
      BY <2>3
    <3>3. QED
      BY <2>4, <2>5, <2>6, <3>1, <3>2
  <2>8. CASE call.gate < Len(Gates!Gates(call.purpose))
    <3> DEFINE y == [call EXCEPT !.at = "asking", !.gate = call.gate + 1, !.attempt = 1, !.trace = trace]
    <3>1. call' = y /\ granted' = granted
      BY <2>1, <2>8 DEF Gates!Observe, trace
    <3>2. call.gate + 1 \in Nat /\ 1 \in Nat
      BY <2>3
    <3>3. y \in Askings /\ y.purpose = call.purpose /\ y.task = call.task /\ y.revision = call.revision
          /\ y.gate = call.gate + 1 /\ y.attempt = 1 /\ y.trace = trace
      BY <2>6, <3>2 DEF Askings
    <3> HIDE DEF y
    <3>4. y.gate \in 1..Len(Gates!Gates(y.purpose)) /\ Len(y.trace) = y.gate - 1
      BY <2>3, <2>6, <2>8, <3>3
    <3>5. Passed(y, decided')
      BY <2>7, <3>3, <3>4, GatesAre DEF Passed
    <3>6. QED
      BY <1>1, <3>1, <3>3, <3>5 DEF CallsPassed
  <2>9. CASE ~(call.gate < Len(Gates!Gates(call.purpose)))
    <3> DEFINE g == [purpose |-> call.purpose, task |-> call.task, revision |-> call.revision, trace |-> trace]
    <3>1. call' = Gates!NoCall /\ granted' = granted \cup {g}
      BY <2>1, <2>9 DEF Gates!Observe, trace
    <3>2. Len(trace) = Len(Gates!Gates(call.purpose))
      BY <2>3, <2>6, <2>9
    <3>3. PassedAll(g, decided')
      BY <2>6, <2>7, <3>2 DEF PassedAll
    <3> HIDE DEF g
    <3>4. QED
      BY <1>1, <3>1, <3>3 DEF CallsPassed
  <2>10. QED
    BY <2>8, <2>9
<1>4. QED
  BY <1>2, <1>3

LEMMA JudgeKeeps ==
  ASSUME CallsPassed, decided \subseteq decided', call \in Askings, NEW response \in Responses,
         response.outcome # Gates!Transient => response \in decided', Gates!Judge(response)
  PROVE  CallsPassed'
<1>1. CASE response.outcome = Gates!Transient /\ call.attempt < MaxAttempts
  BY <1>1, RetryKeeps DEF Gates!Judge
<1>2. CASE ~(response.outcome = Gates!Transient /\ call.attempt < MaxAttempts)
  BY <1>2, ValidateKeeps DEF Gates!Judge
<1>3. QED
  BY <1>1, <1>2

(* What a call in progress asks.                                            *)
LEMMA RequestIs ==
  ASSUME CallsPassed, call.at # "none"
  PROVE  /\ call \in Askings /\ Gates!Asked \in Gates!Authorities
         /\ Gates!Request \in Gates!Requests /\ Gates!Request.authority = Gates!Asked
<1>1. call \in Askings /\ Passed(call, decided)
  BY GatesAre DEF CallsPassed
<1>2. call.purpose \in Purposes /\ call.gate \in 1..Len(Gates!Gates(call.purpose)) /\ call.task \in Tasks /\ call.revision \in Revisions
  BY <1>1 DEF Passed, Askings
<1>3. Gates!Asked \in Gates!Authorities
  BY <1>2, GatesAre DEF Gates!Asked
<1>4. Gates!Request \in Gates!Requests /\ Gates!Request.authority = Gates!Asked
  BY <1>2, <1>3 DEF Gates!Request, Gates!Requests, Purposes
<1>5. QED
  BY <1>1, <1>3, <1>4

LEMMA BeginKeeps ==
  ASSUME GatesInv, NEW purpose \in Purposes, NEW t \in Tasks, NEW r \in Revisions, Gates!Begin(purpose, t, r)
  PROVE  GatesInv'
<1> DEFINE x == [at |-> "asking", purpose |-> purpose, task |-> t, revision |-> r, gate |-> 1, attempt |-> 1, trace |-> <<>>]
<1>1. call' = x /\ UNCHANGED <<memory, inbox, outbox, decided, granted>>
  BY DEF Gates!Begin
<1>2. x \in Askings /\ Passed(x, decided)
  <2>1. 1 \in 1..Len(Gates!Gates(purpose)) /\ 1 \in 1..MaxAttempts
    BY GatesAre
  <2>2. QED
    BY <2>1 DEF Askings, Passed
<1> HIDE DEF x
<1>3. QED
  BY <1>1, <1>2 DEF GatesInv, BooksOK, PipesOK, CallsPassed

(* One of the two kinds in which an authority is asked by the caller itself. *)
LEMMA AskDirectlyKeeps ==
  ASSUME GatesInv, Gates!AskLocal \/ Gates!AskHosted \/ Gates!TransportFails
  PROVE  GatesInv'
<1>1. BooksOK /\ PipesOK /\ CallsPassed
  BY DEF GatesInv
<1>2. call.at # "none" /\ UNCHANGED <<inbox, outbox>>
  BY DEF Gates!AskLocal, Gates!AskHosted, Gates!TransportFails, Gates!Asking
<1>3. call \in Askings /\ Gates!Request \in Gates!Requests
  BY <1>1, <1>2, RequestIs
<1>4. ASSUME NEW response \in Gates!Answers(Gates!Request), Gates!Remember(Gates!Request, response),
             Gates!Judge(response) \/ Gates!Validate(response) \/ Gates!Raise
      PROVE  GatesInv'
  <2>1. /\ BooksOK' /\ decided \subseteq decided' /\ response \in Responses
        /\ response.outcome # Gates!Transient => response \in decided'
    BY <1>1, <1>3, <1>4, BooksAreKept
  <2>2. CallsPassed'
    BY <1>1, <1>3, <1>4, <2>1, JudgeKeeps, ValidateKeeps, RaiseKeeps
  <2>3. PipesOK'
    BY <1>1, <1>2, <2>1 DEF PipesOK
  <2>4. QED
    BY <2>1, <2>2, <2>3 DEF GatesInv
<1>5. CASE Gates!AskLocal
  BY <1>4, <1>5 DEF Gates!AskLocal
<1>6. CASE Gates!AskHosted
  BY <1>4, <1>6 DEF Gates!AskHosted
<1>7. CASE Gates!TransportFails
  <2>1. UNCHANGED <<memory, decided>> /\ ((call.attempt < MaxAttempts /\ Gates!Retry) \/ Gates!Raise)
    BY <1>7 DEF Gates!TransportFails
  <2>2. CallsPassed'
    BY <1>1, <1>3, <2>1, RetryKeeps, RaiseKeeps
  <2>3. QED
    BY <1>1, <1>2, <2>1, <2>2 DEF GatesInv, BooksOK, PipesOK
<1>8. QED
  BY <1>5, <1>6, <1>7

LEMMA SendKeeps ==
  ASSUME GatesInv, Gates!Send
  PROVE  GatesInv'
<1> DEFINE a == Gates!Asked
           q == Gates!Request
           y == [call EXCEPT !.at = "waiting"]
           new == Append(inbox[a], q)
<1>1. /\ call.at = "asking" /\ inbox' = [inbox EXCEPT ![a] = new] /\ call' = y
      /\ UNCHANGED <<memory, outbox, decided, granted>>
  BY DEF Gates!Send, Gates!Asking
<1>2. BooksOK /\ PipesOK /\ CallsPassed
  BY DEF GatesInv
<1>3. call \in Askings /\ a \in Gates!Authorities /\ q \in Gates!Requests /\ q.authority = a
  BY <1>1, <1>2, RequestIs
<1> HIDE DEF a, q
<1>4. /\ new \in Seq(Gates!Requests) /\ \A i \in 1..Len(new) : new[i].authority = a
  <2>1. inbox[a] \in Seq(Gates!Requests) /\ \A i \in 1..Len(inbox[a]) : inbox[a][i].authority = a
    BY <1>2, <1>3 DEF PipesOK
  <2>2. new \in Seq(Gates!Requests) /\ Len(new) = Len(inbox[a]) + 1 /\ Len(inbox[a]) \in Nat
        /\ new[Len(inbox[a]) + 1] = q /\ \A i \in 1..Len(inbox[a]) : new[i] = inbox[a][i]
    BY <1>3, <2>1
  <2> HIDE DEF new
  <2>3. QED
    BY <1>3, <2>1, <2>2
<1> HIDE DEF new
<1>5. PipesOK'
  <2>1. inbox' \in [Gates!Authorities -> Seq(Gates!Requests)]
    BY <1>1, <1>2, <1>4 DEF PipesOK
  <2>2. inbox'[a] = new /\ \A b \in Gates!Authorities \ {a} : inbox'[b] = inbox[b]
    BY <1>1, <1>2, <1>3 DEF PipesOK
  <2>3. QED
    BY <1>1, <1>2, <1>4, <2>1, <2>2 DEF PipesOK
<1>6. y \in Askings /\ Passed(y, decided)
  <2>1. /\ y \in Askings /\ y.purpose = call.purpose /\ y.task = call.task /\ y.revision = call.revision
        /\ y.gate = call.gate /\ y.attempt = call.attempt /\ y.trace = call.trace
    BY <1>3 DEF Askings
  <2>2. Passed(call, decided)
    BY <1>2, <1>3, GatesAre DEF CallsPassed
  <2> HIDE DEF y
  <2>3. QED
    BY <2>1, <2>2 DEF Passed
<1> HIDE DEF y
<1>7. QED
  BY <1>1, <1>2, <1>5, <1>6 DEF GatesInv, BooksOK, CallsPassed

LEMMA ReceiveKeeps ==
  ASSUME GatesInv, Gates!Receive
  PROVE  GatesInv'
<1> DEFINE a == Gates!Asked
           response == Head(outbox[a])
           rest == Tail(outbox[a])
<1>1. /\ call.at = "waiting" /\ outbox[a] # <<>> /\ Gates!Judge(response) /\ outbox' = [outbox EXCEPT ![a] = rest]
      /\ UNCHANGED <<memory, inbox, decided>>
  BY DEF Gates!Receive
<1>2. BooksOK /\ PipesOK /\ CallsPassed
  BY DEF GatesInv
<1>3. call \in Askings /\ a \in Gates!Authorities
  BY <1>1, <1>2, RequestIs
<1> HIDE DEF a
<1>4. /\ outbox[a] \in Seq(Responses)
      /\ \A i \in 1..Len(outbox[a]) :
            outbox[a][i].request.authority = a /\ (outbox[a][i].outcome # Gates!Transient => outbox[a][i] \in decided)
  BY <1>2, <1>3 DEF PipesOK
<1>5. response \in Responses /\ (response.outcome # Gates!Transient => response \in decided)
  BY <1>1, <1>4
<1>6. /\ rest \in Seq(Responses)
      /\ \A i \in 1..Len(rest) :
            rest[i].request.authority = a /\ (rest[i].outcome # Gates!Transient => rest[i] \in decided)
  BY <1>1, <1>4
<1> HIDE DEF response, rest
<1>7. CallsPassed'
  BY <1>1, <1>2, <1>3, <1>5, JudgeKeeps
<1>8. PipesOK'
  <2>1. outbox' \in [Gates!Authorities -> Seq(Responses)]
    BY <1>1, <1>2, <1>6 DEF PipesOK
  <2>2. outbox'[a] = rest /\ \A b \in Gates!Authorities \ {a} : outbox'[b] = outbox[b]
    BY <1>1, <1>2, <1>3 DEF PipesOK
  <2>3. QED
    BY <1>1, <1>2, <1>6, <2>1, <2>2 DEF PipesOK
<1>9. QED
  BY <1>1, <1>2, <1>7, <1>8 DEF GatesInv, BooksOK

LEMMA TimesOutKeeps ==
  ASSUME GatesInv, Gates!TimesOut
  PROVE  GatesInv'
<1>1. Gates!Raise /\ UNCHANGED <<memory, inbox, outbox, decided>>
  BY DEF Gates!TimesOut
<1>2. BooksOK /\ PipesOK /\ CallsPassed
  BY DEF GatesInv
<1>3. QED
  BY <1>1, <1>2, RaiseKeeps DEF GatesInv, BooksOK, PipesOK

LEMMA GatesStep ==
  ASSUME GatesInv, [Gates!Next]_(Gates!vars)
  PROVE  GatesInv'
<1>1. ASSUME NEW purpose \in {"admit", "accept"}, NEW t \in Tasks, NEW r \in Revisions, Gates!Begin(purpose, t, r)
      PROVE  GatesInv'
  BY <1>1, BeginKeeps DEF Purposes
<1>2. ASSUME NEW a \in Gates!Authorities, Gates!Serve(a) PROVE GatesInv'
  BY <1>2, ServeKeeps
<1>3. CASE Gates!Ask
  BY <1>3, AskDirectlyKeeps, SendKeeps, ReceiveKeeps, TimesOutKeeps DEF Gates!Ask
<1>4. CASE UNCHANGED Gates!vars
  BY <1>4 DEF Gates!vars, GatesInv, BooksOK, PipesOK, CallsPassed
<1>5. QED
  BY <1>1, <1>2, <1>3, <1>4 DEF Gates!Next

LEMMA GrantsAreBacked ==
  ASSUME GatesInv
  PROVE  Gates!TypeOK /\ Gates!GrantedByEveryGate /\ Gates!DecidedOnce
<1>1. BooksOK /\ PipesOK /\ CallsPassed
  BY DEF GatesInv
<1>2. Gates!TypeOK
  <2>1. call.at \in {"none", "asking", "waiting"}
    BY <1>1, GatesAre DEF CallsPassed, Askings
  <2>2. call.at # "none" => call.gate \in DOMAIN Gates!Gates(call.purpose) /\ call.attempt \in 1..MaxAttempts
    <3>1. ASSUME call.at # "none" PROVE call.gate \in DOMAIN Gates!Gates(call.purpose) /\ call.attempt \in 1..MaxAttempts
      <4>1. call \in Askings /\ Passed(call, decided)
        BY <1>1, <3>1, GatesAre DEF CallsPassed
      <4>2. Gates!Gates(call.purpose) \in Seq(Gates!Authorities)
        BY <4>1, GatesAre DEF Askings
      <4>3. QED
        BY <4>1, <4>2 DEF Passed
    <3>2. QED
      BY <3>1
  <2>3. \A id \in DOMAIN memory : memory[id] # None =>
           Gates!OperationId(memory[id].request) = id /\ memory[id].outcome # Gates!Transient
    BY <1>1 DEF BooksOK
  <2>4. \A a \in Gates!Authorities : DOMAIN inbox[a] = 1..Len(inbox[a]) /\ DOMAIN outbox[a] = 1..Len(outbox[a])
    <3>1. \A a \in Gates!Authorities : inbox[a] \in Seq(Gates!Requests) /\ outbox[a] \in Seq(Responses)
      BY <1>1 DEF PipesOK
    <3>2. QED
      BY <3>1
  <2>5. QED
    BY <1>1, <2>1, <2>2, <2>3, <2>4 DEF Gates!TypeOK, PipesOK
<1>3. Gates!GrantedByEveryGate
  <2>1. SUFFICES ASSUME NEW g \in granted
                 PROVE  /\ Len(g.trace) = Len(Gates!Gates(g.purpose))
                        /\ \A i \in DOMAIN g.trace :
                             LET a == Gates!Gates(g.purpose)[i] IN
                             \E d \in decided :
                               /\ d = g.trace[i] /\ d.outcome \in Gates!Expected[a]
                               /\ d.request = [authority |-> a, purpose |-> g.purpose, task |-> g.task, revision |-> g.revision]
    BY DEF Gates!GrantedByEveryGate
  <2>2. PassedAll(g, decided)
    BY <1>1 DEF CallsPassed
  <2>3. DOMAIN g.trace = 1..Len(g.trace)
    BY <2>2 DEF PassedAll
  <2>4. QED
    BY <2>2, <2>3 DEF PassedAll, LetsOn
<1>4. Gates!DecidedOnce
  BY <1>1 DEF BooksOK, Gates!DecidedOnce
<1>5. QED
  BY <1>2, <1>3, <1>4

---------------------------------------------------------------------------
(* Both side by side. *)

LEMMA BothAlways == MCSpec => [](JobsInv /\ GatesInv)
<1>1. MCInit => JobsInv /\ GatesInv
  BY JobsStart, GatesStart DEF MCInit
<1>2. [MCNext]_MCVars => [Next]_vars /\ [Gates!Next]_(Gates!vars)
  BY DEF MCNext, MCVars, AtJobs, AtGates, gateVars, Gates!vars
<1>3. JobsInv /\ GatesInv /\ [MCNext]_MCVars => (JobsInv /\ GatesInv)'
  BY <1>2, JobsStep, GatesStep
<1>4. QED
  BY <1>1, <1>3, PTL DEF MCSpec

(* A job is worked on under the profile its submission was negotiated for, *)
(* even when the registry was written anew meanwhile, and a contractor     *)
(* ends no job but its own, although contractors share a worker's name     *)
(* (awr_cli/scheduler_local.py, contractor.py, agent_registry.py).         *)
THEOREM JobsAreAlwaysWorkedAsAgreed == MCSpec => []JobsAreWorkedAsAgreed
<1>1. JobsInv => JobsAreWorkedAsAgreed
  BY JobsAreAgreed DEF JobsAreWorkedAsAgreed
<1>2. QED
  BY <1>1, BothAlways, PTL

(* Work is admitted, and an artifact accepted, only by what each authority *)
(* in turn decided of this task at this revision, and it decides an        *)
(* operation once, however often and however late it is asked              *)
(* (awr_cli/authority_gates.py, scripts/local_authority_transport.py,      *)
(* hosted_authority_transport.py, local_authority_bridge.py).              *)
THEOREM GrantsAreAlwaysDecided == MCSpec => []GrantsAreDecided
<1>1. GatesInv => GrantsAreDecided
  BY GrantsAreBacked DEF GrantsAreDecided
<1>2. QED
  BY <1>1, BothAlways, PTL

(* Through registrations, retries, and contractors that stop half-way, the *)
(* local scheduler keeps the lifecycle of a job: one lease at a time, no   *)
(* fence twice, as many starts as the retries allow, dependencies first,   *)
(* and over is over (awr_cli/scheduler_local.py).                          *)
THEOREM LocalSchedulerKeepsTheLifecycle == MCSpec => ImplementsLifecycle
<1>1. MCInit => Lifecycle!Init
  BY JobsStart DEF MCInit
<1>2. [MCNext]_MCVars => [Next]_vars
  BY DEF MCNext, MCVars, AtJobs, AtGates
<1>3. JobsInv /\ [MCNext]_MCVars => [Lifecycle!Next]_(Lifecycle!vars)
  BY <1>2, JobsStep
<1>4. QED
  BY <1>1, <1>3, BothAlways, PTL DEF MCSpec, ImplementsLifecycle, Lifecycle!Spec
=============================================================================
