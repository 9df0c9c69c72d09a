---------------------------- MODULE LocalRuntime ----------------------------
(***************************************************************************)
(* The file-backed runtime of the command line: the adapter registry       *)
(* (awr_cli/agent_registry.py), the local scheduler (scheduler_local.py)   *)
(* that negotiates with it, and its callers: contractors (contractor.py,   *)
(* and LocalMockWorkflow of local_llm_mock.py), each of which submits one  *)
(* job, dispatches, asks the gates, runs a session and completes, and      *)
(* workers who dispatch and complete from the command line.  Each file is  *)
(* replaced under its lock; a caller may stop for ever between two calls.  *)
(***************************************************************************)
EXTENDS Naturals, FiniteSets

CONSTANTS
    Jobs,           \* job identities: naturals, in the order of their names
    JobSpec,        \* job |-> [needs, priority, retries, adapter, capabilities]
    Contractors,    \* the jobs that a contractor submits and sees through
    Workers,        \* command-line workers, and the workers' names of contractors
    WorkerOf,       \* contractor |-> worker name
    MaxConcurrency,
    Profiles,       \* [adapter, digest, capabilities]: what may be registered
    Openers,        \* processes that open the registry's file
    None

VARIABLES
    registry,   \* the registry's file: None or [revision, profiles]
    opening,    \* openers that found no file and have not written theirs yet
    jobs,       \* the scheduler's file: job |-> None or its record
    fence,      \* the scheduler's file: the latest lease
    submitting, \* job |-> None or the profile its submitter was told of
    calls,      \* contractor |-> [at, job, fence]: where its execute is
    started     \* history: job |-> digest of the profile it was last dispatched under

schedulerVars == <<jobs, fence>>
vars == <<registry, opening, jobs, fence, submitting, calls, started>>

Adapters == {p.adapter : p \in Profiles}
Empty == [revision |-> 0, profiles |-> [a \in Adapters |-> None]]
Idle == [at |-> "new", job |-> None, fence |-> 0]

\* What the two files hold.
Registries == [revision : Nat, profiles : [Adapters -> Profiles \cup {None}]]
States  == {"waiting", "queued", "running", "done", "failed"}
Leases  == [worker : Workers \cup {WorkerOf[c] : c \in Contractors}, fence : Nat]
Records == [state : States, attempts : Nat, lease : Leases \cup {None},
            digest : {p.digest : p \in Profiles}, revision : Nat]

ASSUME LocalAssumption ==
    /\ IsFiniteSet(Jobs) /\ IsFiniteSet(Profiles) /\ MaxConcurrency \in Nat
    /\ \A j \in Jobs : JobSpec[j].needs \subseteq Jobs /\ JobSpec[j].retries \in Nat
    /\ Contractors \subseteq Jobs
    /\ None \notin Profiles \cup Registries \cup Leases \cup Records

Init ==
    /\ registry = None
    /\ opening = {}
    /\ jobs = [j \in Jobs |-> None]
    /\ fence = 0
    /\ submitting = [j \in Jobs |-> None]
    /\ calls = [c \in Contractors |-> Idle]
    /\ started = [j \in Jobs |-> None]

-----------------------------------------------------------------------------
(* The registry. *)

\* The constructor looks for the file and writes an empty one outside the lock.
Open(p) ==
    /\ registry = None
    /\ opening' = opening \cup {p}
    /\ UNCHANGED <<registry, schedulerVars, submitting, calls, started>>
Initialize(p) ==
    /\ p \in opening
    /\ registry' = Empty
    /\ opening' = opening \ {p}
    /\ UNCHANGED <<schedulerVars, submitting, calls, started>>

\* expected is the revision the caller read, or None.
MayRegister(profile, expected) ==
    /\ registry # None
    /\ expected \in {None, registry.revision}
    /\ registry.profiles[profile.adapter] = None
Register(profile, expected) ==
    /\ MayRegister(profile, expected)
    /\ registry' = [revision |-> registry.revision + 1,
                    profiles |-> [registry.profiles EXCEPT ![profile.adapter] = profile]]
    /\ UNCHANGED <<opening, schedulerVars, submitting, calls, started>>

\* The profile that a negotiation finds, if it has what is asked for.
Negotiated(j) ==
    {p \in Profiles :
        /\ registry # None
        /\ p = registry.profiles[JobSpec[j].adapter]
        /\ JobSpec[j].capabilities \subseteq p.capabilities}

-----------------------------------------------------------------------------
(* The scheduler. *)

Running == {j \in Jobs : jobs[j] # None /\ jobs[j].state = "running"}
Done(j) == jobs[j] # None /\ jobs[j].state = "done"

\* submit reads the profile, then the revision, then takes the lock.
Negotiate(j) ==
    /\ submitting[j] = None /\ jobs[j] = None
    /\ \E p \in Negotiated(j) : submitting' = [submitting EXCEPT ![j] = p]
    /\ UNCHANGED <<registry, opening, schedulerVars, calls, started>>

Enqueue(j) ==
    /\ submitting[j] # None /\ registry # None
    /\ jobs[j] = None
    /\ \A d \in JobSpec[j].needs : jobs[d] # None
    /\ jobs' = [jobs EXCEPT ![j] =
                  [state |-> IF JobSpec[j].needs = {} THEN "queued" ELSE "waiting",
                   attempts |-> 0, lease |-> None,
                   digest |-> submitting[j].digest, revision |-> registry.revision]]
    /\ IF j \in Contractors
       THEN calls' = [calls EXCEPT ![j].at = "submitted"] ELSE UNCHANGED calls
    /\ UNCHANGED <<registry, opening, fence, submitting, started>>

\* Mutated form of the next definition.
ReadyUnlessNeedy(j) == jobs[j] # None /\ jobs[j].state = "queued"

\* Mutated form of the next definition.
ReadyWhenNoneRuns(j) ==
    /\ jobs[j] # None
    /\ \/ jobs[j].state = "queued"
       \/ jobs[j].state = "waiting" /\ JobSpec[j].needs \cap Running = {}

\* Waiting jobs whose dependencies are done are queued before the choice.
Ready(j) ==
    /\ jobs[j] # None
    /\ \/ jobs[j].state = "queued"
       \/ jobs[j].state = "waiting" /\ \A d \in JobSpec[j].needs : Done(d)

Before(i, j) ==
    \/ JobSpec[i].priority > JobSpec[j].priority
    \/ /\ JobSpec[i].priority = JobSpec[j].priority
       /\ \/ jobs[i].attempts < jobs[j].attempts
          \/ jobs[i].attempts = jobs[j].attempts /\ i < j
First == {j \in Jobs : Ready(j) /\ \A i \in Jobs \ {j} : Ready(i) => Before(j, i)}

\* Mutated form of the next definition.
StillAtRevision(j, p) == jobs[j].revision = registry.revision

\* The revision of the submission, and the profile of the submission.
StillAgreed(j, p) == jobs[j].revision = registry.revision /\ p.digest = jobs[j].digest

\* The head of the queue or nobody: an error leaves the file as it was.
Lease(j, p, worker) ==
    /\ fence' = fence + 1
    /\ jobs' = [i \in Jobs |->
                  IF i = j THEN [jobs[i] EXCEPT !.state = "running", !.attempts = jobs[i].attempts + 1,
                                                !.lease = [worker |-> worker, fence |-> fence + 1]]
                  ELSE IF Ready(i) THEN [jobs[i] EXCEPT !.state = "queued"] ELSE jobs[i]]
    /\ started' = [started EXCEPT ![j] = p.digest]
Dispatch(j, worker) ==
    /\ Cardinality(Running) < MaxConcurrency
    /\ j \in First
    /\ \E p \in Negotiated(j) : StillAgreed(j, p) /\ Lease(j, p, worker)
    /\ UNCHANGED <<registry, opening, submitting>>

\* Mutated form of the next definition.
IsSomebodys(j, worker, f) == j \in Running /\ jobs[j].lease.worker = worker

IsHeld(j, worker, f) == j \in Running /\ jobs[j].lease = [worker |-> worker, fence |-> f]

\* Mutated form of the next definition.
AfterOneMore(j, status) ==
    IF status = "failed" /\ jobs[j].attempts <= JobSpec[j].retries + 1 THEN "queued" ELSE status

After(j, status) ==
    IF status = "failed" /\ jobs[j].attempts <= JobSpec[j].retries THEN "queued" ELSE status
Complete(j, worker, f, status) ==
    /\ IsHeld(j, worker, f)
    /\ jobs' = [jobs EXCEPT ![j] = [jobs[j] EXCEPT !.lease = None, !.state = After(j, status)]]
    /\ UNCHANGED <<registry, opening, fence, submitting, started>>

-----------------------------------------------------------------------------
(* Workers of the command line. *)

TakeWork(j, worker) == Dispatch(j, worker) /\ UNCHANGED calls

\* They complete what they were given, perhaps after it was done with.
Report(j, worker, status) ==
    /\ \E f \in 1..fence :
          /\ \A c \in Contractors : calls[c].fence # f
          /\ Complete(j, worker, f, status)
    /\ UNCHANGED calls

-----------------------------------------------------------------------------
(* A contractor: the answer of dispatch is whichever job was at the head. *)

At(c, place) == calls[c].at = place
Go(c, place) == calls' = [calls EXCEPT ![c].at = place]
Elsewhere == UNCHANGED <<registry, opening, schedulerVars, submitting, started>>

GetLease(c) ==
    /\ At(c, "submitted")
    /\ \E j \in Jobs :
          /\ Dispatch(j, WorkerOf[c])
          /\ calls' = [calls EXCEPT ![c] = [at |-> "leased", job |-> j, fence |-> fence + 1]]

Admit(c) == At(c, "leased") /\ Go(c, "admitted") /\ Elsewhere
RunSession(c) ==
    /\ At(c, "admitted")
    /\ \E outcome \in {"executed", "rejected"} : Go(c, outcome)
    /\ Elsewhere
Accept(c) == At(c, "executed") /\ Go(c, "accepted") /\ Elsewhere

\* A gate, the session or the lease comparison of LocalMockWorkflow raises, or
\* the process dies: nothing is undone.
Raise(c) ==
    /\ calls[c].at \in {"submitted", "leased", "admitted", "executed", "accepted", "rejected"}
    /\ Go(c, "raised") /\ Elsewhere

\* It completes the job it submitted with the lease it was given.
Conclude(c) ==
    \/ At(c, "accepted") /\ Complete(c, WorkerOf[c], calls[c].fence, "done") /\ Go(c, "concluded")
    \/ At(c, "rejected") /\ Complete(c, WorkerOf[c], calls[c].fence, "failed") /\ Go(c, "concluded")

-----------------------------------------------------------------------------
Submit(j) == Negotiate(j) \/ Enqueue(j)
Contract(c) == GetLease(c) \/ Admit(c) \/ RunSession(c) \/ Accept(c) \/ Conclude(c)

Next ==
    \/ \E p \in Openers : Open(p) \/ Initialize(p)
    \/ \E p \in Profiles :
          \E expected \in {None} \cup (IF registry = None THEN {} ELSE {registry.revision}) :
              Register(p, expected)
    \/ \E j \in Jobs : Submit(j)
    \/ \E j \in Jobs, w \in Workers :
          \/ TakeWork(j, w)
          \/ \E status \in {"done", "failed"} : Report(j, w, status)
    \/ \E c \in Contractors : Contract(c) \/ Raise(c)

\* Somebody keeps calling dispatch, and those who hold a lease report in the end.
Fairness ==
    /\ WF_vars(\E j \in Jobs, w \in Workers : TakeWork(j, w))
    /\ \A j \in Jobs : WF_vars(\E w \in Workers, s \in {"done", "failed"} : Report(j, w, s))
    /\ \A c \in Contractors : WF_vars(Contract(c))

Spec == Init /\ [][Next]_vars /\ Fairness

-----------------------------------------------------------------------------
(* Properties. *)

TypeOK ==
    /\ registry = None \/ registry.revision \in 0..Cardinality(Adapters)
    /\ opening \subseteq Openers
    /\ fence \in Nat
    /\ \A j \in Jobs : jobs[j] # None =>
         /\ jobs[j].state \in States
         /\ (jobs[j].lease # None) <=> (jobs[j].state = "running")
         /\ jobs[j].attempts \in 0..(JobSpec[j].retries + 1)
         /\ jobs[j].state \in {"done", "failed"} => jobs[j].attempts > 0
    /\ Cardinality(Running) <= MaxConcurrency

\* A job is worked on under the profile that its submission was negotiated for,
\* although the registry may have been written anew, with another profile under
\* the same identity and the same revision, between the two.
DispatchedAsSubmitted ==
    \A j \in Jobs : started[j] # None => started[j] = jobs[j].digest

\* A contractor that concluded had been working under its own job's lease: the
\* acceptance of one job's artifact ends no other job, although dispatch hands
\* out whatever is first and contractors may share a worker's name.
ConcludesItsOwnJob == \A c \in Contractors : At(c, "concluded") => calls[c].job = c

\* Over, waiting for a job that failed, or in a file that cannot move: the
\* registry was written since a submission (dispatch stops at a head that is
\* stale), or a lease was never reported by the contractor that holds it.
Over(j) == jobs[j] # None /\ jobs[j].state \in {"done", "failed"}
Halted(j) ==
    \/ \E d \in JobSpec[j].needs : Over(d) /\ ~Done(d)
    \/ \E i \in Jobs : jobs[i] # None /\ Negotiated(i) \cap {p \in Profiles : StillAgreed(i, p)} = {}
    \/ \E c \in Contractors : At(c, "raised") \/ calls[c].job \notin {None, c}

\* Every job of the file is over in the end, whatever the priorities, retries and
\* dependencies, unless it is halted.
JobsSettle == \A j \in Jobs : jobs[j] # None ~> (Over(j) \/ Halted(j))

Lifecycle == INSTANCE JobLifecycle WITH
    Dependencies <- [j \in Jobs |-> JobSpec[j].needs],
    MaxAttempts <- [j \in Jobs |-> JobSpec[j].retries + 1],
    done <- {j \in Jobs : Done(j)},
    over <- {j \in Jobs : jobs[j] # None /\ jobs[j].state \in {"done", "failed"}},
    holder <- [j \in Jobs |-> IF j \in Running THEN jobs[j].lease.fence ELSE 0],
    attempts <- [j \in Jobs |-> IF jobs[j] = None THEN 0 ELSE jobs[j].attempts]
\* Through all of this a job has one lease at a time, is started as often as its
\* retries allow and after its dependencies, and is over for good.
ImplementsLifecycle == Lifecycle!Spec

\* VIOLATED.  "A failed session is terminally recorded as rejected"
\* (docs/contractor-loop.md:7): the job goes back to the queue, to be retried.
RejectedIsTerminal ==
    \A c \in Contractors : At(c, "rejected") /\ At(c, "concluded")' => jobs'[c].state = "failed"
RejectionsAreTerminal == [][RejectedIsTerminal]_vars

\* VIOLATED.  "atomic updates and a revision fence for stale writers" (the
\* registry's module comment): a constructor that found no file writes an empty
\* registry over the profiles registered since.
RegistryOnlyGrows ==
    [][registry # None => registry'.revision >= registry.revision]_registry

\* VIOLATED.  A contractor works on the job that it submitted.
ContractorsGetTheirJob == \A c \in Contractors : calls[c].job \in {None, c}

\* VIOLATED.  A job of the file is over in the end whatever else happens: it waits
\* for ever for a dependency that failed, behind a head that is stale, or for a
\* lease that nobody reports.
AllJobsEnd == \A j \in Jobs : jobs[j] # None ~> Over(j)
=============================================================================
