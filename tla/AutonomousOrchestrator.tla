--------------------- MODULE AutonomousOrchestrator ---------------------
(***************************************************************************)
(* AutonomousOrchestrator and DurableRunJournal                            *)
(* (scripts/autonomous_orchestrator.py): one process runs a graph of       *)
(* approved tasks.  It keeps a lifecycle status per task in the run        *)
(* journal, and each task has an authority of its own                      *)
(* (DurableFakeCoordinator) that keeps the claim, the lease and the        *)
(* terminal status.  The two are written one after the other, so a crash   *)
(* or a lost answer can leave them apart; resume has to bring them         *)
(* together again.                                                         *)
(*                                                                         *)
(* Tasks are numbered in graph order.  A job is the pool thread that runs  *)
(* _run_task for one task; its pc names what it does next, and every       *)
(* durable write is a step of its own.  One process makes all calls, so    *)
(* revisions never conflict here (DurableCoordinator and                   *)
(* ExecutionController are about that) and the authority is reduced to     *)
(* the status, the fence and whether the lease has expired.                *)
(***************************************************************************)
EXTENDS Integers, FiniteSets

CONSTANTS
  N,             \* number of tasks
  Dependencies,  \* task -> the tasks it depends on
  Worktree,      \* task -> worktree key
  MaxAttempts,   \* max_attempts of each task
  MaxParallel,   \* max_parallel of the run
  MaxFaults      \* bound on lost answers and crashes of the process together

Tasks == 1..N

ASSUME GraphAssumption ==
  /\ N \in Nat
  /\ Dependencies \in [Tasks -> SUBSET Tasks]
  /\ DOMAIN Worktree = Tasks
ASSUME LimitAssumption ==
  /\ MaxAttempts \in [Tasks -> 1..3]
  /\ MaxParallel \in 1..8
  /\ MaxFaults \in Nat

VARIABLES
  status,      \* run journal: the lifecycle status of each task
  attempts,    \* run journal: how often each task was leased
  coord,       \* the authority of each task: status, fence, lease expired?
  checkpoint,  \* the fence the stored checkpoint of each task is bound to
  gates,       \* the gate decisions on record for each task
  phase,       \* the process: "down", "scan" or "pass"
  batch,       \* the tasks of the current pass not collected yet
  deferred,    \* has a task of the current pass been deferred?
  job,         \* the pc of each task's job
  faults       \* how many answers were lost and the process has crashed

durable == <<status, attempts, coord, checkpoint, gates>>
vars == <<status, attempts, coord, checkpoint, gates, phase, batch, deferred, job, faults>>

Terminal == {"completed", "blocked", "failed"}
Accepted == {"approved", "escalated"}

(* The lifecycle the run journal enforces (DurableRunJournal.transition).  *)
Follows ==
  [planned          |-> {"ready"},
   ready            |-> {"leased", "recovering"},
   leased           |-> {"executing", "recovering"},
   executing        |-> {"streaming", "recovering", "repair_pending"},
   streaming        |-> {"evidence_pending", "recovering", "repair_pending"},
   evidence_pending |-> {"quality_pending", "recovering"},
   quality_pending  |-> {"guidance_pending", "repair_pending", "recovering"},
   guidance_pending |-> {"ui_pending", "repair_pending"},
   ui_pending       |-> {"completed", "repair_pending"},
   repair_pending   |-> {"ready", "leased"},
   recovering       |-> {"leased"}]

MayFollow(old, new) ==
  old \notin Terminal /\ (new \in {"failed", "blocked"} \/ new \in Follows[old])

Goto(t, pc) == job' = [job EXCEPT ![t] = pc]

(* transition(): nothing when the status is already there, an error when   *)
(* the lifecycle does not allow it, else one more event of the journal.    *)
Journal(t, new) ==
  /\ status' = [status EXCEPT ![t] = new]
  /\ attempts' = IF new = "leased" /\ status[t] # new
                 THEN [attempts EXCEPT ![t] = @ + 1] ELSE attempts

Transition(t, new, next) ==
  IF status[t] = new \/ MayFollow(status[t], new)
  THEN Journal(t, new) /\ Goto(t, next)
  ELSE UNCHANGED <<status, attempts>> /\ Goto(t, "raised")

LeaseIsLive(t) == coord[t].status = "running" /\ ~coord[t].expired

---------------------------------------------------------------------------
(* run(): one pass selects the ready tasks, the first of each worktree in  *)
(* graph order and at most MaxParallel, and runs a job for each; the next  *)
(* pass begins when all are collected, unless one was deferred.            *)
Pending == {t \in Tasks : status[t] \notin Terminal}
\* Mutated form of Ready: a dependency that ended badly will do.
ReadyWhenSettled ==
  {t \in Pending : \A d \in Dependencies[t] : status[d] \in Terminal}

Ready   == {t \in Pending : \A d \in Dependencies[t] : status[d] = "completed"}
\* Mutated form of FirstOfWorktree: every task that is ready.
FirstOfAll == Ready

FirstOfWorktree == {t \in Ready : \A u \in Ready : u < t => Worktree[u] # Worktree[t]}
Selected == {t \in FirstOfWorktree :
               Cardinality({u \in FirstOfWorktree : u < t}) < MaxParallel}

Start ==
  /\ phase = "down"
  /\ Pending # {}
  /\ phase' = "scan"
  /\ UNCHANGED <<durable, batch, deferred, job, faults>>

BeginPass ==
  /\ phase = "scan"
  /\ Ready # {}
  /\ status' = [t \in Tasks |->
                  IF t \in Selected /\ status[t] = "planned" THEN "ready" ELSE status[t]]
  /\ batch' = Selected
  /\ job' = [t \in Tasks |-> IF t \in Selected THEN "start" ELSE "none"]
  /\ deferred' = FALSE
  /\ phase' = "pass"
  /\ UNCHANGED <<attempts, coord, checkpoint, gates, faults>>

\* Mutated form of BlockDependents: the run just stops.
StopWithoutBlocking ==
  /\ phase = "scan"
  /\ Ready = {}
  /\ phase' = "down"
  /\ UNCHANGED <<durable, batch, deferred, job, faults>>

(* _block_dependency_failures, with the statuses the pass began with: it   *)
(* does not reach the tasks that depend on one blocked just now.           *)
BlockDependents ==
  /\ phase = "scan"
  /\ Ready = {}
  /\ status' = [t \in Tasks |->
                  IF t \in Pending /\ \E d \in Dependencies[t] : status[d] \in {"blocked", "failed"}
                  THEN "blocked" ELSE status[t]]
  /\ phase' = "down"
  /\ UNCHANGED <<attempts, coord, checkpoint, gates, batch, deferred, job, faults>>

EndPass ==
  /\ phase = "pass"
  /\ batch = {}
  /\ phase' = IF deferred THEN "down" ELSE "scan"
  /\ UNCHANGED <<durable, batch, deferred, job, faults>>

---------------------------------------------------------------------------
(* _run_task: what the task's authority says decides how the job begins.   *)
StartJob(t) ==
  /\ job[t] = "start"
  /\ CASE coord[t].status = "running" -> Transition(t, "recovering", "recheck")
       [] coord[t].status = "open"    -> Goto(t, "admit") /\ UNCHANGED <<status, attempts>>
       [] coord[t].status = "done" /\ gates[t] = "approved" ->
            Transition(t, "completed", "returned")
       [] OTHER -> Goto(t, "raised") /\ UNCHANGED <<status, attempts>>
  /\ UNCHANGED <<coord, checkpoint, gates, phase, batch, deferred, faults>>

\* Mutated form of Recheck: the attempts are not counted.
RecheckWithoutBudget(t) ==
  /\ job[t] = "recheck"
  /\ Goto(t, IF ~coord[t].expired THEN "deferred" ELSE "recover")
  /\ UNCHANGED <<durable, phase, batch, deferred, faults>>

(* An interrupted session: wait for its lease, count its attempts ...      *)
Recheck(t) ==
  /\ job[t] = "recheck"
  /\ Goto(t, IF ~coord[t].expired THEN "deferred"
             ELSE IF attempts[t] >= MaxAttempts[t] THEN "raised"
             ELSE "recover")
  /\ UNCHANGED <<durable, phase, batch, deferred, faults>>

(* ... and have the authority grant the next fence to the holder of its    *)
(* checkpoint (ExecutionController.recover).                               *)
Recover(t) ==
  /\ job[t] = "recover"
  /\ IF checkpoint[t] = coord[t].fence
     THEN /\ coord' = [coord EXCEPT ![t].fence = @ + 1, ![t].expired = FALSE]
          /\ Goto(t, "admit")
     ELSE UNCHANGED coord /\ Goto(t, "raised")
  /\ UNCHANGED <<status, attempts, checkpoint, gates, phase, batch, deferred, faults>>

(* The gates admit the session or an error of theirs ends the job.         *)
Admit(t) ==
  /\ job[t] = "admit"
  /\ \/ Goto(t, IF coord[t].status = "open" THEN "claim" ELSE "observe")
     \/ Goto(t, "raised")
  /\ UNCHANGED <<durable, phase, batch, deferred, faults>>

Claim(t) ==
  /\ job[t] = "claim"
  /\ coord' = [coord EXCEPT ![t].status = "claimed"]
  /\ Goto(t, "lease")
  /\ UNCHANGED <<status, attempts, checkpoint, gates, phase, batch, deferred, faults>>

\* Mutated form of Lease: the lease is not observed before the launch.
LeaseUnobserved(t) ==
  /\ job[t] = "lease"
  /\ coord' = [coord EXCEPT ![t].status = "running", ![t].fence = @ + 1, ![t].expired = FALSE]
  /\ Goto(t, "launch")
  /\ UNCHANGED <<status, attempts, checkpoint, gates, phase, batch, deferred, faults>>

Lease(t) ==
  /\ job[t] = "lease"
  /\ coord' = [coord EXCEPT ![t].status = "running", ![t].fence = @ + 1, ![t].expired = FALSE]
  /\ Goto(t, "observe")
  /\ UNCHANGED <<status, attempts, checkpoint, gates, phase, batch, deferred, faults>>

(* ExecutionController.run from the started event to the launch: under an  *)
(* expired lease it only fails, and a failed launch is reported.           *)
Launch(t) ==
  /\ job[t] = "launch"
  /\ \/ LeaseIsLive(t) /\ Goto(t, "working") /\ UNCHANGED coord
     \/ /\ LeaseIsLive(t)
        /\ coord' = [coord EXCEPT ![t].status = "failed"]
        /\ Goto(t, "raised")
     \/ ~LeaseIsLive(t) /\ Goto(t, "raised") /\ UNCHANGED coord
  /\ UNCHANGED <<status, attempts, checkpoint, gates, phase, batch, deferred, faults>>

(* The monitor renews the lease and then checkpoints.                      *)
SaveCheckpoint(t) ==
  /\ job[t] = "working"
  /\ LeaseIsLive(t)
  /\ checkpoint' = [checkpoint EXCEPT ![t] = coord[t].fence]
  /\ UNCHANGED <<status, attempts, coord, gates, phase, batch, deferred, job, faults>>

(* The worker ends, well or not, and the controller returns; or it fails   *)
(* and reports the failure, which it can only while the lease is live.     *)
WorkerEnds(t) ==
  /\ job[t] = "working"
  /\ \/ LeaseIsLive(t) /\ Goto(t, "stream") /\ UNCHANGED coord
     \/ LeaseIsLive(t) /\ Goto(t, "close_failed") /\ UNCHANGED coord
     \/ /\ LeaseIsLive(t)
        /\ coord' = [coord EXCEPT ![t].status = "failed"]
        /\ Goto(t, "raised")
     \/ ~LeaseIsLive(t) /\ Goto(t, "raised") /\ UNCHANGED coord
  /\ UNCHANGED <<status, attempts, checkpoint, gates, phase, batch, deferred, faults>>

(* The interactive session replays the frames the worker left; a frame it  *)
(* rejects, or a lease that ran out, ends the job.                         *)
Interact(t) ==
  /\ job[t] = "interact"
  /\ \/ LeaseIsLive(t) /\ Goto(t, "interaction_event")
     \/ Goto(t, "raised")
  /\ UNCHANGED <<durable, phase, batch, deferred, faults>>

(* Quality, guidance and UI decide on the evidence, each decision on       *)
(* record before it is used.  "escalated": guidance passed the decision on *)
(* to the UI, which approved; the control loop accepts that too.           *)
Decide(t) ==
  /\ job[t] = "gate"
  /\ \/ \E outcome \in Accepted \cup {"rejected", "cancelled"} :
          /\ gates' = [gates EXCEPT ![t] = outcome]
          /\ Goto(t, CASE outcome \in Accepted    -> "guidance"
                       [] outcome = "rejected"    -> "close_failed"
                       [] outcome = "cancelled"   -> "close_blocked")
     \/ gates' = [gates EXCEPT ![t] = "partial"] /\ Goto(t, "raised")
  /\ UNCHANGED <<status, attempts, coord, checkpoint, phase, batch, deferred, faults>>

(* The steps of a job that write the run journal: the status, and the next *)
(* step.                                                                   *)
JournalStep ==
  [observe     |-> <<"leased", "execute">>,
   execute     |-> <<"executing", "launch">>,
   stream      |-> <<"streaming", "interact">>,
   evidence    |-> <<"evidence_pending", "quality">>,
   quality     |-> <<"quality_pending", "gate">>,
   guidance    |-> <<"guidance_pending", "ui">>,
   ui          |-> <<"ui_pending", "gates_event">>,
   complete    |-> <<"completed", "returned">>,
   note_failed  |-> <<"failed", "returned">>,
   note_blocked |-> <<"blocked", "returned">>]

WriteJournal(t) ==
  /\ job[t] \in DOMAIN JournalStep
  /\ Transition(t, JournalStep[job[t]][1], JournalStep[job[t]][2])
  /\ UNCHANGED <<coord, checkpoint, gates, phase, batch, deferred, faults>>

(* The steps that append an event to the authority's log, and those that   *)
(* reconcile the task there: the status it ends with, and the next step.   *)
\* Mutated forms: the task is not reconciled; it is reconciled with the
\* journal's word for success.
EventStepToComplete == [interaction_event |-> "evidence", gates_event |-> "complete"]
CloseStepCompleted ==
  [finish        |-> <<"completed", "complete">>,
   close_failed  |-> <<"failed", "note_failed">>,
   close_blocked |-> <<"blocked", "note_blocked">>]

EventStep == [interaction_event |-> "evidence", gates_event |-> "finish"]
CloseStep ==
  [finish        |-> <<"done", "complete">>,
   close_failed  |-> <<"failed", "note_failed">>,
   close_blocked |-> <<"blocked", "note_blocked">>]

\* The answer to a committed write arrives, or it is lost and the job ends.
Answered(t, next) ==
  \/ Goto(t, next) /\ faults' = faults
  \/ faults < MaxFaults /\ faults' = faults + 1 /\ Goto(t, "raised")

LogEvent(t) ==
  /\ job[t] \in DOMAIN EventStep
  /\ IF LeaseIsLive(t) THEN Answered(t, EventStep[job[t]])
     ELSE Goto(t, "raised") /\ faults' = faults
  /\ UNCHANGED <<durable, phase, batch, deferred>>

Reconcile(t) ==
  /\ job[t] \in DOMAIN CloseStep
  /\ IF LeaseIsLive(t)
     THEN /\ coord' = [coord EXCEPT ![t].status = CloseStep[job[t]][1]]
          /\ Answered(t, CloseStep[job[t]][2])
     ELSE UNCHANGED coord /\ Goto(t, "raised") /\ faults' = faults
  /\ UNCHANGED <<status, attempts, checkpoint, gates, phase, batch, deferred>>

---------------------------------------------------------------------------
(* The main thread collects the jobs.                                      *)
Collect(t) ==
  /\ job[t] \in {"returned", "deferred"}
  /\ batch' = batch \ {t}
  /\ deferred' = (deferred \/ job[t] = "deferred")
  /\ Goto(t, "none")
  /\ UNCHANGED <<durable, phase, faults>>

(* _recover_or_fail: a job ended with an error.  When the attempts are     *)
(* spent the authority is asked to fail the task before the journal does.  *)
RecoverOrFail(t) ==
  /\ job[t] = "raised"
  /\ CASE status[t] \in Terminal ->
            Goto(t, "returned") /\ UNCHANGED <<status, attempts, coord>>
       [] status[t] \notin Terminal /\ coord[t].status = "done" /\ gates[t] = "approved"
                                    /\ MayFollow(status[t], "completed") ->
            Transition(t, "completed", "returned") /\ UNCHANGED coord
       [] status[t] \notin Terminal /\ LeaseIsLive(t) /\ attempts[t] >= MaxAttempts[t] ->
            /\ coord' = [coord EXCEPT ![t].status = "failed"]
            /\ Goto(t, "note_failed")
            /\ UNCHANGED <<status, attempts>>
       [] /\ status[t] \notin Terminal /\ coord[t].status = "running" /\ attempts[t] < MaxAttempts[t]
          /\ (status[t] = "recovering" \/ MayFollow(status[t], "recovering")) ->
            Transition(t, "recovering", "deferred") /\ UNCHANGED coord
       [] OTHER -> Transition(t, "failed", "returned") /\ UNCHANGED coord
  /\ UNCHANGED <<checkpoint, gates, phase, batch, deferred, faults>>

(* When the answer to its last event is lost, the authority is not asked   *)
(* for more and only the journal fails the task.                           *)
GiveUp(t) ==
  /\ job[t] = "raised"
  /\ status[t] \notin Terminal /\ LeaseIsLive(t) /\ attempts[t] >= MaxAttempts[t]
  /\ faults < MaxFaults
  /\ faults' = faults + 1
  /\ Transition(t, "failed", "returned")
  /\ UNCHANGED <<coord, checkpoint, gates, phase, batch, deferred>>

---------------------------------------------------------------------------
Expire(t) ==
  /\ LeaseIsLive(t)
  /\ coord' = [coord EXCEPT ![t].expired = TRUE]
  /\ UNCHANGED <<status, attempts, checkpoint, gates, phase, batch, deferred, job, faults>>

(* The process dies, and its workers with it; the files stay.              *)
Crash ==
  /\ phase # "down"
  /\ faults < MaxFaults
  /\ faults' = faults + 1
  /\ phase' = "down"
  /\ batch' = {}
  /\ deferred' = FALSE
  /\ job' = [t \in Tasks |-> "none"]
  /\ UNCHANGED durable

Init ==
  /\ status = [t \in Tasks |-> "planned"]
  /\ attempts = [t \in Tasks |-> 0]
  /\ coord = [t \in Tasks |-> [status |-> "open", fence |-> 0, expired |-> FALSE]]
  /\ checkpoint = [t \in Tasks |-> 0]
  /\ gates = [t \in Tasks |-> "none"]
  /\ phase = "down"
  /\ batch = {}
  /\ deferred = FALSE
  /\ job = [t \in Tasks |-> "none"]
  /\ faults = 0

JobStep(t) ==
  \/ StartJob(t) \/ Recheck(t) \/ Recover(t) \/ Admit(t) \/ Claim(t) \/ Lease(t)
  \/ Launch(t) \/ WorkerEnds(t) \/ Interact(t) \/ Decide(t)
  \/ WriteJournal(t) \/ LogEvent(t) \/ Reconcile(t)
  \/ Collect(t) \/ RecoverOrFail(t) \/ GiveUp(t)

Pass == Start \/ BeginPass \/ BlockDependents \/ EndPass

Next ==
  \/ Pass \/ Crash
  \/ \E t \in Tasks : JobStep(t) \/ SaveCheckpoint(t) \/ Expire(t)

Spec == Init /\ [][Next]_vars
(* Scheduling: the threads of the process run, a lease that nobody renews  *)
(* runs out, and an operator resumes a run that stopped with work pending. *)
FairSpec ==
  /\ Spec
  /\ WF_vars(Pass)
  /\ \A t \in Tasks : WF_vars(JobStep(t)) /\ WF_vars(Expire(t))

---------------------------------------------------------------------------
(* Properties                                                              *)

Pcs == {"none", "start", "recheck", "recover", "admit", "claim", "lease", "launch", "working",
        "interact", "gate", "returned", "deferred", "raised"}
         \cup DOMAIN JournalStep \cup DOMAIN EventStep \cup DOMAIN CloseStep

(* Every variable keeps its type.                                          *)
TypeOK ==
  /\ status \in [Tasks -> DOMAIN Follows \cup Terminal]
  /\ attempts \in [Tasks -> Nat]
  /\ coord \in [Tasks -> [status : {"open", "claimed", "running", "done", "blocked", "failed"},
                          fence : Nat, expired : BOOLEAN]]
  /\ checkpoint \in [Tasks -> Nat]
  /\ gates \in [Tasks -> {"none", "partial", "rejected", "cancelled"} \cup Accepted]
  /\ phase \in {"down", "scan", "pass"}
  /\ batch \subseteq Tasks
  /\ deferred \in BOOLEAN
  /\ job \in [Tasks -> Pcs]
  /\ faults \in Nat

(* The run journal never claims a success of its own: a completed task is  *)
(* done for its authority and its gates accepted it, whatever crashed or   *)
(* was lost on the way ("only three bound approved outcomes permit done"). *)
CompletedIsAuthorised ==
  \A t \in Tasks : status[t] = "completed" => coord[t].status = "done" /\ gates[t] \in Accepted

(* No authority ever sees a task started before those it depends on are    *)
(* done ("Only dependency-ready tasks are selected").                      *)
DependenciesFirst ==
  \A t \in Tasks : coord[t].status # "open" =>
    \A d \in Dependencies[t] : coord[d].status = "done"

(* Two workers never run in one worktree, across crashes and resumes.      *)
WorktreeIsExclusive ==
  \A t, u \in Tasks : t # u /\ job[t] = "working" /\ job[u] = "working" =>
    Worktree[t] # Worktree[u]

(* The attempt budget, counted in the run journal, bounds the leases the   *)
(* authority grants, though the two are written apart.                     *)
LeasesWithinBudget == \A t \in Tasks : coord[t].fence <= MaxAttempts[t]

(* A worker runs only for a task whose journal says that it executes and   *)
(* whose authority has granted the lease it runs under.                    *)
WorkersAreJournaled ==
  \A t \in Tasks : job[t] = "working" =>
    /\ status[t] = "executing"
    /\ coord[t].status = "running"
    /\ attempts[t] >= 1

(* What runs is what the journal says runs: after what it depends on, under *)
(* a lease its budget still allows, by a worker that the journal names      *)
(* (run, _run_task).                                                        *)
JournalIsFollowed == TypeOK /\ DependenciesFirst /\ LeasesWithinBudget /\ WorkersAreJournaled

(* If no lease ever runs out before its session was checkpointed, every    *)
(* task ends: the run is recovered, retried within its budget, failed or   *)
(* blocked, and nothing is deferred for ever.                              *)
Settles ==
  [](\A t \in Tasks : coord[t].status = "running" /\ coord[t].expired =>
       checkpoint[t] = coord[t].fence)
    => \A t \in Tasks : <>(status[t] \in Terminal)

---------------------------------------------------------------------------
(* What the documents promise and the code does not keep.                  *)

(* VIOLATED. "Keep a live lease recoverable; reconcile bounded exhaustion  *)
(* truthfully": a task the journal gives up is over for its authority too. *)
ExhaustionIsReconciled ==
  \A t \in Tasks : status[t] = "failed" => coord[t].status # "running"

(* VIOLATED. "While a lease remains active, the run defers work": the      *)
(* journal does not give up a task whose lease is live.                    *)
LiveLeaseDefers ==
  [][\A t \in Tasks : status'[t] = "failed" /\ status[t] # "failed" => ~LeaseIsLive(t)]_vars

(* VIOLATED. "A crash after terminal reconciliation is resolved from the   *)
(* Coordinator terminal state plus the complete gate journal": what is     *)
(* done for the authority does not fail in the journal.                    *)
DoneIsNotFailed ==
  \A t \in Tasks : coord[t].status = "done" => status[t] # "failed"

(* VIOLATED. "A worktree is exclusive": no two tasks hold live leases      *)
(* bound to one.                                                           *)
WorktreeLeaseIsExclusive ==
  \A t, u \in Tasks : t # u /\ LeaseIsLive(t) /\ LeaseIsLive(u) => Worktree[t] # Worktree[u]

---------------------------------------------------------------------------
(* For the model checker, three tasks: the first shares its worktree with  *)
(* the third, which has a second attempt, and has to wait for the second.  *)
Waiting    == <<{2}, {}, {}>>
ThirdAgain == <<1, 1, 2>>
Shared     == <<"w1", "w2", "w1">>
===========================================================================
