----------------------- MODULE ExecutionController -----------------------
(***************************************************************************)
(* ExecutionController (scripts/execution_controller.py) with the monitor  *)
(* loop and the RecoveryStore it drives (scripts/worker_monitor.py):       *)
(* several controller processes run or recover one session of one task     *)
(* against the durable authority.  A controller reads the authority,       *)
(* claims and leases the task, launches a worker, renews the lease and     *)
(* checkpoints while the worker runs, and reports how it ended; when a     *)
(* step is refused it reports the failure.                                 *)
(*                                                                         *)
(* Every read, every authority write and every file replacement is one     *)
(* step, so whatever a controller decided from a read may be stale by the  *)
(* time it acts.  A controller may crash between two steps (its worker     *)
(* dies with it) and start again; the answer to a committed write may be   *)
(* lost, and is then asked for again under the same operation id.          *)
(*                                                                         *)
(* An operation id is OP-<session>-<kind>, with the fence and the number   *)
(* of the heartbeat where the code puts them, never the caller.            *)
(***************************************************************************)
EXTENDS CoordinatorTask, TLC

CONSTANTS
  Controllers,        \* the controller processes
  Owners,             \* worker identities
  OwnerOf,            \* the owner_id each controller is started with
  Session,            \* the session they all run
  ReconcileTerminal,  \* does run() reconcile the task itself?
  MaxClock,           \* bound on the clock
  MaxBeats,           \* bound on the heartbeats of one run's monitor
  MaxFaults           \* bound on lost answers and crashes together

ASSUME OwnerAssumption == OwnerOf \in [Controllers -> Owners] /\ None \notin Owners
ASSUME SessionAssumption == Session # None
ASSUME ControllerBounds ==
  /\ ReconcileTerminal \in BOOLEAN
  /\ {MaxClock, MaxBeats, MaxFaults} \subseteq Nat

VARIABLES
  task,        \* the task record of the authority
  operations,  \* the operations it remembers: id, request and receipt
  clock,
  checkpoint,  \* the fence the stored checkpoint is bound to; 0 without one
  evidence,    \* fence -> what the evidence file of that fence records
  ctl,         \* the local state of each controller
  worker,      \* the worker process of each controller
  launches,    \* fence -> how many workers have been launched under it
  finished,    \* the fences under which a worker ran to a clean end
  faults       \* how many answers were lost and controllers have crashed

vars == <<task, operations, clock, checkpoint, evidence, ctl, worker, launches,
          finished, faults>>
files == <<checkpoint, evidence>>
processes == <<worker, launches, finished>>

(* The most fences a run of the model can reach: a term lasts at least one *)
(* tick and the next one begins only after it.                             *)
Fences == 1..(MaxClock + 1)

Idle == [pc |-> "idle", revision |-> 0, lease |-> NoLease, beats |-> 0, prior |-> 0,
         status |-> "none"]

Goto(c, pc) == ctl' = [ctl EXCEPT ![c].pc = pc]
Leave(c)    == ctl' = [ctl EXCEPT ![c] = Idle]

\* The writes of the failure path, and those whose refusal leads to it.
FailureCalls == {"fail_event", "fail_reconcile"}
GuardedCalls == {"started", "heartbeat", "renew", "terminal", "reconcile"}

---------------------------------------------------------------------------
(* The authority writes of a controller: which operation each names, what  *)
(* it asks for, and where the controller goes with the receipt.            *)
Write(kind, n, request, next) == [kind |-> kind, n |-> n, request |-> request, next |-> next]

CallOf(c) ==
  LET me == ctl[c]
  IN  CASE me.pc = "claim"     -> Write("CLAIM", 0, ClaimRequest(me.revision, OwnerOf[c]), "lease")
        [] me.pc = "lease"     -> Write("LEASE", 0, LeaseRequest(me.revision, OwnerOf[c], Session), "evidence")
        [] me.pc = "recover"   -> Write("RECOVER", 0, RecoverRequest(me.revision, OwnerOf[c], Session), "verify")
        [] me.pc = "started"   -> Write("SESSION-STARTED", 0,
                                        EventRequest(me.revision, me.lease, Session, "session_started"), "heartbeat")
        [] me.pc = "heartbeat" -> Write("HEARTBEAT", 0, HeartbeatRequest(me.revision, me.lease), "launch")
        [] me.pc = "renew"     -> Write("MONITOR", me.beats, HeartbeatRequest(me.revision, me.lease), "checkpoint")
        [] me.pc = "terminal"  -> Write("SESSION-TERMINAL", 0,
                                        EventRequest(me.revision, me.lease, Session, me.status), "snapshot")
        [] me.pc = "reconcile" -> Write("RECONCILE", 0,
                                        ReconcileRequest(me.revision, me.lease,
                                          IF me.status = "completed" THEN "done" ELSE "failed"), "publish")
        [] me.pc = "fail_event" -> Write("FAILURE-TERMINAL", 0,
                                         EventRequest(me.revision, me.lease, Session, "failed"), "fail_reconcile")
        [] me.pc = "fail_reconcile" -> Write("FAILURE-RECONCILE", 0,
                                             ReconcileRequest(me.revision, me.lease, "failed"), "idle")

Calls == {"claim", "lease", "recover"} \cup GuardedCalls \cup FailureCalls

IdOf(c) == <<CallOf(c).kind, ctl[c].lease.fence, CallOf(c).n>>

Remembered(c) == {done \in operations : done.id = IdOf(c)}

(* The controller takes in a receipt and goes on.                          *)
Take(c, receipt) ==
  LET call  == CallOf(c)
      lease == IF call.request.op \in {"lease", "recover", "heartbeat"}
               THEN receipt.lease ELSE ctl[c].lease
  IN  ctl' = [ctl EXCEPT ![c] =
                IF call.next = "idle" THEN Idle
                ELSE [@ EXCEPT !.pc = call.next, !.revision = receipt.revision, !.lease = lease]]

(* The authority commits the write.  When its answer is lost the           *)
(* controller stays where it is and asks again (_authority_write), but on  *)
(* the failure path it gives up.                                           *)
Commit(c) ==
  /\ ctl[c].pc \in Calls
  /\ Remembered(c) = {}
  /\ Accepts(task, CallOf(c).request, clock)
  /\ LET after   == Effect(task, CallOf(c).request, clock)
         receipt == [id |-> IdOf(c), request |-> CallOf(c).request,
                     revision |-> after.revision, lease |-> after.lease]
     IN  /\ task' = after
         /\ operations' = operations \cup {receipt}
         /\ \/ Take(c, receipt) /\ faults' = faults
            \/ /\ faults < MaxFaults
               /\ faults' = faults + 1
               /\ IF ctl[c].pc \in FailureCalls THEN Leave(c) ELSE ctl' = ctl
  /\ UNCHANGED <<clock, files, processes>>

\* Mutated form of Replay: the request is not compared.
ReplayById(c) ==
  /\ ctl[c].pc \in Calls
  /\ \E receipt \in Remembered(c) : Take(c, receipt)
  /\ UNCHANGED <<task, operations, clock, files, processes, faults>>

(* The id is known and the request is the same: the old receipt answers it,*)
(* whether this controller asked for it before or another one did.         *)
Replay(c) ==
  /\ ctl[c].pc \in Calls
  /\ \E receipt \in Remembered(c) :
       /\ receipt.request = CallOf(c).request
       /\ Take(c, receipt)
  /\ UNCHANGED <<task, operations, clock, files, processes, faults>>

(* The id is known with another request, or the authority does not accept  *)
(* the request.  Before the session starts the run just fails; after, it   *)
(* goes on to report the failure.                                          *)
Refused(c) ==
  /\ ctl[c].pc \in Calls
  /\ IF Remembered(c) = {} THEN ~Accepts(task, CallOf(c).request, clock)
     ELSE \A receipt \in Remembered(c) : receipt.request # CallOf(c).request
  /\ IF ctl[c].pc \in GuardedCalls THEN Goto(c, "failing") ELSE Leave(c)
  /\ UNCHANGED <<task, operations, clock, files, processes, faults>>

---------------------------------------------------------------------------
(* run(): read the task, then claim it, lease it and look for evidence of  *)
(* an earlier run under the same fence.  The caller starts a run only on a *)
(* task it sees open, a recovery only on a running one whose lease is over *)
(* (AutonomousOrchestrator._run_task).                                     *)
Begin(c) ==
  /\ ctl[c].pc = "idle"
  /\ task.status = "open"
  /\ ctl' = [ctl EXCEPT ![c] = [Idle EXCEPT !.pc = "claim", !.revision = task.revision]]
  /\ UNCHANGED <<task, operations, clock, files, processes, faults>>

(* recover(): inspect the stored checkpoint ...                            *)
BeginRecovery(c) ==
  /\ ctl[c].pc = "idle"
  /\ task.status = "running" /\ task.lease.expires <= clock
  /\ checkpoint # 0
  /\ ctl' = [ctl EXCEPT ![c] = [Idle EXCEPT !.pc = "compare", !.prior = checkpoint]]
  /\ UNCHANGED <<task, operations, clock, files, processes, faults>>

\* Mutated form of CompareFence: the fences are not compared.
TrustCheckpoint(c) ==
  /\ ctl[c].pc = "compare"
  /\ ctl' = [ctl EXCEPT ![c].pc = "recover", ![c].revision = task.revision,
                          ![c].lease = task.lease]
  /\ UNCHANGED <<task, operations, clock, files, processes, faults>>

(* ... compare its fence with the lease the authority has ...              *)
CompareFence(c) ==
  /\ ctl[c].pc = "compare"
  /\ IF task.lease # NoLease /\ task.lease.fence = ctl[c].prior
     THEN ctl' = [ctl EXCEPT ![c].pc = "recover", ![c].revision = task.revision,
                             ![c].lease = task.lease]
     ELSE Leave(c)
  /\ UNCHANGED <<task, operations, clock, files, processes, faults>>

(* ... and, once the authority granted the next fence, check that the      *)
(* stored checkpoint is still the one inspected.                           *)
VerifyCheckpoint(c) ==
  /\ ctl[c].pc = "verify"
  /\ IF checkpoint = ctl[c].prior /\ ctl[c].lease.fence > ctl[c].prior
     THEN Goto(c, "resume") ELSE Leave(c)
  /\ UNCHANGED <<task, operations, clock, files, processes, faults>>

(* run() with a recovered lease: it must still be the authority's.         *)
Resume(c) ==
  /\ ctl[c].pc = "resume"
  /\ IF /\ task.status = "running"
        /\ task.lease = ctl[c].lease
        /\ task.lease.owner = OwnerOf[c]
     THEN ctl' = [ctl EXCEPT ![c].pc = "evidence", ![c].revision = task.revision]
     ELSE Leave(c)
  /\ UNCHANGED <<task, operations, clock, files, processes, faults>>

CheckEvidence(c) ==
  /\ ctl[c].pc = "evidence"
  /\ IF evidence[ctl[c].lease.fence] = "none" THEN Goto(c, "started") ELSE Leave(c)
  /\ UNCHANGED <<task, operations, clock, files, processes, faults>>

(* sandbox.launch starts the worker, or fails.                             *)
Launch(c) ==
  /\ ctl[c].pc = "launch"
  /\ \/ /\ worker' = [worker EXCEPT ![c] = "running"]
        /\ launches' = [launches EXCEPT ![ctl[c].lease.fence] = @ + 1]
        /\ Goto(c, "spawned")
     \/ Goto(c, "failing") /\ UNCHANGED <<worker, launches>>
  /\ UNCHANGED <<task, operations, clock, files, finished, faults>>

RecordSpawn(c) ==
  /\ ctl[c].pc = "spawned"
  /\ evidence' = [evidence EXCEPT ![ctl[c].lease.fence] = "spawn"]
  /\ Goto(c, "monitor")
  /\ UNCHANGED <<task, operations, clock, checkpoint, processes, faults>>

---------------------------------------------------------------------------
(* WorkerMonitor.wait: while the worker runs, renew the lease and then     *)
(* checkpoint; renew_lease reads the lease first.                          *)
BeginRenewal(c) ==
  /\ ctl[c].pc = "monitor"
  /\ ctl[c].beats < MaxBeats
  /\ IF task.lease = ctl[c].lease
     THEN ctl' = [ctl EXCEPT ![c].pc = "renew", ![c].revision = task.revision, ![c].beats = @ + 1]
     ELSE Goto(c, "failing")
  /\ UNCHANGED <<task, operations, clock, files, processes, faults>>

(* RecoveryStore.checkpoint replaces the file, whatever fence it holds.    *)
SaveCheckpoint(c) ==
  /\ ctl[c].pc = "checkpoint"
  /\ checkpoint' = ctl[c].lease.fence
  /\ Goto(c, "monitor")
  /\ UNCHANGED <<task, operations, clock, evidence, processes, faults>>

(* The monitor ends the worker: cancelled, timed out, stalled, overflowing *)
(* or not cleaned up; a worker that had just ended well counts the same.   *)
StopWorker(c) ==
  /\ ctl[c].pc = "monitor"
  /\ worker' = [worker EXCEPT ![c] = "none"]
  /\ ctl' = [ctl EXCEPT ![c].pc = "terminal", ![c].status = "stopped"]
  /\ UNCHANGED <<task, operations, clock, files, launches, finished, faults>>

\* Mutated form of Reap: the exit code is not looked at.
ReapAsCompleted(c) ==
  /\ ctl[c].pc = "monitor"
  /\ worker[c] \in {"ok", "bad"}
  /\ worker' = [worker EXCEPT ![c] = "none"]
  /\ ctl' = [ctl EXCEPT ![c].pc = "terminal", ![c].status = "completed"]
  /\ UNCHANGED <<task, operations, clock, files, launches, finished, faults>>

(* The worker ended by itself and the monitor has drained its output.      *)
Reap(c) ==
  /\ ctl[c].pc = "monitor"
  /\ worker[c] \in {"ok", "bad"}
  /\ worker' = [worker EXCEPT ![c] = "none"]
  /\ ctl' = [ctl EXCEPT ![c].pc = "terminal",
                        ![c].status = IF worker[c] = "ok" THEN "completed" ELSE "failed"]
  /\ UNCHANGED <<task, operations, clock, files, launches, finished, faults>>

\* Mutated form of Snapshot: the evidence is published first.
SnapshotForEvidence(c) ==
  /\ ctl[c].pc = "snapshot"
  /\ ctl' = [ctl EXCEPT ![c].revision = task.revision, ![c].pc = "publish"]
  /\ UNCHANGED <<task, operations, clock, files, processes, faults>>

(* After the terminal event, the revision is read again and the task       *)
(* reconciled here or left to the caller.                                  *)
Snapshot(c) ==
  /\ ctl[c].pc = "snapshot"
  /\ ctl' = [ctl EXCEPT ![c].revision = task.revision,
                        ![c].pc = IF ReconcileTerminal THEN "reconcile" ELSE "publish"]
  /\ UNCHANGED <<task, operations, clock, files, processes, faults>>

PublishEvidence(c) ==
  /\ ctl[c].pc = "publish"
  /\ evidence' = [evidence EXCEPT ![ctl[c].lease.fence] = "terminal"]
  /\ Leave(c)
  /\ UNCHANGED <<task, operations, clock, checkpoint, processes, faults>>

\* Mutated form of Fail: the failure is not reported.
FailSilently(c) ==
  /\ ctl[c].pc = "failing"
  /\ worker' = [worker EXCEPT ![c] = "none"]
  /\ Leave(c)
  /\ UNCHANGED <<task, operations, clock, files, launches, finished, faults>>

(* The except branch: the worker is cancelled, and the failure is reported *)
(* when the authority still has the lease this run holds.                  *)
Fail(c) ==
  /\ ctl[c].pc = "failing"
  /\ worker' = [worker EXCEPT ![c] = "none"]
  /\ IF task.lease # NoLease /\ task.lease = ctl[c].lease
     THEN ctl' = [ctl EXCEPT ![c].pc = "fail_event", ![c].revision = task.revision]
     ELSE Leave(c)
  /\ UNCHANGED <<task, operations, clock, files, launches, finished, faults>>

---------------------------------------------------------------------------
(* The world around the controllers.                                       *)
WorkerEnds(c) ==
  /\ worker[c] = "running"
  /\ \/ /\ worker' = [worker EXCEPT ![c] = "ok"]
        /\ finished' = finished \cup {ctl[c].lease.fence}
     \/ worker' = [worker EXCEPT ![c] = "bad"] /\ UNCHANGED finished
  /\ UNCHANGED <<task, operations, clock, files, ctl, launches, faults>>

Crash(c) ==
  /\ ctl[c].pc # "idle"
  /\ faults < MaxFaults
  /\ faults' = faults + 1
  /\ Leave(c)
  /\ worker' = [worker EXCEPT ![c] = "none"]
  /\ UNCHANGED <<task, operations, clock, files, launches, finished>>

Tick ==
  /\ clock < MaxClock
  /\ clock' = clock + 1
  /\ UNCHANGED <<task, operations, files, ctl, processes, faults>>

Init ==
  /\ task = InitialTask(1)
  /\ operations = {}
  /\ clock = 0
  /\ checkpoint = 0
  /\ evidence = [f \in Fences |-> "none"]
  /\ ctl = [c \in Controllers |-> Idle]
  /\ worker = [c \in Controllers |-> "none"]
  /\ launches = [f \in Fences |-> 0]
  /\ finished = {}
  /\ faults = 0

Step(c) ==
  \/ Commit(c) \/ Replay(c) \/ Refused(c)
  \/ Begin(c) \/ BeginRecovery(c) \/ CompareFence(c) \/ VerifyCheckpoint(c) \/ Resume(c)
  \/ CheckEvidence(c) \/ Launch(c) \/ RecordSpawn(c)
  \/ BeginRenewal(c) \/ SaveCheckpoint(c) \/ StopWorker(c) \/ Reap(c)
  \/ Snapshot(c) \/ PublishEvidence(c) \/ Fail(c)

Next == Tick \/ \E c \in Controllers : Step(c) \/ WorkerEnds(c) \/ Crash(c)

Spec == Init /\ [][Next]_vars
---------------------------------------------------------------------------
(* Properties                                                              *)

OwnersOrNone == Owners \cup {None}
SessionOrNone == {Session, None}
Leases == [owner : OwnersOrNone, session : SessionOrNone, fence : Nat, expires : Nat]
Tasks  == [revision : Nat, status : Status, owner : OwnersOrNone, lease : Leases, fence : Nat]
Statuses == {"none", "completed", "failed", "stopped"}
WorkerStates == {"none", "running", "ok", "bad"}
Requests == [op : {"claim", "lease", "recover", "heartbeat", "event", "reconcile"},
             revision : Nat, owner : OwnersOrNone, session : SessionOrNone, lease : Leases,
             arg : {"session_started"} \cup Statuses \cup Terminal]
Kinds == {"CLAIM", "LEASE", "RECOVER", "SESSION-STARTED", "HEARTBEAT", "MONITOR",
          "SESSION-TERMINAL", "RECONCILE", "FAILURE-TERMINAL", "FAILURE-RECONCILE"}
Pcs == {"idle", "compare", "verify", "resume", "evidence", "launch", "spawned", "monitor",
        "checkpoint", "snapshot", "publish", "failing"} \cup Calls
Receipts == [id : Kinds \X Nat \X Nat, request : Requests, revision : Nat, lease : Leases]
Locals == [pc : Pcs, revision : Nat, lease : Leases, beats : Nat, prior : Nat, status : Statuses]

(* Every variable keeps its type.                                          *)
TypeOK ==
  /\ task \in Tasks
  /\ operations \subseteq Receipts
  /\ clock \in Nat
  /\ checkpoint \in Fences \cup {0}
  /\ evidence \in [Fences -> {"none", "spawn", "terminal"}]
  /\ ctl \in [Controllers -> Locals]
  /\ worker \in [Controllers -> WorkerStates]
  /\ launches \in [Fences -> Nat]
  /\ finished \subseteq Fences
  /\ faults \in Nat

(* A lease runs one worker: no fence is ever executed twice, through       *)
(* crashes, lost answers, recoveries and controllers racing for the task   *)
(* (the evidence check, the operation ids and the claim together; "Admit   *)
(* and run exactly one deterministic local fake agent session").           *)
OneLaunchPerFence == \A f \in Fences : launches[f] <= 1

(* The task is done only on the strength of a worker that ran to a clean   *)
(* end under the very fence that reconciled it: not one stopped by the     *)
(* monitor, not one of a superseded run.                                   *)
DoneByItsWorker == task.status = "done" => task.fence \in finished

(* The final evidence of a run is on disk only when the authority has      *)
(* closed the task under that fence, so a crash never leaves a terminal    *)
(* record of a task that someone may still recover.                        *)
EvidenceFollowsAuthority ==
  ReconcileTerminal =>
    \A f \in Fences : evidence[f] = "terminal" => task.status \in Terminal /\ task.fence = f

(* What a controller reports and leaves behind is what the authority says: *)
(* a task is done by the worker that ran it, and evidence is written after *)
(* the authority closed the task (run).                                    *)
ReportsAreTrue == TypeOK /\ DoneByItsWorker /\ EvidenceFollowsAuthority

(* A recovery goes on from the run it replaced: whoever resumes under a    *)
(* recovered lease inspected a checkpoint of the fence just before it.     *)
RecoveryContinuesPriorFence ==
  \A c \in Controllers :
    ctl[c].pc \in {"verify", "resume"} => ctl[c].prior = ctl[c].lease.fence - 1

(* "A started session must leave an authoritative failure request when the *)
(* lease is still current": a run that leaves its failure path by itself   *)
(* leaves no task it still holds, unless the answer to its report is lost. *)
FailureIsReported ==
  [][\A c \in Controllers :
       /\ ctl[c].pc \in {"failing"} \cup FailureCalls
       /\ ctl'[c].pc = "idle"
       /\ faults' = faults
       => ~HoldsLease(task', ctl[c].lease, clock)]_vars

(* The runs change the task only as the abstract authority may: the        *)
(* controllers, replayed receipts included, never write outside a term.    *)
Authority == INSTANCE TaskAuthority WITH
  phase  <- CASE task.status = "open"    -> "free"
              [] task.status = "claimed" -> "claimed"
              [] task.status = "running" -> "held"
              [] OTHER                   -> "closed",
  fence  <- task.fence, until <- task.lease.expires, writes <- task.revision, now <- clock

ImplementsAuthority == Authority!Spec

(* Whatever the controllers ask of the authority, repeated and stale calls *)
(* included, is within the terms of TaskAuthority, and a run that fails    *)
(* leaves no task it still holds (_authority_write, run).                  *)
ControllersKeepTheirTerms == ImplementsAuthority /\ FailureIsReported

---------------------------------------------------------------------------
(* For the model checker: every controller is an owner of its own, and the *)
(* controllers are only compared.                                          *)
OwnIdentity == [c \in Controllers |-> c]
Symmetry    == Permutations(Controllers)
===========================================================================
