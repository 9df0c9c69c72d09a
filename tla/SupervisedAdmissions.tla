------------------------ MODULE SupervisedAdmissions ------------------------
(***************************************************************************)
(* The offline models of an admitted worker: seven objects that apply one  *)
(* action after another to a lifecycle, under an exact binding of a worker *)
(* and its lease, and that replace the binding when the work is recovered. *)
(*   runtime       scripts/supervisor_runtime.py                           *)
(*   enforcement   scripts/host_enforcement.py                             *)
(*   admission     scripts/host_admission.py                               *)
(*   workflow      scripts/autonomous_workflow.py                          *)
(*   bootstrap     scripts/session_bootstrap.py                            *)
(*   model         scripts/runtime_model.py                                *)
(*   broker        scripts/capability_broker.py                            *)
(*                                                                         *)
(* The bindings of the task, the project and the worktree never change and *)
(* are left out; a worker stands for itself and its lease, which are       *)
(* compared and replaced together.  A command is the tool that it uses and *)
(* whether its resources were seen to be complete and within the budget.   *)
(* Whoever calls may deliver the first action again.                       *)
(***************************************************************************)
EXTENDS Naturals, Sequences

CONSTANTS
    Kinds,
    Workers,
    Tools, Granted,
    Digests,
    MaxTime,
    MaxActions,     \* bound: kind |-> actions
    None

VARIABLES
    kind,
    admission,      \* [worker, expires]
    state,
    now,
    saved,          \* checkpoint_digest of the workflow and of the model
    log             \* the actions: [id, operation, before, admission, time, detail, command]

vars == <<kind, admission, state, now, saved, log>>

Bindings == [worker : Workers, expires : 1..MaxTime]
Commands == [tool : Tools, within : BOOLEAN]

\* The tables of the sources: state, operation, state.
SupervisorMoves == {
    <<"admitted", "start", "active">>, <<"active", "cancel", "cancelling">>, <<"cancelling", "cancel_ack", "closed">>,
    <<"handed_off", "resume", "active">>, <<"recovered", "resume", "active">>,
    <<"active", "complete", "closed">>, <<"active", "fail", "failed">>}
EnforcementMoves == {
    <<"admitted", "start", "starting">>, <<"starting", "started", "running">>, <<"running", "interrupt", "interrupting">>,
    <<"interrupting", "ack_interrupt", "interrupted">>, <<"running", "complete", "completed">>,
    <<"running", "timeout", "timed_out">>, <<"starting", "fail", "failed">>, <<"running", "fail", "failed">>,
    <<"interrupted", "recover", "recovering">>, <<"failed", "recover", "recovering">>,
    <<"timed_out", "recover", "recovering">>, <<"recovering", "resumed", "running">>}
AdmissionMoves == {
    <<"admitted", "launch", "running">>, <<"running", "cancel", "cancelling">>, <<"cancelling", "cleanup", "cancelled">>,
    <<"cancelled", "checkpoint", "checkpointed">>, <<"checkpointed", "recover", "recovering">>,
    <<"recovering", "resume", "running">>}
WorkflowMoves == {
    <<"new", "plan_observed", "planned">>, <<"planned", "execution_started", "executing">>,
    <<"executing", "quality_submitted", "quality_pending">>, <<"quality_pending", "oracle_discussion", "oracle_pending">>,
    <<"oracle_pending", "oracle_decision", "oracle_observed">>, <<"oracle_observed", "checkpoint", "checkpointed">>,
    <<"checkpointed", "interrupt", "interrupted">>, <<"interrupted", "recover", "recovering">>,
    <<"recovering", "resume", "executing">>, <<"executing", "review_observed", "review_pending">>,
    <<"review_pending", "merge_observed", "merge_pending">>, <<"merge_pending", "durable_observation", "observed">>,
    <<"observed", "reconcile", "reconciled">>, <<"reconciled", "terminal_observation", "terminal">>}
BootstrapMoves == {
    <<"admitted", "bootstrap", "active">>, <<"active", "checkpoint", "active">>,
    <<"active", "interrupt", "interrupted">>, <<"active", "fail", "failed">>}
ModelMoves == {
    <<"new", "admit", "admitted">>, <<"admitted", "claim", "claimed">>, <<"claimed", "start", "started">>,
    <<"started", "execute", "executing">>, <<"executing", "oracle_required", "oracle_pending">>,
    <<"oracle_pending", "oracle_answer", "executing">>, <<"executing", "checkpoint", "executing">>,
    <<"executing", "interrupt", "interrupted">>, <<"interrupted", "recover", "recovering">>,
    <<"recovering", "resume", "executing">>, <<"executing", "publish", "publishing">>,
    <<"publishing", "reconcile", "reconciled">>, <<"reconciled", "complete", "completed">>} \cup
    {<<before, "fail", "failed">> : before \in {"executing", "oracle_pending", "recovering", "publishing"}}
BrokerMoves == {<<"active", "use", "active">>, <<"active", "close", "closed">>}

TableOf == [runtime |-> SupervisorMoves, enforcement |-> EnforcementMoves,
            admission |-> AdmissionMoves, workflow |-> WorkflowMoves, bootstrap |-> BootstrapMoves,
            model |-> ModelMoves, broker |-> BrokerMoves]
StatesOf(k) == {move[1] : move \in TableOf[k]} \cup {move[3] : move \in TableOf[k]} \cup
               (IF k = "runtime" THEN {"handed_off", "recovered"} ELSE {})

\* The operations that start the process, and the states in which it runs.
Launches == {"start", "started", "resumed", "launch", "resume", "execution_started", "bootstrap", "execute"}
Runs     == {"active", "running", "executing"}

Init ==
    /\ kind \in Kinds
    /\ admission \in {b \in Bindings : b.expires = MaxTime - 1}
    /\ state = CASE kind \in {"workflow", "model"} -> "new"
                 [] kind = "broker"               -> "active"
                 [] OTHER                         -> "admitted"
    /\ now = 0 /\ saved = None /\ log = <<>>

IsTimed == kind \notin {"workflow", "model", "broker"}
SavesCheckpoints == kind \in {"workflow", "model"}

\* Mutated form of the next definition: each worker numbers its own actions.
FreshPerWorker(id) ==
    \A i \in DOMAIN log : log[i].admission.worker = admission.worker => log[i].id # id

Fresh(id) == \A i \in DOMAIN log : log[i].id # id

\* Mutated form of the next definition: the clock is compared, not the worker.
MayActForOther(worker, operation, time) ==
    IF IsTimed THEN time >= now /\ (operation # "stale_recover" => time < admission.expires) ELSE time = 0

\* The fence and the clock, which every action is compared with.
MayAct(worker, operation, time) ==
    /\ worker = admission.worker
    /\ IF IsTimed THEN time >= now /\ (operation # "stale_recover" => time < admission.expires) ELSE time = 0

\* Only these models look at the command.
Limits(operation) == \/ kind \in {"enforcement", "admission"} /\ operation \in Launches
                     \/ operation = "use"
IsGranted(command) == command # None /\ command.tool \in Granted /\ command.within

\* Mutated form of the next definition: what was admitted once is not looked at again.
AdmitsOnce(operation, command) ==
    Limits(operation) /\ operation \in {"start", "launch"} => IsGranted(command)

\* _command and _launch.
Admits(operation, command) == Limits(operation) => IsGranted(command)

Acts(id, operation, worker, time, detail, command, after) ==
    /\ Len(log) < MaxActions[kind]
    /\ Fresh(id) /\ MayAct(worker, operation, time) /\ Admits(operation, command)
    /\ state' = after /\ now' = time
    /\ log' = Append(log, [id |-> id, operation |-> operation, before |-> state,
                           admission |-> [worker |-> worker, expires |-> admission.expires],
                           time |-> time, detail |-> detail, command |-> command])
    /\ UNCHANGED kind

\* A checkpoint and a resume of such work carry a digest, a decision its status.
DetailsOf(operation) ==
    CASE SavesCheckpoints /\ operation = "checkpoint"          -> Digests
      [] SavesCheckpoints /\ operation = "resume"              -> {saved}
      [] operation \in {"oracle_decision", "oracle_answer"}    -> {"approved", "rejected"}
      [] OTHER                                                 -> {None}

Replacements == {"recover", "handoff", "stale_recover"}

\* An operation of the table that leaves the binding as it is.
Move(id, worker, time) ==
    \E move \in {m \in TableOf[kind] : m[1] = state /\ m[2] \notin Replacements} :
    LET operation == move[2] IN
    \E detail \in DetailsOf(operation), command \in IF Limits(operation) THEN Commands ELSE {None} :
        /\ Acts(id, operation, worker, time, detail, command, move[3])
        /\ saved' = IF SavesCheckpoints /\ operation = "checkpoint" THEN detail ELSE saved
        /\ UNCHANGED admission

Heartbeat(id, worker, time, expires) ==
    /\ kind = "runtime" /\ state = "active"
    /\ time > now /\ expires > admission.expires
    /\ Acts(id, "heartbeat", worker, time, None, None, state)
    /\ admission' = [admission EXCEPT !.expires = expires]
    /\ UNCHANGED saved

\* handoff and stale_recover of the supervisor.
Replace(id, operation, worker, time, new) ==
    /\ kind = "runtime"
    /\ state \in (IF operation = "handoff" THEN {"active"} ELSE {"active", "handed_off"})
    /\ operation = "stale_recover" => time >= admission.expires
    /\ new.expires > time
    /\ Acts(id, operation, worker, time, None, None,
            IF operation = "handoff" THEN "handed_off" ELSE "recovered")
    /\ admission' = new /\ UNCHANGED saved

\* Mutated form of the next definition: the checkpoint is not compared.
AdmitsAnyCheckpoint(detail) == detail \in Digests

IsOfCheckpoint(detail) == IF SavesCheckpoints THEN detail = saved ELSE detail \in Digests

\* recover of the other ones: both the worker and the lease are new.
Recover(id, worker, time, new, detail) ==
    /\ \E move \in TableOf[kind] : move[1] = state /\ move[2] = "recover"
    /\ new.worker # admission.worker
    /\ kind = "admission" => new.expires > time
    /\ SavesCheckpoints => new.expires = admission.expires
    /\ kind # "admission" => IsOfCheckpoint(detail)
    /\ Acts(id, "recover", worker, time, detail, None, "recovering")
    /\ admission' = new /\ UNCHANGED saved

Next == \E id \in {1, Len(log) + 1}, w \in Workers, t \in now..MaxTime :
    \/ Move(id, w, t)
    \/ \E e \in 1..MaxTime : Heartbeat(id, w, t, e)
    \/ \E new \in Bindings :
          \/ \E operation \in {"handoff", "stale_recover"} : Replace(id, operation, w, t, new)
          \/ \E d \in Digests : Recover(id, w, t, new, d)

Spec == Init /\ [][Next]_vars

-----------------------------------------------------------------------------
(* Properties. *)

TypeOK ==
    /\ admission \in Bindings /\ state \in StatesOf(kind)
    /\ now \in 0..MaxTime /\ saved \in Digests \cup {None}

HolderAfter(i) == IF i = Len(log) THEN admission ELSE log[i + 1].admission

\* One worker at a time acts, each action once and in the order of time, before the end
\* of the lease that it acts under; only a replacement changes who that is.
OneWorkerActs ==
    \A i \in DOMAIN log :
        /\ log[i].operation \notin Replacements =>
              log[i].admission.worker = HolderAfter(i).worker
        /\ IsTimed /\ log[i].operation # "stale_recover" => log[i].time < log[i].admission.expires
        /\ i > 1 => log[i - 1].time <= log[i].time
        /\ \A j \in DOMAIN log : log[i].id = log[j].id => i = j

\* What runs was started by the worker that holds the admission now, with a tool that is
\* granted and within the budget: a worker that was replaced runs only once the new one
\* is started.
RunningIsAdmitted ==
    state \in Runs /\ kind # "broker" => \E i \in DOMAIN log :
        /\ log[i].operation \in Launches
        /\ log[i].admission.worker = admission.worker
        /\ \A j \in i..Len(log) : log[j].operation \notin Replacements
        /\ \A j \in i..Len(log) : Limits(log[j].operation) => IsGranted(log[j].command)

\* The work goes on from the checkpoint it saved last, and an admitted host starts
\* the second process only when the first one's tree was cleaned up.
ResumesAreClean ==
    \A i \in DOMAIN log :
        /\ SavesCheckpoints /\ log[i].operation \in {"recover", "resume"} =>
              \E j \in 1..(i - 1) : /\ log[j].operation = "checkpoint" /\ log[j].detail = log[i].detail
                                    /\ \A k \in (j + 1)..(i - 1) : log[k].operation # "checkpoint"
        /\ kind = "admission" /\ log[i].operation = "resume" =>
              \E j \in 1..(i - 1) : /\ log[j].operation = "cleanup"
                                    /\ \A k \in (j + 1)..(i - 1) : log[k].operation \notin Launches

\* VIOLATED (autonomous_workflow.py:29).  A review is observed of work whose quality
\* nobody was asked about.
ReviewedHasQuality ==
    kind = "workflow" /\ state = "review_pending" => \E i \in DOMAIN log : log[i].operation = "quality_submitted"

\* VIOLATED (autonomous_workflow.py:134).  After a rejection the work goes on as after an
\* approval.
RejectionStops ==
    kind = "workflow" /\ state = "merge_pending" => \A i \in DOMAIN log : log[i].detail # "rejected"

\* VIOLATED (host_enforcement.py:134-137).  Work that failed or timed out is recovered
\* though nobody acknowledged that its process was terminated.
RecoveredIsStopped ==
    kind = "enforcement" => \A i \in DOMAIN log : log[i].operation = "recover" => log[i].before = "interrupted"

\* VIOLATED (host_enforcement.py:137).  The lease of the recovery may be
\* over when it is given.
RecoveredLeaseIsOpen == IsTimed => now < admission.expires \/ Len(log) = 0
=============================================================================
