--------------------------- MODULE WorkflowRecords ---------------------------
(***************************************************************************)
(* The offline records of a whole workflow, each grown event by event as   *)
(* its validator goes over it and closed when the validator accepts it.    *)
(*   full   Orchestrator and validate_record,                              *)
(*          scripts/full_workflow_orchestrator.py                          *)
(*   multi  validate, scripts/multi_project_workflow.py                    *)
(*   job    validate, scripts/durable_job.py                               *)
(* the bridges, whose records hold the last observation of every part      *)
(*   local        run and validate, scripts/local_project_workflow.py      *)
(*   publication  validate_record, scripts/publication_bridge.py           *)
(*   ci           validate, scripts/publication_ci_bridge.py               *)
(*   observation  validate_record, scripts/ci_observation_adapter.py       *)
(*   release      validate, scripts/publication_release_bridge.py          *)
(*   asb          validate, scripts/asb_integration.py                     *)
(* and two exchanges with an external authority                            *)
(*   transport    LocalAWQFake.submit and validate_record,                 *)
(*                scripts/awq_evidence_transport.py                        *)
(*   decision     validate, scripts/awg_decision_integration.py            *)
(*                                                                         *)
(* Bindings, digests and the privacy scan are always right.  A status is   *)
(* the one a success needs ("due"), another one, a failure or a block; of  *)
(* an exchange, it is the answer.                                          *)
(***************************************************************************)
EXTENDS Naturals, Sequences, FiniteSets

CONSTANTS
    MaxEvents,      \* bound of a job's events
    MaxDeviations   \* bound of the statuses that are not the due ones

VARIABLES
    kind,
    record,         \* the events, in the order they were observed: [event, status]
    terminal,       \* what the full workflow derives from its statuses
    outcome         \* what the accepted record says

vars == <<kind, record, terminal, outcome>>

Undecided == "undecided"
Bridges == {"local", "publication", "ci", "observation", "release", "asb"}
Kinds == {"full", "multi", "job", "transport", "decision"} \cup Bridges

COMPONENTS == <<"admission", "supervisor", "adapter", "journal", "awq", "awg", "ui", "publication", "security">>
STAGES == <<"intake", "decomposition", "scheduling", "specialist_a", "specialist_b",
            "integration", "quality", "oracle", "ui", "artifact">>
Statuses == {"due", "other", "failed", "blocked"}
Answers == {"accepted", "rejected", "blocked", "unknown_outcome"}
Decisions == {"not_decided", "decided", "rejected", "conflicting", "expired"}

Init == kind \in Kinds /\ record = <<>> /\ terminal = Undecided /\ outcome = Undecided

Seen == {record[i].event : i \in DOMAIN record}
Before(a, b) == \E i, j \in DOMAIN record : i < j /\ record[i].event = a /\ record[j].event = b
Deviations == {i \in DOMAIN record : record[i].status # "due"}
Grow(event, status) ==
    /\ outcome = Undecided
    /\ record' = Append(record, [event |-> event, status |-> status])
    /\ UNCHANGED <<kind, outcome>>

-----------------------------------------------------------------------------
(* full: every component in its order, once. *)

\* Mutated form of the next definition: a component need not wait for the one before it.
NextGateAhead(c) == COMPONENTS[c] \notin Seen /\ \A d \in 1..(c - 2) : COMPONENTS[d] \in Seen

NextGate(c) == COMPONENTS[c] \notin Seen /\ \A d \in 1..(c - 1) : COMPONENTS[d] \in Seen

\* apply: a repeated operation changes nothing; a later failure or block replaces the
\* earlier one.
Apply(c, status) ==
    /\ kind = "full" /\ NextGate(c)
    /\ status # "due" => Cardinality(Deviations) < MaxDeviations
    /\ Grow(COMPONENTS[c], status)
    /\ terminal' = CASE status = "failed"  -> "failure"
                     [] status = "blocked" -> "blocked"
                     [] OTHER              -> terminal

\* Mutated form of the next definition: it is enough that every component was observed.
SucceedsObserved == Seen = {COMPONENTS[c] : c \in DOMAIN COMPONENTS} /\ terminal = Undecided

Succeeds ==
    /\ Seen = {COMPONENTS[c] : c \in DOMAIN COMPONENTS} /\ terminal = Undecided
    /\ \A i \in DOMAIN record : record[i].status = "due"

Finish(status) ==
    /\ kind = "full" /\ outcome = Undecided /\ record # <<>>
    /\ IF status = "success" THEN Succeeds ELSE terminal = status
    /\ outcome' = status
    /\ UNCHANGED <<kind, record, terminal>>

-----------------------------------------------------------------------------
(* multi: the specialists side by side. *)

Specialists == {"specialist_a", "specialist_b"}

\* Mutated form of the next definition: only the stage just before is looked at.
StageDependsOnLast(s) ==
    IF s = 1 THEN {} ELSE {STAGES[s - 1]} \ Specialists

\* expected_deps: nothing depends on a specialist.
StageDepends(s) ==
    IF STAGES[s] \in Specialists THEN {"scheduling"} ELSE {STAGES[t] : t \in 1..(s - 1)} \ Specialists

AddStage(s) ==
    /\ kind = "multi" /\ STAGES[s] \notin Seen /\ StageDepends(s) \subseteq Seen
    /\ Grow(STAGES[s], "due") /\ UNCHANGED terminal

AcceptStages ==
    /\ kind = "multi" /\ outcome = Undecided /\ Len(record) = Len(STAGES)
    /\ outcome' = "success"
    /\ UNCHANGED <<kind, record, terminal>>

-----------------------------------------------------------------------------
(* job: the table of a durable job. *)

JobState == IF record = <<>> THEN "submitted" ELSE record[Len(record)].event
JobTerminal == {"succeeded", "failed", "cancelled"}

JobTable ==
    {<<"submitted", "admitted">>, <<"admitted", "queued">>, <<"queued", "running">>,
     <<"running", "awaiting_human_gate">>, <<"awaiting_human_gate", "running">>,
     <<"running", "checkpointed">>, <<"checkpointed", "running">>, <<"running", "cancelling">>,
     <<"cancelling", "cancelled">>, <<"running", "succeeded">>, <<"running", "failed">>,
     <<"queued", "cancelled">>, <<"admitted", "cancelled">>}

\* Mutated form of the next definition: a running job is cancelled without its answer.
JobMovesUnacknowledged == JobTable \cup {<<"running", "cancelled">>}

JobMoves == JobTable

AddMove(to) ==
    /\ kind = "job" /\ <<JobState, to>> \in JobMoves /\ Len(record) < MaxEvents
    /\ Grow(to, "due") /\ UNCHANGED terminal

AcceptJob ==
    /\ kind = "job" /\ outcome = Undecided /\ JobState \in JobTerminal
    /\ outcome' = JobState
    /\ UNCHANGED <<kind, record, terminal>>

-----------------------------------------------------------------------------
(* bridges: parts that are observed in any order, as often as one likes, and *)
(* a trace whose events come once and in their order.                        *)

Trace ==
    [local |-> <<"task_admitted", "worker_started", "change_proposed", "tests_passed", "quality_accepted",
                 "repair_resolved", "human_gate_accepted", "terminal_reconciled">>,
     release |-> <<"observe", "qualify", "handoff", "rollback_prepare">>,
     asb |-> <<"setup_init", "add_first_agent", "agent_connection", "preflight_eligibility", "benchmark_run",
               "extend_identical_configuration", "llm_record_replay", "interrupt_recovery", "comparison">>,
     publication |-> <<>>, ci |-> <<>>, observation |-> <<>>]
Traced(k) == {Trace[k][i] : i \in DOMAIN Trace[k]}

Observed ==
    [publication |-> {"commit", "review", "merge", "publication"},
     ci |-> {"commit", "review", "merge_handoff", "ci", "publication"},
     observation |-> {"request", "local_qualification", "remote_observation", "correlation"},
     release |-> {"review", "ci"}, local |-> {}, asb |-> {}]

\* The parts that are compared with the head of the branch, with the revision of the
\* project, or with the first agent's configuration: those that a change of it leaves behind.
Bound ==
    [publication |-> Observed.publication \ {"commit"}, ci |-> Observed.ci,
     release |-> Observed.release \cup Traced("release"), local |-> Traced("local"),
     asb |-> {"add_first_agent", "extend_identical_configuration", "comparison"}, observation |-> {}]

\* A part that names another by its identifier.
Names == {<<"ci", "review">>, <<"remote_observation", "request">>, <<"correlation", "request">>}

\* A part is observed again in the place of what it was.
Put(event, status) ==
    /\ kind \in Bridges /\ outcome = Undecided
    /\ status # "due" => Cardinality(Deviations) < MaxDeviations
    /\ record' = Append(SelectSeq(record, LAMBDA e : e.event # event), [event |-> event, status |-> status])
    /\ UNCHANGED <<kind, terminal, outcome>>

Observe(part, status) ==
    /\ kind \in Bridges /\ part \in Observed[kind]
    /\ \A n \in Names : n[1] = part => n[2] \in Seen
    /\ Put(part, status)

Step(i, status) ==
    /\ kind \in Bridges /\ i \in DOMAIN Trace[kind]
    /\ Trace[kind][i] \notin Seen /\ \A j \in 1..(i - 1) : Trace[kind][j] \in Seen
    /\ Put(Trace[kind][i], status)

\* The branch, the project or the configuration becomes another.
Change == kind \in Bridges /\ Bound[kind] # {} /\ Put("changed", "due")

\* Mutated form of the next definition: a part need not be of the review or the request.
StandsAtHead(part) == part \in Bound[kind] => ~Before(part, "changed")

Stands(part) ==
    /\ part \in Bound[kind] => ~Before(part, "changed")
    /\ \A n \in Names : n[1] = part => Before(n[2], part)

AcceptBridge ==
    /\ kind \in Bridges /\ outcome = Undecided /\ Deviations = {}
    /\ Observed[kind] \cup Traced(kind) \subseteq Seen
    /\ \A part \in Observed[kind] \cup Traced(kind) : Stands(part)
    /\ outcome' = "accepted"
    /\ UNCHANGED <<kind, record, terminal>>

-----------------------------------------------------------------------------
(* transport: the local service remembers what it answered, unless that was  *)
(* that it does not know.                                                    *)

MaxAttempts == 3
Remembered == {record[i].status : i \in DOMAIN record} \ {"unknown_outcome"}

\* LocalAWQFake.submit of an operation that is tried again.
Submit(answer) ==
    /\ kind = "transport" /\ Len(record) < MaxAttempts
    /\ Remembered # {} => answer \in Remembered
    /\ Grow("submit", answer) /\ UNCHANGED terminal

\* validate_record: only what was acknowledged is an acceptance, and what was is known.
AcceptGate(gate) ==
    /\ kind = "transport" /\ outcome = Undecided /\ record # <<>>
    /\ gate = "accepted" => record[Len(record)].status # "unknown_outcome"
    /\ gate = "unknown_outcome" => record[Len(record)].status = "unknown_outcome"
    /\ outcome' = gate
    /\ UNCHANGED <<kind, record, terminal>>

-----------------------------------------------------------------------------
(* decision: one response, which is observed before or after its time is up. *)

Respond(decision) ==
    kind = "decision" /\ "response" \notin Seen /\ Grow("response", decision) /\ UNCHANGED terminal

Expire == kind = "decision" /\ "expires" \notin Seen /\ Grow("expires", "due") /\ UNCHANGED terminal

Decided == \E i \in DOMAIN record : record[i].status = "decided"

Consume ==
    /\ kind = "decision" /\ outcome = Undecided /\ "response" \in Seen
    /\ outcome' = IF Decided /\ ~Before("expires", "response") THEN "applied" ELSE "blocked_unresolved"
    /\ UNCHANGED <<kind, record, terminal>>

Next ==
    \/ \E c \in DOMAIN COMPONENTS, status \in Statuses : Apply(c, status)
    \/ \E status \in {"success", "failure", "blocked"} : Finish(status)
    \/ (\E s \in DOMAIN STAGES : AddStage(s)) \/ AcceptStages
    \/ (\E move \in JobTable : AddMove(move[2])) \/ AcceptJob
    \/ \E part \in UNION {Observed[k] : k \in Bridges}, status \in {"due", "other"} : Observe(part, status)
    \/ \E i \in 1..9, status \in {"due", "other"} : Step(i, status)
    \/ Change \/ AcceptBridge
    \/ (\E answer \in Answers : Submit(answer)) \/ (\E gate \in Answers : AcceptGate(gate))
    \/ (\E decision \in Decisions : Respond(decision)) \/ Expire \/ Consume

Spec == Init /\ [][Next]_vars

-----------------------------------------------------------------------------
(* Properties. *)

TypeOK ==
    /\ terminal \in {Undecided, "failure", "blocked"}
    /\ outcome \in {Undecided, "success", "failure", "applied", "blocked_unresolved"} \cup JobTerminal \cup Answers
    /\ \A i \in DOMAIN record : record[i].status \in Statuses \cup Answers \cup Decisions

\* What an accepted record says was earned: a success passed every gate in its turn, each
\* with the status it owes; an artifact was judged by quality and oracle after what they
\* judge was integrated; a job that ran is cancelled only after it was told to stop.  What
\* is published was reviewed, and built after its review, at the head it has; every try of
\* an operation gets the answer it got first, and a decision is applied that was in time.
RecordsAreSound ==
    /\ kind = "full" /\ outcome = "success" =>
          /\ \A c \in 1..(Len(COMPONENTS) - 1) : Before(COMPONENTS[c], COMPONENTS[c + 1])
          /\ \A i \in DOMAIN record : record[i].status = "due"
    /\ kind = "multi" /\ outcome = "success" =>
          /\ Before("scheduling", "specialist_a") /\ Before("scheduling", "specialist_b")
          /\ Before("integration", "quality") /\ Before("quality", "oracle") /\ Before("oracle", "artifact")
    /\ kind = "job" /\ outcome = "cancelled" /\ "running" \in Seen => Before("cancelling", "cancelled")
    /\ kind \in {"ci", "release"} /\ outcome = "accepted" =>
          Before("review", "ci") /\ ~Before("review", "changed") /\ ~Before("ci", "changed")
    /\ kind = "observation" /\ outcome = "accepted" =>
          Before("request", "remote_observation") /\ Before("request", "correlation")
    /\ kind \in {"local", "asb"} /\ outcome = "accepted" =>
          \A i \in 2..Len(Trace[kind]) : Before(Trace[kind][i - 1], Trace[kind][i])
    /\ kind = "transport" =>
          \A i, j \in DOMAIN record :
              i < j /\ record[i].status # "unknown_outcome" => record[j].status = record[i].status
    /\ kind = "decision" /\ outcome = "applied" => Decided /\ ~Before("expires", "response")

\* VIOLATED (multi_project_workflow.py:151).  The work of a specialist may come after what
\* it is integrated into, and after the artifact.
IntegrationFollowsSpecialists ==
    kind = "multi" /\ outcome = "success" => \A s \in Specialists : Before(s, "integration")

\* VIOLATED (durable_job.py:99).  A job succeeds without the human gate it requires.
SuccessIsReviewed == kind = "job" /\ outcome = "succeeded" => "awaiting_human_gate" \in Seen

\* VIOLATED (full_workflow_orchestrator.py:72).  Components go on after one has failed.
NothingFollowsFailure ==
    kind = "full" => \A i \in DOMAIN record : record[i].status = "failed" => i = Len(record)

\* VIOLATED (full_workflow_orchestrator.py:72).  A later block replaces the failure.
FailuresAreKept ==
    kind = "full" /\ (\E i \in DOMAIN record : record[i].status = "failed") => outcome \in {Undecided, "failure"}

\* VIOLATED (publication_bridge.py:78).  The commit of a publication is the exact head of
\* its branch: the record says so, and its identifier is not compared.
CommitIsExactHead == kind = "publication" /\ outcome = "accepted" => ~Before("commit", "changed")

\* VIOLATED (awq_evidence_transport.py:99).  The gate says what the service answered: an
\* acceptance needs an acknowledgement, and the answer may have been a rejection.
GatesSayTheAnswer ==
    kind = "transport" /\ outcome # Undecided => outcome = record[Len(record)].status

\* VIOLATED (awg_decision_integration.py:105).  A decision that has expired is not applied:
\* the time it is observed is compared, and not the time it is applied.
AppliedIsNotExpired == kind = "decision" /\ outcome = "applied" => "expires" \notin Seen
=============================================================================
