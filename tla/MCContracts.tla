----------------------------- MODULE MCContracts -----------------------------
(* The offline models the runtime was written against, side by side; one is   *)
(* in use in a behaviour, and the others stay as they began.                  *)
(*   coordinator  tasks, leases and answered operations                       *)
(*   recovery     what is left when a worker is interrupted                   *)
(*   evidence     ledgers, journals and reports                               *)
(*   provider     the traces of the adapters                                  *)
(*   workflow     the records of whole workflows                              *)
(*   admission    workers that are admitted, replaced and resumed             *)
(*   preflight    what is looked at before a session starts                   *)
(* Things that two of them name share their model values, so that one         *)
(* permutation moves them all.                                                *)
EXTENDS CoordinatorContracts, TLC

CONSTANTS Pair, Triple     \* workers, references and digests; event ids and actors

VARIABLES
    inUse,
    recoveryKind, records, recoveryState, holder, saved, exported,
    evidenceKind, entries, used, anchor, known, export, file,
    adapter, adapterState, bound, negotiated, requests, checkpoint, trace, accepted,
    workflowKind, record, terminal, outcome,
    admissionKind, admission, admissionState, admissionNow, admissionSaved, actions,
    preflightKind, registry, asked, verdict

Recovery == INSTANCE RecoveryContracts WITH
    Workers <- Pair, MaxFence <- 3, MaxRecords <- [session |-> 3, journal |-> 3, kernel |-> 3, checkpoints |-> 5],
    kind <- recoveryKind, log <- records, state <- recoveryState
Evidence == INSTANCE EvidenceJournals WITH
    Ids <- Triple, Actors <- Triple, Order <- <<"admission", "lease", "terminal">>, Budget <- 3, Retention <- 2,
    MaxAgents <- 2, MaxEntries <- 4, contract <- evidenceKind, log <- entries
Provider == INSTANCE ProviderAdapters WITH
    Kinds <- {"codex", "reference", "opendesk", "production", "protocol", "desklive", "codexlive",
              "opencodelive", "opencode"},
    Refs <- Pair, Capabilities <- {"read", "edit", "run"}, Supported <- {"read", "edit"},
    MaxRecords <- [codex |-> 5, reference |-> 5, opendesk |-> 5, production |-> 6, protocol |-> 7,
                   desklive |-> 7, codexlive |-> 6, opencodelive |-> 5, opencode |-> 3],
    kind <- adapter, state <- adapterState
Workflow == INSTANCE WorkflowRecords WITH MaxEvents <- 7, MaxDeviations <- 2, kind <- workflowKind
Admission == INSTANCE SupervisedAdmissions WITH
    Kinds <- {"runtime", "enforcement", "admission", "workflow", "bootstrap", "model", "broker"},
    Workers <- Pair, Digests <- Pair, Tools <- {"read", "edit"}, Granted <- {"read"}, MaxTime <- 3,
    MaxActions <- [runtime |-> 7, enforcement |-> 9, admission |-> 12, workflow |-> 18, bootstrap |-> 4,
                   model |-> 10, broker |-> 3],
    kind <- admissionKind, state <- admissionState, now <- admissionNow, saved <- admissionSaved, log <- actions
Preflight == INSTANCE Preflights WITH
    Capabilities <- {"read", "edit"}, Protocols <- {"1", "2"}, Versions <- 1..2, MaxLoads <- 2, MaxUse <- 2, kind <- preflightKind

recoveryVars  == <<recoveryKind, records, recoveryState, holder, saved, exported>>
evidenceVars  == <<evidenceKind, entries, used, anchor, known, export, file>>
providerVars  == <<adapter, adapterState, bound, negotiated, requests, checkpoint, trace, accepted>>
workflowVars  == <<workflowKind, record, terminal, outcome>>
admissionVars == <<admissionKind, admission, admissionState, admissionNow, admissionSaved, actions>>
preflightVars == <<preflightKind, registry, asked, verdict>>
MCVars == <<inUse, vars, recoveryVars, evidenceVars, providerVars, workflowVars, admissionVars, preflightVars>>

MCInit ==
    /\ inUse \in {"coordinator", "recovery", "evidence", "provider", "workflow", "admission", "preflight"}
    /\ Init /\ (inUse # "coordinator" => contract = "harness")
    /\ Recovery!Init /\ (inUse # "recovery" => recoveryKind = "session")
    /\ Evidence!Init /\ (inUse # "evidence" => evidenceKind = "ledger")
    /\ Provider!Init /\ (inUse # "provider" => adapter = "codex")
    /\ Workflow!Init /\ (inUse # "workflow" => workflowKind = CHOOSE k \in Workflow!Kinds : TRUE)
    /\ Admission!Init /\ (inUse # "admission" => admissionKind = "runtime")
    /\ admission.worker = holder.worker
    /\ Preflight!Init
    /\ inUse # "preflight" => preflightKind = "registry"
    /\ inUse # "preflight" \/ preflightKind # "registry" => registry = CHOOSE r \in Preflight!Registries : r.digest = 1

MCNext ==
    \/ /\ inUse = "coordinator" /\ Next
       /\ UNCHANGED <<inUse, recoveryVars, evidenceVars, providerVars, workflowVars, admissionVars, preflightVars>>
    \/ /\ inUse = "recovery" /\ Recovery!Next
       /\ UNCHANGED <<inUse, vars, evidenceVars, providerVars, workflowVars, admissionVars, preflightVars>>
    \/ /\ inUse = "evidence" /\ Evidence!Next
       /\ UNCHANGED <<inUse, vars, recoveryVars, providerVars, workflowVars, admissionVars, preflightVars>>
    \/ /\ inUse = "provider" /\ Provider!Next
       /\ UNCHANGED <<inUse, vars, recoveryVars, evidenceVars, workflowVars, admissionVars, preflightVars>>
    \/ /\ inUse = "workflow" /\ Workflow!Next
       /\ UNCHANGED <<inUse, vars, recoveryVars, evidenceVars, providerVars, admissionVars, preflightVars>>
    \/ /\ inUse = "admission" /\ Admission!Next
       /\ UNCHANGED <<inUse, vars, recoveryVars, evidenceVars, providerVars, workflowVars, preflightVars>>
    \/ /\ inUse = "preflight" /\ Preflight!Next
       /\ UNCHANGED <<inUse, vars, recoveryVars, evidenceVars, providerVars, workflowVars, admissionVars>>
MCSpec == MCInit /\ [][MCNext]_MCVars

Symmetry == Permutations(Pair) \cup Permutations(Triple)

\* One worker at a time, under a fence that is issued once and an operation that is
\* committed once, acts on a task, on what is left of an interrupted one, and in an
\* admission (coordinator_state.py, coordinator_transport.py, lease_claim_fencing.py,
\* durable_recovery.py, supervisor_runtime.py, host_admission.py and their kin).
TermsAndFencesHold ==
    /\ inUse = "coordinator" => TypeOK /\ AnsweredAlike /\ EventsAreTheHolders /\ FencesAreIssuedOnce
    /\ inUse = "recovery" => Recovery!TypeOK /\ Recovery!LogsAreFenced /\ Recovery!InterruptedWorkersStop
    /\ inUse = "admission" => /\ Admission!TypeOK /\ Admission!OneWorkerActs
                              /\ Admission!RunningIsAdmitted /\ Admission!ResumesAreClean

\* What is kept of a run and accepted as its record says what happened: a ledger and a
\* journal follow from their entries, an accepted trace is one its adapter went through,
\* a workflow succeeds in the order of its gates, and what a preflight lets through can be
\* served (cross_agent_accounting.py, privacy_safe_journal.py, the adapters and their
\* checkers, full_workflow_orchestrator.py, agent_registry.py and their kin).
RecordsAreSound ==
    /\ inUse = "evidence" => /\ Evidence!TypeOK /\ Evidence!WrittenLedgersReplay
                             /\ Evidence!JournalsKeepTheirChain /\ Evidence!AcceptedIsAsObserved
    /\ inUse = "provider" => /\ Provider!TypeOK /\ Provider!TracesAreAccepted /\ Provider!ServedAreSupported
                             /\ Provider!ResumesGoBack /\ Provider!AcceptedAreAnswered
    /\ inUse = "workflow" => Workflow!TypeOK /\ Workflow!RecordsAreSound
    /\ inUse = "preflight" => Preflight!TypeOK /\ Preflight!AdmittedCanBeServed

\* A holder's term ends by its own step or after its lease's end, and what a crash left
\* ambiguous goes on under a new fence only (lease_claim_fencing.py, durable_recovery.py).
TermsEndCleanly == HoldersEndTheirTerms /\ Recovery!AmbiguityIsFenced
==============================================================================
