------------------------------- MODULE MCCalls -------------------------------
(* Two ways in which work is asked for and answered in the local runtime, side *)
(* by side; one of them is in use in a behaviour.                              *)
(*   jobs    two contractors that share a worker's name, and a job of the      *)
(*           command line that depends on one of theirs                        *)
(*   gates   one authority in the caller's process, two behind pipes and one   *)
(*           hosted                                                            *)
EXTENDS LocalRuntime

CONSTANTS Tasks, Revisions, Transport, MaxAttempts, CallBudget
VARIABLES inUse, call, asked, memory, inbox, outbox, decided, granted

Job(needs, priority, retries) ==
    [needs |-> needs, priority |-> priority, retries |-> retries, adapter |-> "alpha", capabilities |-> {"request"}]
MCJobSpec == <<Job({}, 50, 1), Job({}, 50, 0), Job({1}, 60, 0)>>
MCWorkerOf == <<"w", "w">>
MCProfiles == {[adapter |-> "alpha", digest |-> d, capabilities |-> {"request"}] : d \in {"x", "y"}}

MCTransport == [coordinator |-> "local", awq |-> "process", awg |-> "hosted", ui |-> "process"]

Gates == INSTANCE AuthorityGates WITH calls <- asked

ASSUME GatesAssumption ==
    /\ MaxAttempts \in Nat \ {0} /\ CallBudget \in Nat
    /\ None \notin [request : Gates!Requests, outcome : UNION {Gates!Outcomes(a) : a \in Gates!Authorities}]

gateVars == <<call, asked, memory, inbox, outbox, decided, granted>>
MCVars   == <<inUse, vars, gateVars>>

AtJobs(A)  == inUse = "jobs" /\ A /\ UNCHANGED <<inUse, gateVars>>
AtGates(A) == inUse = "gates" /\ A /\ UNCHANGED <<inUse, vars>>

MCInit == inUse \in {"jobs", "gates"} /\ Init /\ Gates!Init
MCNext == AtJobs(Next) \/ AtGates(Gates!Next)

\* The fairness of the two components.
MCSpec ==
    /\ MCInit /\ [][MCNext]_MCVars
    /\ WF_MCVars(AtJobs(\E j \in Jobs, w \in Workers : TakeWork(j, w)))
    /\ \A j \in Jobs : WF_MCVars(AtJobs(\E w \in Workers, s \in {"done", "failed"} : Report(j, w, s)))
    /\ \A c \in Contractors : WF_MCVars(AtJobs(Contract(c)))
    /\ WF_MCVars(AtGates(Gates!Ask))

\* A job is worked on under the profile its submission was negotiated for, and a
\* contractor ends no job but its own (scheduler_local.py, contractor.py).
JobsAreWorkedAsAgreed ==
    inUse = "jobs" => TypeOK /\ DispatchedAsSubmitted /\ ConcludesItsOwnJob

\* Work is admitted, and an artifact accepted, only by what each authority in turn
\* decided of this task at this revision, and it decides an operation once, however
\* often and however late it is asked (authority_gates.py and its transports).
GrantsAreDecided ==
    inUse = "gates" => Gates!TypeOK /\ Gates!GrantedByEveryGate /\ Gates!DecidedOnce

\* A job of the scheduler's file is over in the end unless it is halted, and a call
\* of the gates returns or raises.
WorkIsAnswered == JobsSettle /\ Gates!CallsEnd
==============================================================================
