--------------------------- MODULE AuthorityGates ---------------------------
(***************************************************************************)
(* The gates in front of a worker's session and behind its artifact        *)
(* (awr_cli/authority_gates.py), which ask four authorities in a fixed     *)
(* order, over the transports of scripts/local_authority_transport.py (an  *)
(* endpoint in the same process, or one behind a pipe with a deadline) and *)
(* scripts/hosted_authority_transport.py (attempts, deadline, correlation),*)
(* with the validation of scripts/local_authority_bridge.py.  The          *)
(* authorities answer what they like, once per operation identity.         *)
(***************************************************************************)
EXTENDS Naturals, Sequences

CONSTANTS
    Tasks,
    Revisions,
    Transport,      \* authority |-> "local", "process" or "hosted"
    MaxAttempts,
    CallBudget,     \* bounds the calls of admit and accept_artifact
    None

Authorities == {"coordinator", "awq", "awg", "ui"}

\* What validate_exchange lets through, and what a gate goes on with.
Allowed == [coordinator |-> {"observed", "approved", "stale", "not_found"},
            awq |-> {"accepted", "rejected", "not_applicable"},
            awg |-> {"approved", "rejected", "requires_ui", "not_applicable"},
            ui |-> {"approved", "rejected", "cancelled", "expired"}]
Expected == [coordinator |-> {"observed"}, awq |-> {"accepted"},
             awg |-> {"approved", "requires_ui"}, ui |-> {"approved"}]

\* The transients stand for one; of the refusals of a gate one is enough.
Transient == "unknown"
Outcomes(a) == Expected[a] \cup {CHOOSE o \in Allowed[a] : o \notin Expected[a], Transient}

\* admit and accept_artifact.
Gates(purpose) ==
    IF purpose = "admit" THEN <<"coordinator", "awq", "awg", "ui">> ELSE <<"awq", "awg", "ui">>
Requests == [authority : Authorities, purpose : {"admit", "accept"}, task : Tasks, revision : Revisions]

\* The identity hashes the task and the name of the operation.
OperationId(request) == [authority |-> request.authority, purpose |-> request.purpose, task |-> request.task]

VARIABLES
    call,       \* the call in progress: [at, purpose, task, revision, gate, attempt, trace]
    calls,      \* how many calls were made
    memory,     \* operation identity |-> None or the response an endpoint repeats
    inbox,      \* authority |-> requests in the pipe to its process
    outbox,     \* authority |-> responses in the pipe from its process
    decided,    \* history: responses that an authority decided
    granted     \* history: [purpose, task, revision, trace] of the calls that returned

vars == <<call, calls, memory, inbox, outbox, decided, granted>>

NoCall == [at |-> "none", purpose |-> None, task |-> None, revision |-> None,
           gate |-> 0, attempt |-> 0, trace |-> <<>>]

Init ==
    /\ call = NoCall
    /\ calls = 0
    /\ memory = [id \in {OperationId(r) : r \in Requests} |-> None]
    /\ inbox = [a \in Authorities |-> <<>>]
    /\ outbox = [a \in Authorities |-> <<>>]
    /\ decided = {}
    /\ granted = {}

Asked == Gates(call.purpose)[call.gate]
Request == [authority |-> Asked, purpose |-> call.purpose, task |-> call.task, revision |-> call.revision]
Asking(kind) == call.at = "asking" /\ Transport[Asked] = kind

-----------------------------------------------------------------------------
(* The authorities: what was answered for good is repeated to its identity. *)

Response(request, outcome) == [request |-> request, outcome |-> outcome]
Answers(request) ==
    IF memory[OperationId(request)] # None
    THEN {memory[OperationId(request)]}
    ELSE {Response(request, o) : o \in Outcomes(request.authority)}

\* Mutated form of the next definition.
RememberNothing(request, response) ==
    /\ memory' = memory
    /\ decided' = IF response.outcome = Transient \/ response = memory[OperationId(request)]
                  THEN decided ELSE decided \cup {response}

Remember(request, response) ==
    /\ memory' = IF response.outcome = Transient
                 THEN memory ELSE [memory EXCEPT ![OperationId(request)] = response]
    /\ decided' = IF response.outcome = Transient \/ response = memory[OperationId(request)]
                  THEN decided ELSE decided \cup {response}

\* The process of an authority.
Serve(a) ==
    /\ inbox[a] # <<>>
    /\ \E response \in Answers(Head(inbox[a])) :
          /\ Remember(Head(inbox[a]), response)
          /\ outbox' = [outbox EXCEPT ![a] = Append(outbox[a], response)]
    /\ inbox' = [inbox EXCEPT ![a] = Tail(inbox[a])]
    /\ UNCHANGED <<call, calls, granted>>

-----------------------------------------------------------------------------
(* The client and the gates. *)

Begin(purpose, task, revision) ==
    /\ call.at = "none" /\ calls < CallBudget
    /\ call' = [at |-> "asking", purpose |-> purpose, task |-> task, revision |-> revision,
                gate |-> 1, attempt |-> 1, trace |-> <<>>]
    /\ calls' = calls + 1
    /\ UNCHANGED <<memory, inbox, outbox, decided, granted>>

Raise == call' = NoCall /\ UNCHANGED granted

\* Mutated form of the next definition.
CorrespondsByAuthority(response) == response.request.authority = Request.authority

\* Authority, task, revision, operation and the digest of the whole request.
Corresponds(response) == response.request = Request

\* Mutated form of the next definition.
GoesOnWithAny(response) == response.outcome \in Allowed[Asked]

GoesOn(response) == response.outcome \in Expected[Asked]

\* The observation is traced; the last gate returns.
Observe(response) ==
    LET trace == Append(call.trace, response) IN
    IF ~GoesOn(response) THEN Raise
    ELSE IF call.gate < Len(Gates(call.purpose))
    THEN /\ call' = [call EXCEPT !.at = "asking", !.gate = call.gate + 1, !.attempt = 1, !.trace = trace]
         /\ UNCHANGED granted
    ELSE /\ granted' = granted \cup {[purpose |-> call.purpose, task |-> call.task,
                                      revision |-> call.revision, trace |-> trace]}
         /\ call' = NoCall

Validate(response) ==
    IF Corresponds(response) /\ response.outcome \in Allowed[Asked] THEN Observe(response) ELSE Raise

\* Mutated form of the next definition.
RetryAfresh == call' = [call EXCEPT !.at = "asking"] /\ UNCHANGED granted

Retry == call' = [call EXCEPT !.at = "asking", !.attempt = call.attempt + 1] /\ UNCHANGED granted

\* Mutated form of the next definition.
JudgeOnceMore(response) ==
    IF response.outcome = Transient /\ call.attempt <= MaxAttempts THEN Retry ELSE Validate(response)

\* LocalAuthorityClient.exchange asks again after a transient outcome.
Judge(response) ==
    IF response.outcome = Transient /\ call.attempt < MaxAttempts THEN Retry ELSE Validate(response)

AskLocal ==
    /\ Asking("local")
    /\ \E response \in Answers(Request) : Remember(Request, response) /\ Judge(response)
    /\ UNCHANGED <<calls, inbox, outbox>>

Send ==
    /\ Asking("process")
    /\ inbox' = [inbox EXCEPT ![Asked] = Append(inbox[Asked], Request)]
    /\ call' = [call EXCEPT !.at = "waiting"]
    /\ UNCHANGED <<calls, memory, outbox, decided, granted>>
Receive ==
    /\ call.at = "waiting" /\ outbox[Asked] # <<>>
    /\ Judge(Head(outbox[Asked]))
    /\ outbox' = [outbox EXCEPT ![Asked] = Tail(outbox[Asked])]
    /\ UNCHANGED <<calls, memory, inbox, decided>>
\* What was sent stays in the pipe.
TimesOut ==
    /\ call.at = "waiting" /\ outbox[Asked] = <<>>
    /\ Raise
    /\ UNCHANGED <<calls, memory, inbox, outbox, decided>>

\* HostedAuthorityClient.exchange asks again when the transport failed before
\* the authority was asked, and only then.
TransportFails ==
    /\ Asking("hosted")
    /\ \/ call.attempt < MaxAttempts /\ Retry
       \/ Raise       \* not to be retried, no attempt left, or the deadline passed
    /\ UNCHANGED <<calls, memory, inbox, outbox, decided>>
AskHosted ==
    /\ Asking("hosted")
    /\ \E response \in Answers(Request) :
          /\ Remember(Request, response)
          /\ Validate(response) \/ Raise      \* Raise: the answer came after the deadline
    /\ UNCHANGED <<calls, inbox, outbox>>

Ask == AskLocal \/ Send \/ Receive \/ TimesOut \/ TransportFails \/ AskHosted

Next ==
    \/ \E purpose \in {"admit", "accept"}, t \in Tasks, r \in Revisions : Begin(purpose, t, r)
    \/ \E a \in Authorities : Serve(a)
    \/ Ask

\* The exchange of a caller is a loop that never waits without a deadline.
Spec == Init /\ [][Next]_vars /\ WF_vars(Ask)

-----------------------------------------------------------------------------
(* Properties. *)

TypeOK ==
    /\ call.at \in {"none", "asking", "waiting"}
    /\ call.at # "none" => call.gate \in DOMAIN Gates(call.purpose) /\ call.attempt \in 1..MaxAttempts
    /\ \A id \in DOMAIN memory : memory[id] # None =>
          OperationId(memory[id].request) = id /\ memory[id].outcome # Transient
    /\ \A a \in Authorities : \A i \in DOMAIN inbox[a] : inbox[a][i].authority = a
    /\ \A a \in Authorities : \A i \in DOMAIN outbox[a] : outbox[a][i].request.authority = a

\* Work is admitted, and an artifact accepted, only if each authority in turn said
\* so itself of this task at this revision - not in a late answer to an earlier
\* question, in an answer that was repeated to a revised task, or after a retry.
GrantedByEveryGate ==
    \A g \in granted :
        /\ Len(g.trace) = Len(Gates(g.purpose))
        /\ \A i \in DOMAIN g.trace :
              LET a == Gates(g.purpose)[i] IN
              \E d \in decided :
                  /\ d = g.trace[i] /\ d.outcome \in Expected[a]
                  /\ d.request = [authority |-> a, purpose |-> g.purpose, task |-> g.task, revision |-> g.revision]

\* However often a caller repeats an operation - after a transient answer, a
\* transport failure, a deadline that passed with the answer on its way - the
\* authority decides it once.
DecidedOnce ==
    \A d, e \in decided : OperationId(d.request) = OperationId(e.request) => d = e

\* A call returns or raises, whatever the authorities do.
CallsEnd == call.at # "none" ~> call.at = "none"

\* VIOLATED.  After one answer that came too late the pipe stays one answer behind
\* its caller: the endpoint's next question is met with the answer to the last.
PipesStayInStep ==
    call.at = "asking" /\ Transport[Asked] = "process" => outbox[Asked] = <<>> /\ inbox[Asked] = <<>>

\* VIOLATED.  A task that was decided on and then revised can be asked about
\* again: the identity of the operation has no revision, so the endpoint repeats
\* the answer to the earlier one, which is refused as stale, for ever.
RevisionsAreAnswered ==
    call.at # "none" /\ memory[OperationId(Request)] # None =>
        memory[OperationId(Request)].request.revision = call.revision
=============================================================================
