----------------------- MODULE CoordinatorClient -----------------------
(***************************************************************************)
(* CoordinatorClient and InProcessCoordinator                              *)
(* (scripts/coordinator_client.py): clients read the revision of a task    *)
(* and append events to it by compare-and-swap, over a transport that may  *)
(* refuse a request, lose it, answer nonsense, or lose the answer of a     *)
(* write it carried out.  The client repeats an exchange that surely had   *)
(* no effect, at most MaxAttempts times, and its caller gets a verdict.    *)
(*                                                                         *)
(* An exchange is one step: the Coordinator answers before it takes the    *)
(* next request, and what the client does with the answer touches nothing  *)
(* but the call.  Between two exchanges of a call other clients go on.     *)
(*                                                                         *)
(* The payload of a request stands for all that its fingerprint covers     *)
(* besides the operation, the identifier and the expected revision: the    *)
(* correlation identifier and, in a write, the kind and digest of the      *)
(* event.  The caller's own binding is the client.  All requests are well  *)
(* formed, the client builds them.                                         *)
(***************************************************************************)
EXTENDS Integers, Sequences

CONSTANTS
  Clients, OperationIds, Payloads,
  MaxAttempts,
  MaxCalls, MaxFaults   \* bounds on the calls made and the faults injected

BoundAssumption == MaxAttempts \in 1..3 /\ MaxCalls \in Nat /\ MaxFaults \in Nat

VARIABLES
  revision, events,   \* the task
  operations,         \* the requests that were answered, and how
  calls,              \* the call of each client, under way or over
  learnt, doubt,      \* the revisions a client was told; its last write with unknown outcome
  made, faults        \* counters of the bounds

vars == <<revision, events, operations, calls, learnt, doubt, made, faults>>

Revisions == 1..MaxCalls + 1
Requests  == [client : Clients, operation : {"read_revision", "write_event"},
              id : OperationIds, expected : Revisions, payload : Payloads]
Nothing   == [client |-> "nobody", operation |-> "none", id |-> 0, expected |-> 0, payload |-> 0]

NoResponse == [revision |-> 0, count |-> 0]
Idle == [request |-> Nothing, attempt |-> 0, verdict |-> "none", response |-> NoResponse]

---------------------------------------------------------------------------
(* The Coordinator: exchange.  An answer is what the transport hands to    *)
(* the client: a response, or the code of a rejection.                     *)

Retryable == {"unavailable", "deadline_exceeded", "timeout"}

Answer(code, response) == [code |-> code, response |-> response]
Rejected(code) == Answer(code, NoResponse)

\* Mutated form of IsKnown: nothing is remembered.
NeverKnown(id) == FALSE

IsKnown(id) == \E o \in operations : o.request.id = id

Current  == [revision |-> revision, count |-> Len(events)]
Advanced == [revision |-> revision + 1, count |-> Len(events) + 1]

Remember(req, response) == operations' = operations \cup {[request |-> req, response |-> response]}

\* Mutated form of Commit: the event is stored and the revision is not.
CommitEventOnly(req) ==
  /\ events' = Append(events, req)
  /\ Remember(req, [Advanced EXCEPT !.revision = revision])
  /\ UNCHANGED revision

(* _commit: it does not look at the expected revision.                     *)
Commit(req) ==
  /\ events' = Append(events, req)
  /\ revision' = revision + 1
  /\ Remember(req, Advanced)

---------------------------------------------------------------------------
(* The client: _call, _read_response and _write_response.                  *)

\* Mutated form of Verdict: an outcome that is not known is a refusal.
VerdictWithoutDoubt(code) == IF code = "accepted" THEN "success" ELSE "failed"

Verdict(code) ==
  IF code = "accepted" THEN "success"
  ELSE IF code = "ambiguous_outcome" THEN "unknown" ELSE "failed"

MayRepeat(call, code) == code \in Retryable /\ call.attempt < MaxAttempts

Handle(c, answer) ==
  LET call    == calls[c]
      verdict == Verdict(answer.code)
  IN  IF MayRepeat(call, answer.code)
      THEN /\ calls' = [calls EXCEPT ![c].attempt = @ + 1]
           /\ UNCHANGED <<learnt, doubt>>
      ELSE /\ calls' = [calls EXCEPT ![c].verdict = verdict, ![c].response = answer.response]
           /\ learnt' = IF verdict = "success"
                        THEN [learnt EXCEPT ![c] = @ \cup {answer.response.revision}] ELSE learnt
           /\ doubt' = IF verdict = "unknown" /\ call.request.operation = "write_event"
                       THEN [doubt EXCEPT ![c] = call.request] ELSE doubt

(* read_revision and write_event: a write quotes a revision the client was *)
(* told, a read may try any.                                               *)
Begin(c, req) ==
  /\ calls[c].verdict # "pending"
  /\ made < MaxCalls
  /\ req.client = c
  /\ req.operation = "write_event" => req.expected \in learnt[c]
  /\ calls' = [calls EXCEPT ![c] = [Idle EXCEPT !.request = req, !.attempt = 1, !.verdict = "pending"]]
  /\ made' = made + 1
  /\ UNCHANGED <<revision, events, operations, learnt, doubt, faults>>

---------------------------------------------------------------------------
(* One exchange of the call of c.                                          *)

Pending(c) == calls[c].verdict = "pending"
IsNew(c) == Pending(c) /\ ~IsKnown(calls[c].request.id)

(* A known identifier: the first answer again, to the same request only.   *)
Replay(c) ==
  /\ Pending(c)
  /\ \E o \in operations :
       /\ o.request.id = calls[c].request.id
       /\ Handle(c, IF o.request = calls[c].request THEN Answer("accepted", o.response)
                    ELSE Rejected("changed_replay"))
  /\ UNCHANGED <<revision, events, operations, made, faults>>

(* An injected fault strikes before the expected revision is compared; a   *)
(* write of unknown outcome is carried out all the same.                   *)
Fault(c) ==
  /\ IsNew(c)
  /\ faults < MaxFaults
  /\ faults' = faults + 1
  /\ \/ /\ \E code \in Retryable \cup {"malformed_response"} : Handle(c, Rejected(code))
        /\ UNCHANGED <<revision, events, operations>>
     \/ /\ Handle(c, Rejected("ambiguous_outcome"))
        /\ IF calls[c].request.operation = "write_event" THEN Commit(calls[c].request)
           ELSE UNCHANGED <<revision, events, operations>>
  /\ UNCHANGED made

Refuse(c) ==
  /\ IsNew(c)
  /\ calls[c].request.expected # revision
  /\ Handle(c, Rejected("stale_revision"))
  /\ UNCHANGED <<revision, events, operations, made, faults>>

Read(c) ==
  /\ IsNew(c)
  /\ calls[c].request.operation = "read_revision"
  /\ calls[c].request.expected = revision
  /\ Remember(calls[c].request, Current)
  /\ Handle(c, Answer("accepted", Current))
  /\ UNCHANGED <<revision, events, made, faults>>

Write(c) ==
  /\ IsNew(c)
  /\ calls[c].request.operation = "write_event"
  /\ calls[c].request.expected = revision
  /\ Commit(calls[c].request)
  /\ Handle(c, Answer("accepted", Advanced))
  /\ UNCHANGED <<made, faults>>

Init ==
  /\ revision = 1
  /\ events = <<>>
  /\ operations = {}
  /\ calls = [c \in Clients |-> Idle]
  /\ learnt = [c \in Clients |-> {1}]
  /\ doubt = [c \in Clients |-> Nothing]
  /\ made = 0
  /\ faults = 0

Next == \E c \in Clients :
  \/ \E req \in Requests : Begin(c, req)
  \/ Replay(c) \/ Fault(c) \/ Refuse(c) \/ Read(c) \/ Write(c)

Spec == Init /\ [][Next]_vars

---------------------------------------------------------------------------
(* Properties                                                              *)

Responses == [revision : Nat, count : Nat]
Verdicts  == {"none", "pending", "success", "unknown", "failed"}

(* Every variable keeps its type, and no call makes more attempts than it  *)
(* may.                                                                    *)
TypeOK ==
  /\ revision \in Nat /\ events \in Seq(Requests)
  /\ operations \subseteq [request : Requests, response : Responses]
  /\ calls \in [Clients -> [request : Requests \cup {Nothing}, attempt : 0..MaxAttempts,
                            verdict : Verdicts, response : Responses]]
  /\ learnt \in [Clients -> SUBSET Nat]
  /\ doubt \in [Clients -> Requests \cup {Nothing}]
  /\ made \in 0..MaxCalls /\ faults \in 0..MaxFaults

IsLogged(req) == \E i \in DOMAIN events : events[i] = req

(* An identifier is in the log once, whoever repeats its write and however *)
(* often its answer was lost (exchange looks for it first).                *)
AppliedOnce ==
  \A i, k \in DOMAIN events : events[i].id = events[k].id => i = k

(* What a call tells its caller is true of the task: a write that          *)
(* succeeded is the last event at the revision it was told, what was read  *)
(* is the revision and length of a beginning of the log, and a write that  *)
(* failed is not in the log (_call, _write_response, _read_response).      *)
VerdictsAreTrue ==
  \A c \in Clients : LET call == calls[c] IN
    /\ call.verdict = "success" =>
         /\ call.response.count <= Len(events)
         /\ call.response.revision = call.response.count + 1
         /\ call.request.operation = "write_event" => events[call.response.count] = call.request
    /\ call.verdict = "failed" => ~IsLogged(call.request)

(* Reading settles a doubt: when a client whose last write has an unknown  *)
(* outcome reads, under a new identifier, the revision that write had      *)
(* expected, the write was not carried out (docs/PROTOCOL.md, AR-0081: the *)
(* caller can reconcile by a subsequent revision read).                    *)
ReadsSettleDoubt ==
  [][\A c \in Clients :
       (/\ IsNew(c) /\ calls'[c].verdict = "success"
        /\ calls[c].request.operation = "read_revision"
        /\ calls'[c].response.revision = doubt[c].expected)
       => ~IsLogged(doubt[c])]_vars

(* VIOLATED, by a write of unknown outcome.  Every event was written on    *)
(* top of the revision its writer expected (docs/PROTOCOL.md, AR-0081: a   *)
(* compare-and-swap that accepts only the exact expected revision).        *)
WritesAreCompareAndSwap ==
  \A i \in DOMAIN events : events[i].expected = i
===========================================================================
