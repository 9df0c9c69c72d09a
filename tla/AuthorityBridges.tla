------------------------ MODULE AuthorityBridges ------------------------
(***************************************************************************)
(* AuthorityBridge and LocalAuthorityFake (scripts/authority_bridges.py):  *)
(* the runtime submits evidence to the quality authority (awq), a          *)
(* discussion to the guidance authority (awg) and a question to the human  *)
(* gate (ui), observes what became of it, repeats what timed out, and      *)
(* lets a change through when guidance routed it to the human gate and the *)
(* human approved.                                                         *)
(*                                                                         *)
(* Several bridges share the authorities: sessions of their own, or one    *)
(* session whose process was started again, which has the old binding and  *)
(* no memory.  An operation is submitted to one authority, a constant.  Of *)
(* the attempts of an operation only their number and the last one decide  *)
(* anything; how often it was resumed decides nothing and is left out, and *)
(* "timeout" stands for "unknown", which is treated alike everywhere.      *)
(***************************************************************************)
EXTENDS Integers, FiniteSets

CONSTANTS
  Bridges,
  Sessions,                \* the ways the bridges are bound to sessions
  Operations, Authority,   \* the operation ids, and the authority of each
  Payloads, Budgets,       \* what is submitted; values of max_attempts
  UserChanges,             \* the payloads of a kind that needs the human gate
  MaxRequests              \* bound on the requests of the bridges

Outcomes == [awq |-> {"accepted", "rejected", "timeout"},
             awg |-> {"approved", "requires_ui", "rejected", "timeout"},
             ui  |-> {"approved", "rejected", "timeout"}]

Undecided == {"timeout"}
Decisions == {"accepted", "approved", "requires_ui", "rejected"}

ASSUME AuthorityAssumption == /\ \A o \in Operations : Authority[o] \in DOMAIN Outcomes
                              /\ Budgets \subseteq 1..5 /\ UserChanges \subseteq Payloads

VARIABLES
  pending, completed, lastObserved,   \* the authorities, by operation
  binding,                            \* what each bridge was made for
  ops,                                \* the operations of each bridge
  authorized                          \* the changes let through

authorities == <<pending, completed, lastObserved>>
vars        == <<pending, completed, lastObserved, binding, ops, authorized>>

NoRequest == [binding |-> "none", payload |-> 0, budget |-> 0]
NoResult  == [status |-> "none", attempt |-> 0, request |-> NoRequest]
Absent    == [status |-> "absent", payload |-> 0, budget |-> 0, count |-> 0, last |-> NoResult]

(* _result: the request stands for its binding's digest and, at the        *)
(* authority, for its fingerprint.                                         *)
Result(status, attempt, request) == [status |-> status, attempt |-> attempt, request |-> request]

(* What the bridge is shown: the binding, not the rest of the fingerprint. *)
Seen(result) == [result EXCEPT !.request = [NoRequest EXCEPT !.binding = result.request.binding]]

---------------------------------------------------------------------------
(* LocalAuthorityFake.                                                     *)

\* Mutated form of Complete: a time-out is final, too.
CompleteAlways(o, result) ==
  /\ completed' = [completed EXCEPT ![o] = result]
  /\ UNCHANGED lastObserved

(* _complete: an outcome that settles nothing is remembered apart.         *)
Complete(o, result) ==
  IF result.status \in Undecided
  THEN lastObserved' = [lastObserved EXCEPT ![o] = result] /\ UNCHANGED completed
  ELSE completed' = [completed EXCEPT ![o] = result] /\ UNCHANGED lastObserved

Knows(o)  == completed[o] # NoResult
Awaits(o) == pending[o] # NoResult

(* request raises: the identifier belongs to another request, or the       *)
(* outcome is none of the authority's.                                     *)
Raises(o, request) ==
  \/ Knows(o) /\ completed[o].request # request
  \/ ~Knows(o) /\ Awaits(o) /\ pending[o].request # request
  \/ ~Knows(o) /\ ~Awaits(o)

Answer(o, request, attempt, result) ==
  \/ /\ Knows(o) /\ completed[o].request = request
     /\ result = completed[o]
     /\ UNCHANGED authorities
  \/ /\ ~Knows(o) /\ Awaits(o) /\ pending[o].request = request
     /\ result = pending[o]
     /\ UNCHANGED authorities
  \/ /\ ~Knows(o) /\ ~Awaits(o)
     /\ result = Result("pending", attempt, request)
     /\ pending' = [pending EXCEPT ![o] = result]
     /\ UNCHANGED <<completed, lastObserved>>
  \/ /\ ~Knows(o) /\ ~Awaits(o)
     /\ result \in {Result(s, attempt, request) : s \in Outcomes[Authority[o]]}
     /\ Complete(o, result)
     /\ UNCHANGED pending

(* respond: the authority settles what it had put off.                     *)
Respond(o) ==
  /\ Awaits(o)
  /\ \E s \in Outcomes[Authority[o]] : Complete(o, [pending[o] EXCEPT !.status = s])
  /\ pending' = [pending EXCEPT ![o] = NoResult]
  /\ UNCHANGED <<binding, ops, authorized>>

\* Mutated form of Observation: the last time-out before the decision.
ObservationOfTimeouts(o) ==
  IF lastObserved[o] # NoResult THEN lastObserved[o]
  ELSE IF Knows(o) THEN completed[o] ELSE pending[o]

(* observe: the decision, else the last outcome that settled nothing, even *)
(* when a later attempt is pending.                                        *)
Observation(o) ==
  IF Knows(o) THEN completed[o]
  ELSE IF lastObserved[o] # NoResult THEN lastObserved[o] ELSE pending[o]

---------------------------------------------------------------------------
(* AuthorityBridge.                                                        *)

RequestOf(b, op) == [binding |-> binding[b], payload |-> op.payload, budget |-> op.budget]

\* Mutated form of the next definition.
ReceivedUnlessBlocked(op, result) ==
  [op EXCEPT !.count = @ + 1, !.last = Seen(result), !.status = IF @ = "blocked" THEN @ ELSE result.status]

Received(op, result) ==
  [op EXCEPT !.count = @ + 1, !.last = Seen(result), !.status = result.status]

(* _send: what raises leaves the operation as it is, sent or not.          *)
Send(b, o, op) ==
  \/ /\ Raises(o, RequestOf(b, op))
     /\ ops' = [ops EXCEPT ![b][o] = op]
     /\ UNCHANGED authorities
  \/ \E result \in [status : {"pending"} \cup Outcomes[Authority[o]], attempt : 1..op.count + 1,
                    request : {RequestOf(b, op)}] \cup {completed[o], pending[o]} :
       /\ Answer(o, RequestOf(b, op), op.count + 1, result)
       /\ ops' = [ops EXCEPT ![b][o] = Received(op, result)]

(* request, of an operation the bridge does not know; of one it knows,     *)
(* request returns a view or raises, and changes nothing.                  *)
Request(b, o, payload, budget) ==
  /\ ops[b][o].status = "absent"
  /\ Cardinality({x \in Bridges \X Operations : ops[x[1]][x[2]].status # "absent"}) < MaxRequests
  /\ Send(b, o, [status |-> "new", payload |-> payload, budget |-> budget, count |-> 0, last |-> NoResult])
  /\ UNCHANGED <<binding, authorized>>

(* observe and resume.                                                     *)
Observe(b, o) ==
  LET op  == ops[b][o]
      new == Observation(o)
  IN  /\ op.status # "absent"
      /\ new # NoResult
      /\ new.request.binding = binding[b]
      /\ ops' = [ops EXCEPT ![b][o] = IF op.last = Seen(new) THEN [op EXCEPT !.status = new.status]
                                      ELSE Received(op, new)]
      /\ UNCHANGED <<pending, completed, lastObserved, binding, authorized>>

(* retry: every attempt counts, the observed ones with those sent.         *)
Retry(b, o) ==
  /\ ops[b][o].status \in Undecided
  /\ IF ops[b][o].count >= ops[b][o].budget
     THEN /\ ops' = [ops EXCEPT ![b][o].status = "blocked"]
          /\ UNCHANGED authorities
     ELSE Send(b, o, ops[b][o])
  /\ UNCHANGED <<binding, authorized>>

\* Mutated form of MayFinalize: the human gate need only have been asked.
MayFinalizeUnapproved(b, awg, ui) ==
  /\ ops[b][awg].status = "requires_ui" /\ ops[b][awg].payload \in UserChanges
  /\ Authority[ui] = "ui" /\ ops[b][ui].status \in {"approved", "pending"}

MayFinalize(b, awg, ui) ==
  /\ Authority[awg] = "awg" /\ Authority[ui] = "ui"
  /\ ops[b][awg].payload \in UserChanges
  /\ ops[b][awg].status = "requires_ui"
  /\ ops[b][ui].status = "approved"

(* finalize_change: what it returns is what the caller acts on.            *)
FinalizeChange(b, awg, ui) ==
  /\ MayFinalize(b, awg, ui)
  /\ authorized' = authorized \cup {[bridge |-> b, awg |-> awg, ui |-> ui]}
  /\ UNCHANGED <<pending, completed, lastObserved, binding, ops>>

Init ==
  /\ pending = [o \in Operations |-> NoResult]
  /\ completed = [o \in Operations |-> NoResult]
  /\ lastObserved = [o \in Operations |-> NoResult]
  /\ binding \in Sessions
  /\ ops = [b \in Bridges |-> [o \in Operations |-> Absent]]
  /\ authorized = {}

Next ==
  \/ \E o \in Operations : Respond(o)
  \/ \E b \in Bridges, o \in Operations :
       \/ \E payload \in Payloads, budget \in Budgets : Request(b, o, payload, budget)
       \/ Observe(b, o)
       \/ Retry(b, o)
       \/ \E ui \in Operations : FinalizeChange(b, o, ui)

Spec == Init /\ [][Next]_vars

---------------------------------------------------------------------------
(* validate_record, of a document with the bridge's view of an operation:  *)
(* its outcome, and the trace of its attempts, of which the last is known. *)

Attempted(op) == op.status \notin {"absent", "new"}

ValidOutcome(op) ==
  \/ op.status = op.last.status
  \/ op.status = "blocked" /\ op.last.status \in Undecided

ValidTrace(op) ==
  /\ op.count \in 1..op.budget
  /\ op.last.attempt = op.count

(* The change control of the document: the status it must show, and the    *)
(* operations it must name, both about the change.                         *)
ChangeStatus(b, awg, ui) ==
  IF ops[b][awg].status = "requires_ui" /\ ops[b][ui].status = "approved" THEN "authorized" ELSE "blocked"

ValidChange(b, awg, ui) ==
  /\ Authority[awg] = "awg" /\ Authority[ui] = "ui"
  /\ {ops[b][awg].payload, ops[b][ui].payload} \subseteq UserChanges

---------------------------------------------------------------------------
(* Properties                                                              *)

Statuses == {"pending"} \cup Undecided \cup Decisions
Bindings == {"none"} \cup UNION {{f[b] : b \in Bridges} : f \in Sessions}
Requests == [binding : Bindings, payload : Payloads \cup {0}, budget : Budgets \cup {0}]
Results  == [status : Statuses \cup {"none"}, attempt : Nat, request : Requests]
Copies   == [status : Statuses \cup {"absent", "new", "blocked"}, payload : Payloads \cup {0},
             budget : Budgets \cup {0}, count : Nat, last : Results]

(* Every variable keeps its type, an operation is not both pending and     *)
(* decided, and what is remembered as decided is a decision.               *)
TypeOK ==
  /\ \A f \in {pending, completed, lastObserved} : f \in [Operations -> Results]
  /\ \A o \in Operations :
       /\ Knows(o) => ~Awaits(o) /\ completed[o].status \in Decisions
       /\ Awaits(o) => pending[o].status = "pending"
  /\ binding \in Sessions
  /\ ops \in [Bridges -> [Operations -> Copies]]
  /\ authorized \subseteq [bridge : Bridges, awg : Operations, ui : Operations]

(* A change is let through only if the guidance authority itself routed it *)
(* to the human gate and the human gate itself approved, both for the      *)
(* binding of the bridge (finalize_change reads only the bridge's copies,  *)
(* taken at any time before).                                              *)
AuthorizedByBoth ==
  \A a \in authorized :
    /\ completed[a.awg].status = "requires_ui"
    /\ completed[a.ui].status = "approved"
    /\ \A o \in {a.awg, a.ui} : completed[o].request.binding = binding[a.bridge]

(* A decision is final: neither the authority nor a bridge that has learnt *)
(* it goes back on it, whatever attempts, time-outs and observations come  *)
(* late (request, observe, retry; _complete).                              *)
DecisionsAreFinal ==
  [][\A o \in Operations :
       /\ Knows(o) => completed'[o] = completed[o]
       /\ \A b \in Bridges : ops[b][o].status \in Decisions =>
            /\ ops'[b][o].status = ops[b][o].status
            /\ completed[o].status = ops[b][o].status]_vars

(* Whatever was repeated, blocked and observed late, the outcome a bridge  *)
(* shows is one its last attempt bears out, and of its own binding; and a  *)
(* change it authorized stays authorized in every document made later.     *)
OutcomesValidate ==
  /\ \A b \in Bridges, o \in Operations :
       LET op == ops[b][o] IN Attempted(op) => ValidOutcome(op) /\ op.last.request.binding = binding[b]
  /\ \A a \in authorized : ChangeStatus(a.bridge, a.awg, a.ui) = "authorized"

(* What the bridge keeps, whatever came late: changes are let through by   *)
(* both authorities, and its documents say what its attempts bear out.     *)
ChangesAreAuthorized == TypeOK /\ AuthorizedByBoth /\ OutcomesValidate

(* VIOLATED. The document of an authorized change validates: it wants both *)
(* operations to be about the change, finalize_change only the guidance.   *)
AuthorizedChangesValidate ==
  \A a \in authorized : ValidChange(a.bridge, a.awg, a.ui)

(* VIOLATED. The document of a bridge validates: a deferred answer that is *)
(* observed later comes as a second attempt with the number of the first,  *)
(* and an observation may exceed the budget.                               *)
TracesValidate ==
  \A b \in Bridges, o \in Operations : Attempted(ops[b][o]) => ValidTrace(ops[b][o])

(* VIOLATED. The decision an operation carries is about what that          *)
(* operation submitted (specifications/authority-bridges-v1.json: resume   *)
(* preserves the original binding and operation fingerprint; replayed      *)
(* outcomes fail closed).                                                  *)
DecisionsAnswerTheRequest ==
  \A b \in Bridges, o \in Operations :
    ops[b][o].status \in Decisions => completed[o].request = RequestOf(b, ops[b][o])
===========================================================================
