-------------------------- MODULE AuthorityProofs --------------------------
(***************************************************************************)
(* Machine-checked proofs about what decides over a worker's proposals:    *)
(*   the bridges     what is let through was let through by both           *)
(*                   authorities, and no decision is taken back;           *)
(*   the model       a job is completed on an acceptance, and what is the  *)
(*                   user's to decide guidance does not take;              *)
(*   the gates       an accepted record rests on an input;                 *)
(*   the loops       a result passes the check against its journal.        *)
(* They hold for any bridges, sessions, operations, loops, proposals and   *)
(* bounds.                                                                 *)
(*                                                                         *)
(* IInv says what has to hold of a bridge's copy, taken at any time, to be *)
(* as good as asking again: a decision it shows is the authority's         *)
(* (TrueOf), and the authority never changes one (KnownStay).  JobInv,     *)
(* RecordInv and LoopInv are the invariants of the other three; LoopInv's  *)
(* core is that a line of the file has the line it chains to before it,    *)
(* and that the last entry of a loop ends with what its run decided.       *)
(***************************************************************************)
EXTENDS MCAuthority, Sequences, SequenceTheorems, FiniteSetTheorems, NaturalsInduction, WellFoundedInduction, TLAPS

(* The words and the shapes.                                               *)
LEMMA OutcomesAre ==
  ASSUME NEW o \in Operations
  PROVE  Outcomes[Authority[o]] \subseteq Decisions \cup Undecided
<1>1. Authority[o] \in {"awq", "awg", "ui"}
  BY AuthorityAssumption DEF Outcomes
<1>2. QED
  BY <1>1 DEF Outcomes, Decisions, Undecided

LEMMA ResultIs ==
  ASSUME NEW s \in Statuses \cup {"none"}, NEW n \in Nat, NEW r \in Requests
  PROVE  /\ Result(s, n, r) \in Results
         /\ Result(s, n, r).status = s /\ Result(s, n, r).request = r
BY DEF Result, Results

LEMMA NoneIs ==
  /\ NoRequest \in Requests /\ NoResult \in Results /\ NoResult.status = "none"
  /\ Absent.status = "absent" /\ Absent.count = 0 /\ Absent.last = NoResult
<1>1. NoRequest \in Requests
  <2>1. "none" \in Bindings
    BY DEF Bindings
  <2>2. QED
    BY <2>1 DEF NoRequest, Requests
<1>2. NoResult \in Results
  BY <1>1 DEF NoResult, Results
<1>3. NoResult.status = "none" /\ NoResult.request = NoRequest
  BY DEF NoResult
<1>4. Absent.status = "absent" /\ Absent.count = 0 /\ Absent.last = NoResult
  BY DEF Absent
<1>5. QED
  BY <1>1, <1>2, <1>3, <1>4

LEMMA SeenIs ==
  ASSUME NEW r \in Results
  PROVE  /\ Seen(r) \in Results /\ Seen(r).status = r.status
         /\ Seen(r).request.binding = r.request.binding
<1> DEFINE q == [NoRequest EXCEPT !.binding = r.request.binding]
<1>1. q \in Requests /\ q.binding = r.request.binding
  BY DEF NoRequest, Requests, Results
<1>2. Seen(r) = [r EXCEPT !.request = q]
  BY DEF Seen
<1>3. QED
  BY <1>1, <1>2 DEF Results
---------------------------------------------------------------------------
(* What holds of the authorities: an operation is undecided, put off or    *)
(* decided, and what settles nothing is kept apart.                        *)
AuthoritiesOK ==
  /\ pending \in [Operations -> Results]
  /\ completed \in [Operations -> Results]
  /\ lastObserved \in [Operations -> Results]
  /\ \A o \in Operations :
       /\ Knows(o) => ~Awaits(o) /\ completed[o].status \in Decisions
       /\ Awaits(o) => pending[o].status = "pending"
       /\ lastObserved[o] # NoResult => lastObserved[o].status \in Undecided

(* A decision, once made, is never changed.                                *)
KnownStay == \A o \in Operations : Knows(o) => completed'[o] = completed[o]

LEMMA CompleteKeeps ==
  ASSUME AuthoritiesOK, NEW o \in Operations, ~Knows(o),
         NEW result \in Results, result.status \in Decisions \cup Undecided, Complete(o, result),
         \/ pending' = pending /\ ~Awaits(o)
         \/ pending' = [pending EXCEPT ![o] = NoResult]
  PROVE  /\ AuthoritiesOK' /\ KnownStay
         /\ result.status \in Decisions => completed'[o] = result
<1>1. result # NoResult
  BY NoneIs DEF Decisions, Undecided
<1>2. /\ pending' \in [Operations -> Results] /\ pending'[o] = NoResult
      /\ \A p \in Operations : p # o => pending'[p] = pending[p]
  BY NoneIs DEF AuthoritiesOK, Awaits
<1>3. CASE result.status \in Undecided
  <2>1. lastObserved' = [lastObserved EXCEPT ![o] = result] /\ completed' = completed
    BY <1>3 DEF Complete
  <2>2. result.status \notin Decisions
    BY <1>3 DEF Decisions, Undecided
  <2>3. QED
    BY <1>2, <1>3, <2>1, <2>2 DEF AuthoritiesOK, KnownStay, Knows, Awaits
<1>4. CASE result.status \notin Undecided
  <2>1. completed' = [completed EXCEPT ![o] = result] /\ lastObserved' = lastObserved
    BY <1>4 DEF Complete
  <2>2. QED
    BY <1>1, <1>2, <1>4, <2>1 DEF AuthoritiesOK, KnownStay, Knows, Awaits
<1>5. QED
  BY <1>3, <1>4

(* What a request is answered: with what is known or put off of that very  *)
(* request, or with what is decided now.                                   *)
LEMMA AnswerKeeps ==
  ASSUME AuthoritiesOK, NEW o \in Operations, NEW r \in Requests, NEW n \in Nat,
         NEW result, Answer(o, r, n, result)
  PROVE  /\ AuthoritiesOK' /\ KnownStay
         /\ result \in Results /\ result.status \in Statuses /\ result.request = r
         /\ result.status \in Decisions => completed'[o] = result
<1>1. CASE Knows(o)
  BY <1>1 DEF Answer, authorities, AuthoritiesOK, KnownStay, Knows, Awaits, Statuses
<1>2. CASE ~Knows(o) /\ Awaits(o)
  <2>1. /\ result = pending[o] /\ pending[o].request = r
        /\ pending' = pending /\ completed' = completed /\ lastObserved' = lastObserved
    BY <1>2 DEF Answer, authorities
  <2>2. result \in Results /\ result.status = "pending"
    BY <1>2, <2>1 DEF AuthoritiesOK
  <2>3. AuthoritiesOK' /\ KnownStay
    BY <2>1 DEF AuthoritiesOK, KnownStay, Knows, Awaits
  <2>4. QED
    BY <2>1, <2>2, <2>3 DEF Statuses, Decisions
<1>3. CASE ~Knows(o) /\ ~Awaits(o)
  <2>1. CASE /\ result = Result("pending", n, r) /\ pending' = [pending EXCEPT ![o] = result]
             /\ UNCHANGED <<completed, lastObserved>>
    <3>1. result \in Results /\ result.status = "pending" /\ result.request = r
      BY <2>1, ResultIs DEF Statuses
    <3>2. QED
      BY <1>3, <2>1, <3>1, NoneIs DEF AuthoritiesOK, KnownStay, Knows, Awaits, Statuses, Decisions
  <2>2. CASE /\ result \in {Result(s, n, r) : s \in Outcomes[Authority[o]]}
             /\ Complete(o, result) /\ UNCHANGED pending
    <3>1. PICK s \in Decisions \cup Undecided : result = Result(s, n, r)
      BY <2>2, OutcomesAre
    <3>2. s \in Statuses
      BY DEF Statuses
    <3>3. result \in Results /\ result.status = s /\ result.request = r
      BY <3>1, <3>2, ResultIs
    <3>4. QED
      BY <1>3, <2>2, <3>2, <3>3, CompleteKeeps
  <2>3. QED
    BY <1>3, <2>1, <2>2 DEF Answer
<1>4. QED
  BY <1>1, <1>2, <1>3

(* The authority settles what it put off.                                  *)
LEMMA RespondKeeps ==
  ASSUME AuthoritiesOK, NEW o \in Operations, Respond(o)
  PROVE  AuthoritiesOK' /\ KnownStay
<1>1. ~Knows(o) /\ pending[o] \in Results
  BY DEF Respond, AuthoritiesOK
<1>2. PICK s \in Decisions \cup Undecided : Complete(o, [pending[o] EXCEPT !.status = s])
  BY OutcomesAre DEF Respond
<1>3. /\ [pending[o] EXCEPT !.status = s] \in Results
      /\ [pending[o] EXCEPT !.status = s].status = s
  BY <1>1 DEF Results, Statuses
<1>4. QED
  BY <1>1, <1>2, <1>3, CompleteKeeps DEF Respond

---------------------------------------------------------------------------
(* What holds of a bridge's copy of an operation: a decision it shows is   *)
(* the authority's, and the outcome follows from the last attempt, both    *)
(* for the bridge's binding.                                               *)
TrueOf(op, decided, bound) ==
  /\ op.status \in Decisions => decided.status = op.status /\ decided.request.binding = bound
  /\ Attempted(op) => ValidOutcome(op) /\ op.last.request.binding = bound

IInv ==
  /\ AuthoritiesOK
  /\ binding \in Sessions /\ ops \in [Bridges -> [Operations -> Copies]]
  /\ \A b \in Bridges, o \in Operations : TrueOf(ops[b][o], completed[o], binding[b])
  /\ authorized \subseteq [bridge : Bridges, awg : Operations, ui : Operations]
  /\ \A a \in authorized : /\ ops[a.bridge][a.awg].status = "requires_ui"
                           /\ ops[a.bridge][a.ui].status = "approved"

(* A bridge that has learnt a decision stays with it.                      *)
LearntStay == \A b \in Bridges, o \in Operations :
                ops[b][o].status \in Decisions => ops'[b][o].status = ops[b][o].status

(* What is authorized stays true when decisions stay.                      *)
LEMMA CopyKeeps ==
  ASSUME IInv, AuthoritiesOK', KnownStay, UNCHANGED <<binding, authorized>>,
         NEW b \in Bridges, NEW o \in Operations, NEW op \in Copies,
         ops' = [ops EXCEPT ![b][o] = op], TrueOf(op, completed'[o], binding[b]),
         ops[b][o].status \in Decisions => op.status = ops[b][o].status
  PROVE  IInv' /\ LearntStay
<1>1. /\ ops' \in [Bridges -> [Operations -> Copies]] /\ ops'[b][o] = op
      /\ \A c \in Bridges, p \in Operations : c # b \/ p # o => ops'[c][p] = ops[c][p]
  BY DEF IInv
<1>2. LearntStay
  BY <1>1 DEF LearntStay
<1>3. ASSUME NEW c \in Bridges, NEW p \in Operations
      PROVE  TrueOf(ops'[c][p], completed'[p], binding'[c])
  <2>1. CASE c = b /\ p = o
    BY <1>1, <2>1
  <2>2. CASE c # b \/ p # o
    <3>1. ops'[c][p] = ops[c][p] /\ TrueOf(ops[c][p], completed[p], binding[c])
      BY <1>1, <2>2 DEF IInv
    <3>2. ops[c][p].status \in Decisions => completed'[p] = completed[p]
      BY <3>1, NoneIs DEF TrueOf, KnownStay, Knows, Decisions
    <3>3. QED
      BY <3>1, <3>2 DEF TrueOf
  <2>3. QED
    BY <2>1, <2>2
<1>4. \A a \in authorized' : /\ ops'[a.bridge][a.awg].status = "requires_ui"
                             /\ ops'[a.bridge][a.ui].status = "approved"
  <2> SUFFICES ASSUME NEW a \in authorized
               PROVE  /\ ops'[a.bridge][a.awg].status = "requires_ui"
                      /\ ops'[a.bridge][a.ui].status = "approved"
    OBVIOUS
  <2>1. a.bridge \in Bridges /\ a.awg \in Operations /\ a.ui \in Operations
    BY DEF IInv
  <2>2. QED
    BY <1>2, <2>1 DEF IInv, LearntStay, Decisions
<1>5. QED
  BY <1>1, <1>2, <1>3, <1>4 DEF IInv

(* What is received is what the last attempt says.                         *)
LEMMA ReceivedIs ==
  ASSUME NEW op \in Copies, NEW r \in Results, r.status \in Statuses
  PROVE  /\ Received(op, r) \in Copies
         /\ Received(op, r).status = r.status
         /\ ValidOutcome(Received(op, r))
         /\ Received(op, r).last.request.binding = r.request.binding
<1>1. /\ Seen(r) \in Results /\ Seen(r).status = r.status
      /\ Seen(r).request.binding = r.request.binding
  BY SeenIs
<1>2. /\ Received(op, r) = [op EXCEPT !.count = op.count + 1, !.last = Seen(r), !.status = r.status]
      /\ op.count + 1 \in Nat
  BY DEF Received, Copies
<1>3. /\ Received(op, r).status = r.status /\ Received(op, r).last = Seen(r)
  BY <1>2 DEF Copies
<1>4. Received(op, r) \in Copies
  <2>1. [op EXCEPT !.count = op.count + 1] \in Copies
    BY <1>2 DEF Copies
  <2>2. [[op EXCEPT !.count = op.count + 1] EXCEPT !.last = Seen(r)] \in Copies
    BY <1>1, <2>1 DEF Copies
  <2>3. Received(op, r) = [[[op EXCEPT !.count = op.count + 1] EXCEPT !.last = Seen(r)]
                            EXCEPT !.status = r.status]
    BY <1>2
  <2>4. QED
    BY <2>2, <2>3 DEF Copies
<1>5. QED
  BY <1>1, <1>3, <1>4 DEF ValidOutcome

(* A request is sent: what comes back is of the request's binding.         *)
LEMMA SendKeeps ==
  ASSUME IInv, UNCHANGED <<binding, authorized>>,
         NEW b \in Bridges, NEW o \in Operations, NEW op \in Copies,
         TrueOf(op, completed[o], binding[b]), op.status \notin Decisions,
         ops[b][o].status \notin Decisions, Send(b, o, op)
  PROVE  IInv' /\ LearntStay /\ KnownStay
<1>1. RequestOf(b, op) \in Requests /\ RequestOf(b, op).binding = binding[b]
  <2>1. binding[b] \in Bindings
    <3>1. binding \in Sessions /\ binding[b] \in {binding[c] : c \in Bridges}
      BY DEF IInv
    <3>2. QED
      BY <3>1 DEF Bindings
  <2>2. QED
    BY <2>1 DEF RequestOf, Requests, Copies
<1>2. CASE ops' = [ops EXCEPT ![b][o] = op] /\ UNCHANGED authorities
  <2>1. AuthoritiesOK' /\ KnownStay /\ completed' = completed
    BY <1>2 DEF IInv, AuthoritiesOK, KnownStay, authorities, Knows, Awaits
  <2>2. QED
    BY <1>2, <2>1, CopyKeeps
<1>3. ASSUME NEW r, Answer(o, RequestOf(b, op), op.count + 1, r),
             ops' = [ops EXCEPT ![b][o] = Received(op, r)]
      PROVE  IInv' /\ LearntStay /\ KnownStay
  <2>1. op.count + 1 \in Nat
    BY DEF Copies
  <2>2. /\ AuthoritiesOK' /\ KnownStay
        /\ r \in Results /\ r.status \in Statuses /\ r.request = RequestOf(b, op)
        /\ r.status \in Decisions => completed'[o] = r
    BY <1>1, <1>3, <2>1, AnswerKeeps DEF IInv
  <2>3. /\ Received(op, r) \in Copies /\ Received(op, r).status = r.status
        /\ ValidOutcome(Received(op, r))
        /\ Received(op, r).last.request.binding = binding[b]
    BY <1>1, <2>2, ReceivedIs
  <2>4. TrueOf(Received(op, r), completed'[o], binding[b])
    BY <1>1, <2>2, <2>3 DEF TrueOf
  <2>5. QED
    BY <1>3, <2>2, <2>3, <2>4, CopyKeeps
<1>4. QED
  BY <1>2, <1>3 DEF Send

LEMMA RequestKeeps ==
  ASSUME IInv, NEW b \in Bridges, NEW o \in Operations,
         NEW payload \in Payloads, NEW budget \in Budgets, Request(b, o, payload, budget)
  PROVE  IInv' /\ LearntStay /\ KnownStay
<1> DEFINE op == [status |-> "new", payload |-> payload, budget |-> budget, count |-> 0, last |-> NoResult]
<1>2. op \in Copies /\ op.status = "new"
  <2>1. payload \in Payloads \cup {0} /\ budget \in Budgets \cup {0} /\ NoResult \in Results
    BY NoneIs
  <2>2. QED
    BY <2>1 DEF Copies
<1> HIDE DEF op
<1>3. TrueOf(op, completed[o], binding[b]) /\ op.status \notin Decisions
  BY <1>2 DEF TrueOf, Attempted, Decisions
<1>4. /\ Send(b, o, op) /\ ops[b][o].status \notin Decisions
      /\ UNCHANGED <<binding, authorized>>
  BY DEF Request, Decisions, op
<1>5. QED
  BY <1>2, <1>3, <1>4, SendKeeps

LEMMA RetryKeeps ==
  ASSUME IInv, NEW b \in Bridges, NEW o \in Operations, Retry(b, o)
  PROVE  IInv' /\ LearntStay /\ KnownStay
<1>1. /\ ops[b][o] \in Copies /\ ops[b][o].status = "timeout"
      /\ TrueOf(ops[b][o], completed[o], binding[b]) /\ ops[b][o].status \notin Decisions
      /\ UNCHANGED <<binding, authorized>>
  BY DEF Retry, IInv, Undecided, Decisions
<1>2. CASE Send(b, o, ops[b][o])
  BY <1>1, <1>2, SendKeeps
<1>3. CASE ops' = [ops EXCEPT ![b][o].status = "blocked"] /\ UNCHANGED authorities
  <2> DEFINE op == [ops[b][o] EXCEPT !.status = "blocked"]
  <2>1. ops' = [ops EXCEPT ![b][o] = op]
    BY <1>3
  <2>2. op \in Copies /\ op.status = "blocked" /\ op.last = ops[b][o].last
    BY <1>1 DEF Copies
  <2>3. ops[b][o].last.status \in Undecided /\ ops[b][o].last.request.binding = binding[b]
    BY <1>1 DEF TrueOf, Attempted, ValidOutcome, Undecided
  <2>4. TrueOf(op, completed'[o], binding[b])
    BY <2>2, <2>3 DEF TrueOf, ValidOutcome, Decisions
  <2>5. AuthoritiesOK' /\ KnownStay
    BY <1>3 DEF IInv, AuthoritiesOK, KnownStay, authorities, Knows, Awaits
  <2> HIDE DEF op
  <2>6. QED
    BY <1>1, <2>1, <2>2, <2>4, <2>5, CopyKeeps
<1>4. QED
  BY <1>2, <1>3 DEF Retry

(* What is observed of a decided operation is the decision.                *)
LEMMA ObservationIs ==
  ASSUME AuthoritiesOK, NEW o \in Operations, Observation(o) # NoResult
  PROVE  /\ Observation(o) \in Results /\ Observation(o).status \in Statuses
         /\ Observation(o).status \in Decisions => Observation(o) = completed[o]
         /\ Knows(o) => Observation(o) = completed[o]
<1>1. CASE Knows(o)
  BY <1>1 DEF Observation, AuthoritiesOK, Statuses
<1>2. CASE ~Knows(o)
  BY <1>2 DEF Observation, AuthoritiesOK, Statuses, Awaits, Decisions, Undecided
<1>3. QED
  BY <1>1, <1>2

LEMMA ObserveKeeps ==
  ASSUME IInv, NEW b \in Bridges, NEW o \in Operations, Observe(b, o)
  PROVE  IInv' /\ LearntStay /\ KnownStay
<1> DEFINE shown == Observation(o)
           op   == ops[b][o]
           got  == IF op.last = Seen(shown) THEN [op EXCEPT !.status = shown.status] ELSE Received(op, shown)
<1>1. /\ shown \in Results /\ shown.status \in Statuses
      /\ shown.status \in Decisions => shown = completed[o]
      /\ Knows(o) => shown = completed[o]
  BY ObservationIs DEF Observe, IInv
<1>2. /\ op \in Copies /\ shown.request.binding = binding[b] /\ ops' = [ops EXCEPT ![b][o] = got]
      /\ UNCHANGED <<pending, completed, lastObserved, binding, authorized>>
      /\ TrueOf(op, completed[o], binding[b])
  BY DEF Observe, IInv
<1>3. /\ got \in Copies /\ got.status = shown.status /\ ValidOutcome(got)
      /\ got.last.request.binding = binding[b]
  <2>1. CASE op.last = Seen(shown)
    <3>1. got = [op EXCEPT !.status = shown.status]
      BY <2>1
    <3>2. got \in Copies /\ got.status = shown.status /\ got.last = Seen(shown)
      BY <1>1, <1>2, <2>1, <3>1 DEF Copies
    <3>3. Seen(shown).status = shown.status /\ Seen(shown).request.binding = shown.request.binding
      BY <1>1, SeenIs
    <3>4. QED
      BY <1>2, <3>2, <3>3 DEF ValidOutcome
  <2>2. CASE op.last # Seen(shown)
    <3>1. got = Received(op, shown)
      BY <2>2
    <3> HIDE DEF got, shown, op
    <3>2. QED
      BY <1>1, <1>2, <3>1, ReceivedIs
  <2>3. QED
    BY <2>1, <2>2
<1>4. AuthoritiesOK' /\ KnownStay
  BY <1>2 DEF IInv, AuthoritiesOK, KnownStay, Knows, Awaits
<1>5. TrueOf(got, completed'[o], binding[b])
  BY <1>1, <1>2, <1>3 DEF TrueOf
<1>6. op.status \in Decisions => got.status = op.status
  BY <1>1, <1>2, <1>3, NoneIs DEF TrueOf, Knows, Decisions
<1> HIDE DEF got
<1>7. QED
  BY <1>2, <1>3, <1>4, <1>5, <1>6, CopyKeeps

LEMMA RespondStep ==
  ASSUME IInv, NEW o \in Operations, Respond(o)
  PROVE  IInv' /\ LearntStay /\ KnownStay
<1>1. AuthoritiesOK' /\ KnownStay /\ UNCHANGED <<binding, ops, authorized>>
  BY RespondKeeps DEF IInv, Respond
<1>2. ASSUME NEW c \in Bridges, NEW p \in Operations
      PROVE  TrueOf(ops[c][p], completed'[p], binding[c])
  BY <1>1, NoneIs DEF IInv, TrueOf, KnownStay, Knows, Decisions
<1>3. QED
  BY <1>1, <1>2 DEF IInv, LearntStay

LEMMA FinalizeKeeps ==
  ASSUME IInv, NEW b \in Bridges, NEW awg \in Operations, NEW gate \in Operations,
         FinalizeChange(b, awg, gate)
  PROVE  IInv' /\ LearntStay /\ KnownStay
<1> DEFINE change == [bridge |-> b, awg |-> awg, ui |-> gate]
<1>1. /\ authorized' = authorized \cup {change}
      /\ UNCHANGED <<pending, completed, lastObserved, binding, ops>>
      /\ ops[b][awg].status = "requires_ui" /\ ops[b][gate].status = "approved"
  BY DEF FinalizeChange, MayFinalize
<1>2. /\ authorized' \subseteq [bridge : Bridges, awg : Operations, ui : Operations]
      /\ \A a \in authorized' : /\ ops[a.bridge][a.awg].status = "requires_ui"
                                /\ ops[a.bridge][a.ui].status = "approved"
  BY <1>1 DEF IInv
<1>3. QED
  BY <1>1, <1>2 DEF IInv, AuthoritiesOK, KnownStay, LearntStay, Knows, Awaits

---------------------------------------------------------------------------
LEMMA InitHolds ==
  ASSUME Init
  PROVE  IInv
<1>1. Absent \in Copies /\ ~Attempted(Absent) /\ Absent.status \notin Decisions
  <2>1. Absent.payload = 0 /\ Absent.budget = 0
    BY DEF Absent
  <2>2. QED
    BY <2>1, NoneIs DEF Absent, Copies, Attempted, Decisions
<1>2. AuthoritiesOK
  BY NoneIs DEF Init, AuthoritiesOK, Knows, Awaits
<1>3. \A b \in Bridges, o \in Operations : ops[b][o] = Absent
  BY DEF Init
<1>4. QED
  BY <1>1, <1>2, <1>3 DEF Init, IInv, TrueOf

LEMMA StepKeeps ==
  ASSUME IInv, [Next]_vars
  PROVE  IInv' /\ LearntStay /\ KnownStay
<1>1. CASE UNCHANGED vars
  BY <1>1 DEF vars, IInv, AuthoritiesOK, LearntStay, KnownStay, Knows, Awaits
<1>2. CASE \E o \in Operations : Respond(o)
  BY <1>2, RespondStep
<1>3. CASE \E b \in Bridges, o \in Operations, payload \in Payloads, budget \in Budgets :
             Request(b, o, payload, budget)
  BY <1>3, RequestKeeps
<1>4. CASE \E b \in Bridges, o \in Operations : Observe(b, o)
  BY <1>4, ObserveKeeps
<1>5. CASE \E b \in Bridges, o \in Operations : Retry(b, o)
  BY <1>5, RetryKeeps
<1>6. CASE \E b \in Bridges, o, gate \in Operations : FinalizeChange(b, o, gate)
  BY <1>6, FinalizeKeeps
<1>7. QED
  BY <1>1, <1>2, <1>3, <1>4, <1>5, <1>6 DEF Next

LEMMA Means ==
  ASSUME IInv
  PROVE  TypeOK /\ AuthorizedByBoth /\ OutcomesValidate
<1>1. TypeOK
  BY DEF IInv, AuthoritiesOK, TypeOK
<1>2. \A a \in authorized : a.bridge \in Bridges /\ a.awg \in Operations /\ a.ui \in Operations
  BY DEF IInv
<1>3. AuthorizedByBoth
  BY <1>2 DEF IInv, TrueOf, AuthorizedByBoth, Decisions
<1>4. OutcomesValidate
  BY DEF IInv, TrueOf, OutcomesValidate, ChangeStatus
<1>5. QED
  BY <1>1, <1>3, <1>4

(* A change is let through only if guidance itself routed it to the human  *)
(* gate and the human gate itself approved it, and the document of a       *)
(* bridge bears out what it says (finalize_change, validate_record).       *)
THEOREM AuthorityIsKept == Spec => []ChangesAreAuthorized
<1>1. IInv /\ [Next]_vars => IInv'
  BY StepKeeps
<1>2. IInv => ChangesAreAuthorized
  BY Means DEF ChangesAreAuthorized
<1>3. QED
  BY <1>1, <1>2, InitHolds, PTL DEF Spec

(* Neither an authority nor a bridge goes back on a decision.              *)
THEOREM DecisionsAreKept == Spec => DecisionsAreFinal
<1>1. IInv /\ [Next]_vars => IInv'
  BY StepKeeps
<1>2. IInv /\ [Next]_vars =>
        \A o \in Operations :
          /\ Knows(o) => completed'[o] = completed[o]
          /\ \A b \in Bridges : ops[b][o].status \in Decisions =>
               /\ ops'[b][o].status = ops[b][o].status
               /\ completed[o].status = ops[b][o].status
  BY StepKeeps DEF LearntStay, KnownStay, IInv, TrueOf
<1>3. QED
  BY <1>1, <1>2, InitHolds, PTL DEF Spec, DecisionsAreFinal

---------------------------------------------------------------------------
(* The offline model of the three authorities.                             *)

(* The gates of a job.                                                     *)
JobOK ==
  /\ state \in Interaction!Active \cup {"completed", "blocked"}
  /\ revision \in 1..MaxRevision /\ lease \in Leases \cup {0}
  /\ {checkpoint, evidence} \subseteq Interaction!Rounds \cup {None}
  /\ quality \in {"not_decided", "accepted", "rejected"}
  /\ ui \in Interaction!Outcomes \cup {"not_required", "pending"}
  /\ Interaction!CompletedThroughTheGates
  /\ state \in {"leased", "recovering"} => lease # 0
  /\ quality = "accepted" => judged # None
JobInv == JobOK /\ \E n \in Nat : seen = 1..n

LEMMA CountsOfActions == ASSUME NEW S PROVE Interaction!Cardinality(S) = Cardinality(S)
BY DEF Interaction!Cardinality, Cardinality

LEMMA JobBegins == ASSUME Interaction!Init PROVE JobInv
<1>1. seen = 1..0
  BY DEF Interaction!Init
<1>2. JobOK
  BY InteractionAssumption DEF JobOK, Interaction!Init, Interaction!Active, Interaction!BoundAssumption,
       Interaction!CompletedThroughTheGates, Interaction!Working
<1>3. QED
  BY <1>1, <1>2 DEF JobInv

LEMMA JobMeans == ASSUME JobInv PROVE Interaction!TypeOK /\ Interaction!CompletedThroughTheGates
<1>1. seen = 1..Interaction!Cardinality(seen)
  BY CountsOfActions, FS_Interval DEF JobInv
<1>2. QED
  BY <1>1 DEF JobInv, JobOK, Interaction!TypeOK

LEMMA OperationKeeps ==
  ASSUME JobOK, Interaction!Operation
  PROVE  JobOK' /\ Interaction!UserDecision
<1> USE DEF JobOK, Interaction!Active, Interaction!Outcomes, Interaction!Rounds, Interaction!Working,
            Interaction!CompletedThroughTheGates, Interaction!gates, Interaction!UserDecision
<1>1. CASE Interaction!Move
  BY <1>1 DEF Interaction!Move, Interaction!Moves
<1>2. CASE Interaction!Retry \/ Interaction!Block
  BY <1>2 DEF Interaction!Retry, Interaction!Block
<1>3. CASE Interaction!Continue \/ Interaction!RequestCompletion
  BY <1>3 DEF Interaction!Continue, Interaction!RequestCompletion, Interaction!GatesPass
<1>4. CASE Interaction!Commit
  BY <1>4 DEF Interaction!Commit
<1>5. CASE Interaction!RepairEscalate
  BY <1>5 DEF Interaction!RepairEscalate
<1>6. CASE \E new \in Leases : Interaction!Lease(new)
  BY <1>6, InteractionAssumption DEF Interaction!Lease, Interaction!BoundAssumption
<1>7. CASE \E round \in Interaction!Rounds : Interaction!SubmitEvidence(round) \/ Interaction!Checkpoint(round)
  BY <1>7 DEF Interaction!SubmitEvidence, Interaction!Checkpoint
<1>8. CASE \E mark \in Interaction!Rounds, new \in Leases : Interaction!Recover(mark, new)
  BY <1>8, InteractionAssumption DEF Interaction!Recover, Interaction!BoundAssumption
<1>9. CASE \E user \in BOOLEAN : Interaction!Alternative(user)
  BY <1>9 DEF Interaction!Alternative
<1>10. CASE \E result \in {"accepted", "rejected"}, round \in Interaction!Rounds : Interaction!QualityVerdict(result, round)
  BY <1>10, InteractionAssumption DEF Interaction!QualityVerdict, Interaction!NoneAssumption
<1>11. CASE \E decision \in {"approved", "rejected", "requires_ui"} : Interaction!GuidanceDecides(decision)
  BY <1>11 DEF Interaction!GuidanceDecides, Interaction!MayDecide
<1>12. CASE \E outcome \in Interaction!Outcomes : Interaction!UiDecides(outcome)
  BY <1>12 DEF Interaction!UiDecides
<1>13. QED
  BY <1>1, <1>2, <1>3, <1>4, <1>5, <1>6, <1>7, <1>8, <1>9, <1>10, <1>11, <1>12 DEF Interaction!Operation

LEMMA JobStep ==
  ASSUME JobInv, [Interaction!Next]_modelVars
  PROVE  JobInv' /\ Interaction!UserDecision
<1>1. CASE UNCHANGED modelVars
  BY <1>1 DEF modelVars, JobInv, JobOK, Interaction!CompletedThroughTheGates, Interaction!UserDecision,
              Interaction!Cardinality
<1>2. CASE Interaction!Next
  <2>1. PICK id \in 1..(Interaction!Cardinality(seen) + 1), rev \in 1..MaxRevision, held \in Leases \cup {0} :
          Interaction!Apply(id, rev, held)
    BY <1>2 DEF Interaction!Next
  <2>2. id \notin seen /\ seen' = seen \cup {id} /\ Interaction!Operation
    BY <2>1 DEF Interaction!Apply, Interaction!Binds
  <2>3. JobOK' /\ Interaction!UserDecision
    BY <2>2, OperationKeeps DEF JobInv
  <2>4. \E n \in Nat : seen' = 1..n
    <3>1. PICK n \in Nat : seen = 1..n
      BY DEF JobInv
    <3>2. Interaction!Cardinality(seen) = n
      BY <3>1, CountsOfActions, FS_Interval
    <3>3. id = n + 1
      BY <2>1, <2>2, <3>1, <3>2
    <3>4. seen' = 1..(n + 1)
      BY <2>2, <3>1, <3>3
    <3>5. QED
      BY <3>4
  <2>5. QED
    BY <2>3, <2>4 DEF JobInv
<1>3. QED
  BY <1>1, <1>2

---------------------------------------------------------------------------

(* The records of a human gate.                                            *)
RecordInv == Human!TypeOK /\ Human!AcceptedRestOnInput

LEMMA RecordBegins == ASSUME Human!Init PROVE RecordInv
<1>1. kind \in DOMAIN Human!Vocabulary /\ rendered = FALSE /\ verdict = None
  BY DEF Human!Init
<1>2. events \in Seq(Human!Happens) /\ Len(events) <= MaxEvents
  <2>1. events = <<>>
    BY DEF Human!Init
  <2>2. <<>> \in Seq(Human!Happens) /\ Len(<<>>) = 0
    OBVIOUS
  <2>3. QED
    BY <2>1, <2>2, HumanAssumption DEF Human!NoneAssumption
<1>3. verdict # "accepted" /\ final = None
  BY HumanAssumption DEF Human!Init, Human!NoneAssumption
<1>4. QED
  BY <1>1, <1>2, <1>3 DEF RecordInv, Human!TypeOK, Human!AcceptedRestOnInput

(* What is accepted rests on an input, whatever was written before.        *)
LEMMA AcceptedRests ==
  ASSUME Human!TypeOK, NEW exit, Human!Accepts(exit)
  PROVE  /\ kind = "live" => \E n \in Human!At("input_validated") : events[n].option = exit.option
         /\ kind = "production" =>
              \E k \in Human!At("gate_rendered"), n \in Human!At("input_validated") :
                 k < n /\ n = exit.input /\ (events[n].human \/ events[n].decision = "timeout")
         /\ kind # "production" /\ exit.type # "completed" => events[exit.checkpoint].type = "ui_checkpointed"
<1>1. CASE kind = "live"
  BY <1>1 DEF Human!Accepts, Human!LiveAccepts, Human!Resumes, Human!At
<1>2. CASE kind = "bridge"
  BY <1>2 DEF Human!Accepts, Human!BridgeAccepts, Human!Resumes, Human!At
<1>3. CASE kind = "production"
  <2>1. Len(events) = 4 /\ Human!Order /\ Human!Present(events[3]) /\ exit.input = 3
    BY <1>3 DEF Human!Accepts, Human!ProductionAccepts
  <2>2. DOMAIN events = 1..4
    BY <2>1 DEF Human!TypeOK
  <2>3. events[2].type = Human!Types[2] /\ events[3].type = Human!Types[3]
    BY <2>2 DEF Human!Types
  <2>4. Human!Types[2] = "gate_rendered" /\ Human!Types[3] = "input_validated"
    BY <2>1 DEF Human!Order
  <2>5. 2 \in Human!At("gate_rendered") /\ 3 \in Human!At("input_validated")
    BY <2>2, <2>3, <2>4 DEF Human!At
  <2>6. events[3].human \/ events[3].decision = "timeout"
    BY <2>1 DEF Human!Present
  <2>7. QED
    BY <1>3, <2>1, <2>5, <2>6
<1>4. QED
  BY <1>1, <1>2, <1>3 DEF Human!TypeOK, Human!Vocabulary

LEMMA RecordStep ==
  ASSUME RecordInv, [Human!Next]_humanVars
  PROVE  RecordInv'
<1>1. CASE UNCHANGED humanVars
  BY <1>1 DEF humanVars, RecordInv, Human!TypeOK, Human!AcceptedRestOnInput, Human!At, Human!Happens
<1>2. CASE Human!Happen
  <2>1. PICK event \in Human!Happens : events' = Append(events, event)
    BY <1>2 DEF Human!Happen
  <2>2. events' \in Seq(Human!Happens) /\ Len(events') <= MaxEvents
    BY <1>2, <2>1, HumanAssumption DEF Human!Happen, RecordInv, Human!TypeOK, Human!NoneAssumption
  <2>3. verdict' = None /\ UNCHANGED <<kind, final, verdict, rendered>>
    BY <1>2 DEF Human!Happen
  <2>4. QED
    BY <2>2, <2>3, HumanAssumption DEF RecordInv, Human!TypeOK, Human!AcceptedRestOnInput, Human!NoneAssumption, Human!Happens
<1>3. CASE Human!Validate
  <2>1. PICK exit \in Human!Finals[kind] :
          IF Human!Accepts(exit)
          THEN verdict' = "accepted" /\ final' = exit /\ UNCHANGED events
          ELSE verdict' = "refused" /\ events' = <<>> /\ UNCHANGED final
    BY <1>3 DEF Human!Validate
  <2>2. UNCHANGED <<kind, rendered>> /\ verdict = None
    BY <1>3 DEF Human!Validate
  <2>3. exit # None
    <3>1. Len(events) \in 0..MaxEvents
      BY HumanAssumption DEF RecordInv, Human!TypeOK, Human!NoneAssumption
    <3>2. kind \in DOMAIN Human!Vocabulary
      BY DEF RecordInv, Human!TypeOK
    <3>3. QED
      BY <2>1, <3>1, <3>2, HumanAssumption DEF Human!Finals, Human!NoneAssumption
  <2>4. CASE Human!Accepts(exit)
    <3>1. verdict' = "accepted" /\ final' = exit /\ UNCHANGED events
      BY <2>1, <2>4
    <3>2. Human!TypeOK'
      BY <2>2, <2>3, <3>1 DEF RecordInv, Human!TypeOK, Human!Happens
    <3>3. Human!AcceptedRestOnInput'
      BY <2>2, <2>4, <3>1, AcceptedRests DEF RecordInv, Human!AcceptedRestOnInput, Human!At
    <3>4. QED
      BY <3>2, <3>3 DEF RecordInv
  <2>5. CASE ~Human!Accepts(exit)
    <3>1. verdict' = "refused" /\ events' = <<>> /\ UNCHANGED final
      BY <2>1, <2>5
    <3>2. Human!TypeOK'
      BY <2>2, <3>1, HumanAssumption DEF RecordInv, Human!TypeOK, Human!Happens, Human!NoneAssumption
    <3>3. QED
      BY <3>1, <3>2 DEF RecordInv, Human!AcceptedRestOnInput
  <2>6. QED
    BY <2>4, <2>5
<1>4. CASE Human!Render
  BY <1>4 DEF Human!Render, RecordInv, Human!TypeOK, Human!AcceptedRestOnInput, Human!At, Human!Happens
<1>5. QED
  BY <1>1, <1>2, <1>3, <1>4 DEF Human!Next

---------------------------------------------------------------------------

(* The journal and the runs of the control loops.                          *)
Standing(p, i, d) ==
  d \in Loop!Decided /\ d.authority = Loop!Authorities[i] /\ d.proposal = p /\ d.durable /\ d.outcome \in Loop!Allowed[d.authority]
Ends(j, d, w) == w <= Len(j) /\ \A i \in 1..w : j[Len(j) - w + i] = d[i]
GoesOn(d, w) == \A i \in 1..w : d[i].outcome \notin Loop!Endings

RunTyped(q) == q \in [at : {"closed", "open", "deciding", "writing"}, journal : Seq(Loop!Decided),
                      proposal : Proposals \cup {None}, decisions : Seq(Loop!Decided)]
Journaled(q) == IF q.at = "writing" THEN Len(q.decisions) - 1 ELSE Len(q.decisions)
RunOK(q) ==
  /\ RunTyped(q)
  /\ q.at \in {"closed", "open"} => q.proposal = None /\ q.decisions = <<>>
  /\ q.at \in {"deciding", "writing"} => q.proposal \in Proposals
  /\ q.at = "deciding" => Len(q.decisions) \in 0..2
  /\ q.at = "writing" => Len(q.decisions) \in 1..3
  /\ \A i \in 1..Len(q.decisions) : Standing(q.proposal, i, q.decisions[i])
  /\ GoesOn(q.decisions, Journaled(q))
  /\ Ends(q.journal, q.decisions, Journaled(q))

Holds(f, j) == \E i \in DOMAIN f : f[i] = j
Chained(f) == \A i \in DOMAIN f : Len(f[i]) > 1 => \E k \in 1..(i - 1) : f[k] = Loop!Front(f[i])
FileOK(f) == f \in Seq(Seq(Loop!Decided)) /\ (\A i \in DOMAIN f : Len(f[i]) \in 1..i) /\ Chained(f)

ResultOK(r, f) ==
  /\ r \in [proposal : Proposals, decisions : Seq(Loop!Decided), outcome : Loop!Endings \cup {"approved"},
            journal : Seq(Loop!Decided)]
  /\ Len(r.decisions) \in 1..3
  /\ \A i \in 1..Len(r.decisions) : Standing(r.proposal, i, r.decisions[i])
  /\ GoesOn(r.decisions, Len(r.decisions) - 1)
  /\ r.outcome \in Loop!Endings => r.decisions[Len(r.decisions)].outcome = r.outcome
  /\ r.outcome = "approved" =>
       /\ Len(r.decisions) = 3 /\ r.decisions[3].outcome \notin Loop!Endings
       /\ r.proposal \in Escalating => r.decisions[2].outcome = "escalated"
  /\ Ends(r.journal, r.decisions, Len(r.decisions))
  /\ Holds(f, r.journal)

AloneOK ==
  /\ Loop!Verifies(file)
  /\ \A l \in Loops : loops[l].at # "closed" =>
        loops[l].journal = Loop!LastEntry(file) /\ \A k \in Loops : loops[k].at # "closed" => k = l

LoopInv ==
  /\ FileOK(file) /\ alone \in BOOLEAN
  /\ DOMAIN loops = Loops /\ loops = [l \in Loops |-> loops[l]]
  /\ \A l \in Loops : RunOK(loops[l]) /\ (loops[l].journal # <<>> => Holds(file, loops[l].journal))
  /\ \A r \in results : ResultOK(r, file)
  /\ alone => AloneOK

LEMMA LoopBegins == ASSUME Loop!Init PROVE LoopInv
<1>1. FileOK(file) /\ Loop!Verifies(file)
  <2>1. file = <<>>
    BY DEF Loop!Init
  <2>2. QED
    BY <2>1 DEF FileOK, Chained, Loop!Verifies
<1>2. RunOK(Loop!Closed)
  BY DEF RunOK, RunTyped, Loop!Closed, Journaled, GoesOn, Ends
<1>3. \A l \in Loops : loops[l] = Loop!Closed
  BY DEF Loop!Init
<1>4. alone \in BOOLEAN /\ results = {} /\ DOMAIN loops = Loops /\ loops = [l \in Loops |-> loops[l]]
  BY DEF Loop!Init
<1>5. \A l \in Loops : loops[l].at = "closed" /\ loops[l].journal = <<>>
  BY <1>3 DEF Loop!Closed
<1>6. QED
  BY <1>1, <1>2, <1>3, <1>4, <1>5 DEF LoopInv, AloneOK

(* One more line of the file.                                              *)
LEMMA Extends ==
  ASSUME NEW f, FileOK(f), NEW j \in Seq(Loop!Decided), j # <<>> => Holds(f, j), NEW d \in Loop!Decided
  PROVE  /\ FileOK(Append(f, Append(j, d)))
         /\ Holds(Append(f, Append(j, d)), Append(j, d))
         /\ \A k : Holds(f, k) => Holds(Append(f, Append(j, d)), k)
         /\ Loop!LastEntry(Append(f, Append(j, d))) = Append(j, d)
         /\ Loop!Verifies(f) /\ j = Loop!LastEntry(f) => Loop!Verifies(Append(f, Append(j, d)))
<1> DEFINE e == Append(j, d)  g == Append(f, e)  n == Len(f)
<1>1. f \in Seq(Seq(Loop!Decided)) /\ e \in Seq(Loop!Decided) /\ Len(e) = Len(j) + 1 /\ e[Len(j) + 1] = d /\ e # <<>>
  BY AppendProperties DEF FileOK
<1>2. g \in Seq(Seq(Loop!Decided)) /\ Len(g) = n + 1 /\ DOMAIN g = 1..(n + 1) /\ g[n + 1] = e /\ n \in Nat /\ DOMAIN f = 1..n
  BY <1>1
<1>3. \A i \in 1..n : g[i] = f[i]
  BY <1>1
<1>4. Len(j) \in 0..n
  BY <1>1, <1>2 DEF FileOK, Holds
<1>5. Loop!Front(e) = j
  <2>1. Loop!Front(e) = SubSeq(e, 1, Len(j))
    BY <1>1 DEF Loop!Front
  <2>2. QED
    BY <2>1, <1>1
<1> HIDE DEF e, g, n
<1>6. Chained(g)
  <2> SUFFICES ASSUME NEW i \in 1..(n + 1), Len(g[i]) > 1 PROVE \E k \in 1..(i - 1) : g[k] = Loop!Front(g[i])
    BY <1>2 DEF Chained
  <2>1. CASE i \in 1..n
    <3>1. PICK k \in 1..(i - 1) : f[k] = Loop!Front(f[i])
      BY <2>1, <1>2, <1>3 DEF FileOK, Chained
    <3>2. k \in 1..n
      BY <2>1, <3>1, <1>2
    <3>3. QED
      BY <2>1, <3>1, <3>2, <1>3
  <2>2. CASE i = n + 1
    <3>1. j # <<>>
      BY <2>2, <1>1, <1>2
    <3>2. PICK k \in 1..n : f[k] = j
      BY <3>1, <1>2 DEF Holds
    <3>3. QED
      BY <2>2, <3>2, <1>2, <1>3, <1>5
  <2>3. QED
    BY <2>1, <2>2, <1>2
<1>7. \A i \in DOMAIN g : Len(g[i]) \in 1..i
  BY <1>1, <1>2, <1>3, <1>4 DEF FileOK
<1>8. Holds(g, e) /\ \A k : Holds(f, k) => Holds(g, k)
  <2>1. n + 1 \in DOMAIN g /\ \A i \in DOMAIN f : i \in DOMAIN g
    BY <1>2
  <2>2. QED
    BY <2>1, <1>2, <1>3 DEF Holds
<1>9. Loop!LastEntry(g) = e
  BY <1>2 DEF Loop!LastEntry, Loop!Last
<1>10. ASSUME Loop!Verifies(f), j = Loop!LastEntry(f) PROVE Loop!Verifies(g)
  <2> SUFFICES ASSUME NEW i \in 1..(n + 1)
               PROVE  Len(g[i]) = i /\ Loop!Front(g[i]) = IF i = 1 THEN <<>> ELSE g[i - 1]
    BY <1>2 DEF Loop!Verifies
  <2>1. CASE i \in 1..n
    <3>1. i # 1 => i - 1 \in 1..n
      BY <2>1, <1>2
    <3>2. QED
      BY <2>1, <3>1, <1>2, <1>3, <1>10 DEF Loop!Verifies
  <2>2. CASE i = n + 1
    <3>1. CASE n = 0
      <4>1. j = <<>>
        BY <3>1, <1>1, <1>10, EmptySeq DEF Loop!LastEntry, n
      <4>2. QED
        BY <2>2, <3>1, <4>1, <1>1, <1>2, <1>5
    <3>2. CASE n # 0
      <4>1. f # <<>>
        BY <3>2 DEF n
      <4>2. j = f[n]
        BY <4>1, <1>10 DEF Loop!LastEntry, Loop!Last, n
      <4>3. n \in 1..n /\ n \in DOMAIN f /\ i - 1 = n /\ i # 1
        BY <2>2, <3>2, <1>2
      <4>4. Len(f[n]) = n
        BY <4>3, <1>10 DEF Loop!Verifies
      <4>5. QED
        BY <2>2, <4>2, <4>3, <4>4, <1>1, <1>2, <1>3, <1>5
    <3>3. QED
      BY <3>1, <3>2
  <2>3. QED
    BY <2>1, <2>2, <1>2
<1>11. QED
  BY <1>2, <1>6, <1>7, <1>8, <1>9, <1>10 DEF FileOK, g, e

(* What one loop becomes, and what becomes of the file with it.            *)
LEMMA Becomes ==
  ASSUME LoopInv, NEW l \in Loops, NEW q, loops' = [loops EXCEPT ![l] = q], alone' = alone,
         RunOK(q), q.journal # <<>> => Holds(file', q.journal),
         FileOK(file'), \A k : Holds(file, k) => Holds(file', k),
         \A r \in results' : ResultOK(r, file'),
         alone => /\ Loop!Verifies(file')
                  /\ \A k \in Loops : k # l => loops[k].at = "closed"
                  /\ q.at # "closed" => q.journal = Loop!LastEntry(file')
  PROVE  LoopInv'
<1>1. DOMAIN loops' = Loops /\ loops' = [k \in Loops |-> loops'[k]] /\ loops'[l] = q
  BY DEF LoopInv
<1>2. \A k \in Loops : k # l => loops'[k] = loops[k]
  BY DEF LoopInv
<1>3. ASSUME NEW k \in Loops PROVE RunOK(loops'[k]) /\ (loops'[k].journal # <<>> => Holds(file', loops'[k].journal))
  <2>1. CASE k = l
    BY <2>1, <1>1
  <2>2. CASE k # l
    <3>1. loops'[k] = loops[k]
      BY <2>2, <1>2
    <3>2. RunOK(loops[k]) /\ (loops[k].journal # <<>> => Holds(file, loops[k].journal))
      BY DEF LoopInv
    <3>3. QED
      BY <3>1, <3>2
  <2>3. QED
    BY <2>1, <2>2
<1>4. ASSUME alone PROVE AloneOK'
  BY <1>1, <1>2, <1>4 DEF AloneOK
<1>5. alone' \in BOOLEAN
  BY DEF LoopInv
<1>6. QED
  BY <1>1, <1>3, <1>4, <1>5 DEF LoopInv

(* With a loop at work that keeps others out, no other is.                 *)
LEMMA OthersAreClosed ==
  ASSUME LoopInv, alone, NEW l \in Loops, loops[l].at # "closed"
  PROVE  /\ Loop!Verifies(file) /\ loops[l].journal = Loop!LastEntry(file)
         /\ \A k \in Loops : k # l => loops[k].at = "closed"
BY DEF LoopInv, AloneOK

LEMMA AuthoritiesOf ==
  /\ Len(Loop!Authorities) = 3
  /\ \A i \in 1..3 : Loop!Answers(Loop!Authorities[i]) \subseteq Loop!Decided
  /\ \A i \in 1..3 : \A d \in Loop!Answers(Loop!Authorities[i]) : d.authority = Loop!Authorities[i]
<1>1. Len(Loop!Authorities) = 3 /\ \A i \in 1..3 : Loop!Authorities[i] \in DOMAIN Loop!Allowed
  BY DEF Loop!Authorities, Loop!Allowed
<1>2. QED
  BY <1>1 DEF Loop!Decided, Loop!Answers

LEMMA OpenKeeps == ASSUME LoopInv, NEW l \in Loops, Loop!Open(l) PROVE LoopInv'
<1> DEFINE j == Loop!LastEntry(file)
<1>1. j \in Seq(Loop!Decided) /\ (j # <<>> => Holds(file, j))
  <2>1. file \in Seq(Seq(Loop!Decided))
    BY DEF LoopInv, FileOK
  <2>2. CASE file = <<>>
    BY <2>2 DEF Loop!LastEntry
  <2>3. CASE file # <<>>
    <3>1. Len(file) \in DOMAIN file
      BY <2>1, <2>3
    <3>2. j = file[Len(file)]
      BY <2>3 DEF Loop!LastEntry, Loop!Last
    <3>3. QED
      BY <2>1, <3>1, <3>2 DEF Holds
  <2>4. QED
    BY <2>2, <2>3
<1> DEFINE q == [at |-> "open", journal |-> j, proposal |-> None, decisions |-> <<>>]
<1>2. loops' = [loops EXCEPT ![l] = q] /\ alone' = alone /\ file' = file /\ results' = {}
  BY DEF Loop!Open, Loop!Become
<1>3. RunOK(q)
  BY <1>1 DEF RunOK, RunTyped, Journaled, GoesOn, Ends
<1>4. alone => Loop!Verifies(file') /\ \A k \in Loops : k # l => loops[k].at = "closed"
  BY <1>2 DEF Loop!Open
<1>5. q.at = "open" /\ q.journal = j
  OBVIOUS
<1> HIDE DEF q
<1>6. QED
  BY <1>1, <1>2, <1>3, <1>4, <1>5, Becomes DEF LoopInv

LEMMA RunKeeps == ASSUME LoopInv, NEW l \in Loops, NEW p \in Proposals, Loop!Run(l, p) PROVE LoopInv'
<1> DEFINE q == [at |-> "deciding", journal |-> loops[l].journal, proposal |-> p, decisions |-> <<>>]
<1>1. loops' = [loops EXCEPT ![l] = q] /\ alone' = alone /\ file' = file /\ results' = {} /\ loops[l].at # "closed"
  BY DEF Loop!Run, Loop!Become
<1>2. RunOK(loops[l]) /\ (loops[l].journal # <<>> => Holds(file, loops[l].journal))
  BY DEF LoopInv
<1>3. RunOK(q)
  BY <1>2 DEF RunOK, RunTyped, Journaled, GoesOn, Ends
<1>4. q.journal = loops[l].journal
  OBVIOUS
<1> HIDE DEF q
<1>5. QED
  BY <1>1, <1>2, <1>3, <1>4, OthersAreClosed, Becomes DEF LoopInv

LEMMA DecideKeeps == ASSUME LoopInv, NEW l \in Loops, Loop!Decide(l) PROVE LoopInv'
<1> DEFINE n == Len(loops[l].decisions)
<1>1. alone' = alone /\ file' = file /\ results' = {} /\ loops[l].at = "deciding"
  BY DEF Loop!Decide
<1>2. RunOK(loops[l]) /\ (loops[l].journal # <<>> => Holds(file, loops[l].journal))
  BY DEF LoopInv
<1>3. n \in 0..2 /\ loops[l].decisions \in Seq(Loop!Decided)
  BY <1>1, <1>2 DEF RunOK, RunTyped
<1>4. PICK answer \in Loop!Answers(Loop!Authorities[n + 1]) :
        IF Loop!Stands(answer, l)
        THEN Loop!Become(l, "writing", loops[l].journal, loops[l].proposal, Append(loops[l].decisions, answer))
        ELSE Loop!Become(l, "open", loops[l].journal, None, <<>>)
  BY DEF Loop!Decide
<1>5. CASE Loop!Stands(answer, l)
  <2> DEFINE d == Append(loops[l].decisions, answer)
             q == [at |-> "writing", journal |-> loops[l].journal, proposal |-> loops[l].proposal, decisions |-> d]
  <2>1. loops' = [loops EXCEPT ![l] = q]
    BY <1>4, <1>5 DEF Loop!Become
  <2>2. Standing(loops[l].proposal, n + 1, answer)
    <3>1. n + 1 \in 1..3
      <4> HIDE DEF n
      <4> QED
        BY <1>3
    <3>2. answer \in Loop!Decided /\ answer.authority = Loop!Authorities[n + 1]
      BY <3>1, AuthoritiesOf
    <3>3. answer.proposal = loops[l].proposal /\ answer.durable /\ answer.outcome \in Loop!Allowed[answer.authority]
      BY <1>5 DEF Loop!Stands
    <3>4. QED
      BY <3>2, <3>3, Zenon DEF Standing
  <2>3. d \in Seq(Loop!Decided) /\ Len(d) = n + 1 /\ d[n + 1] = answer /\ \A i \in 1..n : d[i] = loops[l].decisions[i]
    BY <1>3, <2>2 DEF Standing
  <2> HIDE DEF d
  <2>4. RunTyped(q) /\ Journaled(q) = n /\ q.at = "writing" /\ q.journal = loops[l].journal /\ q.decisions = d
        /\ q.proposal = loops[l].proposal
    BY <1>2, <1>3, <2>3 DEF RunOK, RunTyped, Journaled
  <2> HIDE DEF q
  <2>5. Journaled(loops[l]) = n
    BY <1>1 DEF Journaled
  <2> HIDE DEF n
  <2>6. \A i \in 1..(n + 1) : Standing(loops[l].proposal, i, d[i])
    BY <1>2, <1>3, <2>2, <2>3 DEF RunOK, n
  <2>7. GoesOn(d, n) /\ Ends(loops[l].journal, d, n)
    BY <1>2, <2>3, <2>5 DEF RunOK, GoesOn, Ends
  <2>8. RunOK(q)
    BY <1>1, <1>2, <1>3, <2>3, <2>4, <2>6, <2>7 DEF RunOK
  <2>9. QED
    BY <1>1, <1>2, <2>1, <2>4, <2>8, OthersAreClosed, Becomes DEF LoopInv
<1>6. CASE ~Loop!Stands(answer, l)
  <2> DEFINE q == [at |-> "open", journal |-> loops[l].journal, proposal |-> None, decisions |-> <<>>]
  <2>1. loops' = [loops EXCEPT ![l] = q]
    BY <1>4, <1>6 DEF Loop!Become
  <2>2. RunOK(q)
    BY <1>2 DEF RunOK, RunTyped, Journaled, GoesOn, Ends
  <2>3. q.journal = loops[l].journal
    OBVIOUS
  <2> HIDE DEF q
  <2>4. QED
    BY <1>1, <1>2, <2>1, <2>2, <2>3, OthersAreClosed, Becomes DEF LoopInv
<1>7. QED
  BY <1>5, <1>6

(* The decision a loop is about to write, and the entry it makes.          *)
LEMMA Entry ==
  ASSUME LoopInv, NEW l \in Loops, loops[l].at = "writing"
  PROVE  LET d == loops[l].decisions
             n == Len(d)
             e == Loop!EntryOf(l) IN
         /\ loops[l].proposal \in Proposals /\ d \in Seq(Loop!Decided) /\ n \in 1..3
         /\ Loop!Last(d) = d[n] /\ e \in Seq(Loop!Decided)
         /\ \A i \in 1..n : Standing(loops[l].proposal, i, d[i])
         /\ GoesOn(d, n - 1) /\ Ends(e, d, n)
         /\ FileOK(Append(file, e)) /\ Holds(Append(file, e), e)
         /\ \A k : Holds(file, k) => Holds(Append(file, e), k)
         /\ Loop!LastEntry(Append(file, e)) = e
         /\ alone => Loop!Verifies(Append(file, e)) /\ \A k \in Loops : k # l => loops[k].at = "closed"
<1> DEFINE d == loops[l].decisions
           n == Len(d)
           e == Loop!EntryOf(l)
           j == loops[l].journal
<1>1. RunOK(loops[l]) /\ (j # <<>> => Holds(file, j)) /\ FileOK(file)
  BY DEF LoopInv
<1>2. loops[l].proposal \in Proposals /\ d \in Seq(Loop!Decided) /\ n \in 1..3 /\ j \in Seq(Loop!Decided)
  BY <1>1 DEF RunOK, RunTyped
<1>3. Journaled(loops[l]) = n - 1
  BY DEF Journaled
<1>4. (\A i \in 1..n : Standing(loops[l].proposal, i, d[i])) /\ GoesOn(d, n - 1) /\ Ends(j, d, n - 1)
  BY <1>1, <1>3 DEF RunOK
<1>5. Loop!Last(d) = d[n] /\ d[n] \in Loop!Decided
  <2>1. Loop!Last(d) = d[n]
    BY DEF Loop!Last
  <2>2. n \in 1..Len(d)
    <3>1. n = Len(d)
      OBVIOUS
    <3> HIDE DEF n
    <3>2. n \in 1..n
      BY <1>2
    <3>3. QED
      BY <3>1, <3>2
  <2>3. QED
    BY <1>2, <2>1, <2>2, ElementOfSeq
<1>6. e = Append(j, d[n])
  BY <1>5 DEF Loop!EntryOf
<1>7. alone => /\ Loop!Verifies(file) /\ j = Loop!LastEntry(file)
               /\ \A k \in Loops : k # l => loops[k].at = "closed"
  BY OthersAreClosed
<1> HIDE DEF d, n, e, j
<1>8. /\ FileOK(Append(file, e)) /\ Holds(Append(file, e), e)
      /\ \A k : Holds(file, k) => Holds(Append(file, e), k)
      /\ Loop!LastEntry(Append(file, e)) = e
      /\ Loop!Verifies(file) /\ j = Loop!LastEntry(file) => Loop!Verifies(Append(file, e))
  BY <1>1, <1>2, <1>5, <1>6, Extends
<1>9. e \in Seq(Loop!Decided) /\ Ends(e, d, n)
  <2>1. e \in Seq(Loop!Decided) /\ Len(e) = Len(j) + 1 /\ e[Len(j) + 1] = d[n] /\ \A i \in 1..Len(j) : e[i] = j[i]
    BY <1>2, <1>5, <1>6
  <2>2. n - 1 <= Len(j) /\ \A i \in 1..(n - 1) : j[Len(j) - (n - 1) + i] = d[i]
    BY <1>4 DEF Ends
  <2>3. Len(j) \in Nat
    BY <1>2
  <2>4. ASSUME NEW i \in 1..n PROVE e[Len(e) - n + i] = d[i]
    <3>1. CASE i = n
      <4>1. Len(e) - n + i = Len(j) + 1
        BY <3>1, <2>1, <2>3, <1>2
      <4>2. QED
        BY <3>1, <4>1, <2>1
    <3>2. CASE i # n
      <4>1. i \in 1..(n - 1) /\ Len(e) - n + i = Len(j) - (n - 1) + i /\ Len(j) - (n - 1) + i \in 1..Len(j)
        BY <3>2, <2>1, <2>2, <2>3, <1>2
      <4>2. QED
        BY <4>1, <2>1, <2>2
    <3>3. QED
      BY <3>1, <3>2
  <2>5. QED
    BY <2>1, <2>2, <2>3, <2>4, <1>2 DEF Ends
<1>10. QED
  BY <1>2, <1>4, <1>5, <1>7, <1>8, <1>9 DEF d, n, e

LEMMA AppendKeeps == ASSUME LoopInv, NEW l \in Loops, Loop!Append_(l) PROVE LoopInv'
<1> DEFINE d == loops[l].decisions
           n == Len(d)
           e == Loop!EntryOf(l)
           p == loops[l].proposal
<1>1. loops[l].at = "writing" /\ file' = Append(file, e) /\ alone' = alone
  BY DEF Loop!Append_, Loop!Write
<1>2. /\ p \in Proposals /\ d \in Seq(Loop!Decided) /\ n \in 1..3
      /\ Loop!Last(d) = d[n] /\ e \in Seq(Loop!Decided)
      /\ \A i \in 1..n : Standing(p, i, d[i])
      /\ GoesOn(d, n - 1) /\ Ends(e, d, n)
      /\ FileOK(file') /\ Holds(file', e)
      /\ \A k : Holds(file, k) => Holds(file', k)
      /\ Loop!LastEntry(file') = e
      /\ alone => Loop!Verifies(file') /\ \A k \in Loops : k # l => loops[k].at = "closed"
  BY <1>1, Entry
<1>3. CASE Loop!Last(d).outcome \in Loop!Endings \/ n = Len(Loop!Authorities)
  <2> DEFINE q == [at |-> "open", journal |-> e, proposal |-> None, decisions |-> <<>>]
  <2>1. loops' = [loops EXCEPT ![l] = q] /\ Loop!Complete(l)
    BY <1>3 DEF Loop!Append_, Loop!Become
  <2>2. RunOK(q)
    BY <1>2 DEF RunOK, RunTyped, Journaled, GoesOn, Ends
  <2>3. q.journal = e
    OBVIOUS
  <2>4. ASSUME NEW o \in Loop!Endings \cup {"approved"}, o \in Loop!Endings => d[n].outcome = o,
               o = "approved" => n = 3 /\ d[n].outcome \notin Loop!Endings /\ Loop!Escalated(l)
        PROVE  ResultOK(Loop!Result(l, o), file')
    <3> DEFINE r == Loop!Result(l, o)
    <3>1. r.proposal = p /\ r.decisions = d /\ r.outcome = o /\ r.journal = e
      BY DEF Loop!Result
    <3>2. r \in [proposal : Proposals, decisions : Seq(Loop!Decided), outcome : Loop!Endings \cup {"approved"},
                 journal : Seq(Loop!Decided)]
      BY <1>2 DEF Loop!Result
    <3>3. o = "approved" => (p \in Escalating => d[2].outcome = "escalated")
      BY <2>4 DEF Loop!Escalated
    <3> HIDE DEF r, d, e, p
    <3>4. QED
      BY <1>2, <2>4, <3>1, <3>2, <3>3 DEF ResultOK, r
  <2>5. \A r \in results' : ResultOK(r, file')
    <3>1. CASE d[n].outcome \in Loop!Endings
      <4>1. d[n].outcome # "approved" /\ results' = {Loop!Result(l, d[n].outcome)}
        BY <1>2, <2>1, <3>1 DEF Loop!Complete, Loop!Endings
      <4>2. ResultOK(Loop!Result(l, d[n].outcome), file')
        BY <2>4, <3>1, <4>1
      <4>3. QED
        BY <4>1, <4>2
    <3>2. CASE d[n].outcome \notin Loop!Endings
      <4>1. n = 3
        BY <1>2, <1>3, <3>2, AuthoritiesOf
      <4>2. results' = IF Loop!Escalated(l) THEN {Loop!Result(l, "approved")} ELSE {}
        BY <1>2, <2>1, <3>2 DEF Loop!Complete
      <4>3. "approved" \notin Loop!Endings
        BY DEF Loop!Endings
      <4>4. QED
        BY <2>4, <3>2, <4>1, <4>2, <4>3
    <3>3. QED
      BY <3>1, <3>2
  <2> HIDE DEF q, d, e, p
  <2>6. QED
    BY <1>1, <1>2, <2>1, <2>2, <2>3, <2>5, Becomes
<1>4. CASE ~(Loop!Last(d).outcome \in Loop!Endings \/ n = Len(Loop!Authorities))
  <2> DEFINE q == [at |-> "deciding", journal |-> e, proposal |-> p, decisions |-> d]
  <2>1. loops' = [loops EXCEPT ![l] = q] /\ results' = {}
    BY <1>4 DEF Loop!Append_, Loop!Become
  <2>2. RunTyped(q) /\ Journaled(q) = n /\ q.at = "deciding" /\ q.journal = e /\ q.decisions = d /\ q.proposal = p
    BY <1>2 DEF RunTyped, Journaled
  <2> HIDE DEF q, d, e, p
  <2>3. GoesOn(d, n) /\ n \in 0..2
    BY <1>2, <1>4, AuthoritiesOf DEF GoesOn
  <2>4. RunOK(q)
    BY <1>2, <2>2, <2>3 DEF RunOK
  <2>5. QED
    BY <1>1, <1>2, <2>1, <2>2, <2>4, Becomes
<1>5. QED
  BY <1>3, <1>4

LEMMA CloseKeeps == ASSUME LoopInv, NEW l \in Loops, Loop!Close(l) PROVE LoopInv'
<1>1. loops' = [loops EXCEPT ![l] = Loop!Closed] /\ alone' = alone /\ results' = {} /\ loops[l].at # "closed"
  BY DEF Loop!Close
<1>2. RunOK(Loop!Closed) /\ Loop!Closed.journal = <<>> /\ Loop!Closed.at = "closed"
  BY DEF RunOK, RunTyped, Loop!Closed, Journaled, GoesOn, Ends
<1>3. FileOK(file) /\ (alone => Loop!Verifies(file) /\ \A k \in Loops : k # l => loops[k].at = "closed")
  BY <1>1, OthersAreClosed DEF LoopInv
<1>4. CASE file' = file
  BY <1>1, <1>2, <1>3, <1>4, Becomes
<1>5. CASE file' # file
  <2>1. loops[l].at = "writing" /\ file' = Append(file, Loop!EntryOf(l))
    BY <1>5 DEF Loop!Close
  <2>2. /\ FileOK(file') /\ \A k : Holds(file, k) => Holds(file', k)
        /\ alone => Loop!Verifies(file') /\ \A k \in Loops : k # l => loops[k].at = "closed"
    BY <2>1, Entry
  <2>3. QED
    BY <1>1, <1>2, <2>2, Becomes
<1>6. QED
  BY <1>4, <1>5

LEMMA LoopStep == ASSUME LoopInv, [Loop!Next]_loopVars PROVE LoopInv'
<1>1. CASE UNCHANGED loopVars
  BY <1>1 DEF loopVars, LoopInv, AloneOK
<1>2. CASE Loop!Next
  BY <1>2, OpenKeeps, RunKeeps, DecideKeeps, AppendKeeps, CloseKeeps DEF Loop!Next
<1>3. QED
  BY <1>1, <1>2

(* What the results of the runs are worth.                                 *)
LEMMA Least == ASSUME NEW S \in SUBSET Nat, S # {} PROVE \E m \in S : \A n \in S : m <= n
<1>1. PICK x \in S : TRUE
  OBVIOUS
<1>2. \E m \in S : \A n \in S : ~(n < m)
  <2> DEFINE R == OpToRel(<, Nat)
  <2>1. IsWellFoundedOn(R, Nat)
    BY NatLessThanWellFounded
  <2>2. \E m \in S : \A n \in S : ~(<<n, m>> \in R)
    <3> HIDE DEF R
    <3> QED
      BY <2>1, <1>1, WFMin
  <2>3. QED
    BY <2>2 DEF OpToRel
<1>3. QED
  BY <1>2

LEMMA FirstOf ==
  ASSUME NEW S, file \in Seq(S), NEW x, Holds(file, x)
  PROVE  /\ Loop!LineOf(x) \in DOMAIN file /\ file[Loop!LineOf(x)] = x
         /\ \A i \in DOMAIN file : file[i] = x => Loop!LineOf(x) <= i
<1> DEFINE I == {i \in 1..Len(file) : file[i] = x}
           a == Loop!LineOf(x)
<1>1. DOMAIN file = 1..Len(file) /\ Len(file) \in Nat
  OBVIOUS
<1>2. I # {} /\ I \in SUBSET Nat
  BY <1>1 DEF Holds
<1>3. a = Loop!Min(I)
  BY <1>2 DEF Loop!SelectInSeq, Loop!LineOf
<1> HIDE DEF I
<1>4. PICK m \in I : \A n \in I : m <= n
  BY <1>2, Least
<1>5. Loop!Min(I) \in I /\ \A n \in I : Loop!Min(I) <= n
  BY <1>4 DEF Loop!Min
<1> HIDE DEF a
<1>6. a \in I /\ \A n \in I : a <= n
  BY <1>3, <1>5
<1>7. QED
  BY <1>1, <1>6 DEF I, a

LEMMA ByElements ==
  ASSUME NEW S, NEW s \in Seq(S), NEW t \in Seq(S), Len(s) <= Len(t), \A i \in 1..Len(s) : s[i] = t[i]
  PROVE  Loop!IsPrefix(s, t)
<1>1. Len(s) \in Nat /\ Len(t) \in Nat
  OBVIOUS
<1>2. /\ SubSeq(s, 1, Len(s)) \in Seq(S) /\ Len(SubSeq(s, 1, Len(s))) = Len(s)
      /\ \A i \in 1..Len(s) : SubSeq(s, 1, Len(s))[i] = s[i]
  BY <1>1, SubSeqProperties
<1>3. /\ SubSeq(t, 1, Len(s)) \in Seq(S) /\ Len(SubSeq(t, 1, Len(s))) = Len(s)
      /\ \A i \in 1..Len(s) : SubSeq(t, 1, Len(s))[i] = t[i]
  <2>1. \A i \in 1..Len(s) : t[i] \in S
    BY <1>1
  <2>2. QED
    BY <1>1, <2>1, SubSeqProperties
<1>4. SubSeq(s, 1, Len(s)) = SubSeq(t, 1, Len(s))
  BY <1>2, <1>3, SeqEqual
<1>5. QED
  BY <1>4 DEF Loop!IsPrefix

LEMMA Backwards ==
  ASSUME NEW S, NEW s \in Seq(S)
  PROVE  /\ Loop!Reverse(s) \in Seq(S) /\ Len(Loop!Reverse(s)) = Len(s)
         /\ \A i \in 1..Len(s) : Loop!Reverse(s)[i] = s[Len(s) - i + 1]
<1>1. Len(s) \in Nat
  OBVIOUS
<1>2. \A i \in 1..Len(s) : s[(Len(s) - i) + 1] \in S
  BY <1>1
<1>3. QED
  BY <1>1, <1>2, IsASeq DEF Loop!Reverse

LEMMA EndsAreSuffixes ==
  ASSUME NEW S, NEW j \in Seq(S), NEW d \in Seq(S), Ends(j, d, Len(d))
  PROVE  Loop!IsSuffix(d, j)
<1> DEFINE k == Len(d)  n == Len(j)  b == Loop!Reverse(d)  c == Loop!Reverse(j)
<1>1. k \in Nat /\ n \in Nat /\ k <= n
  BY DEF Ends
<1>2. b \in Seq(S) /\ Len(b) = k /\ \A i \in 1..k : b[i] = d[k - i + 1]
  BY Backwards
<1>3. c \in Seq(S) /\ Len(c) = n /\ \A i \in 1..n : c[i] = j[n - i + 1]
  BY Backwards
<1>4. \A i \in 1..k : j[n - k + i] = d[i]
  BY DEF Ends
<1> HIDE DEF k, n, b, c
<1>5. ASSUME NEW i \in 1..k PROVE b[i] = c[i]
  <2>1. k - i + 1 \in 1..k /\ i \in 1..n /\ n - k + (k - i + 1) = n - i + 1
    BY <1>1
  <2>2. j[n - k + (k - i + 1)] = d[k - i + 1]
    BY <1>4, <2>1
  <2>3. QED
    BY <1>2, <1>3, <2>1, <2>2
<1>6. Loop!IsPrefix(b, c)
  BY <1>1, <1>2, <1>3, <1>5, ByElements
<1>7. QED
  BY <1>6 DEF Loop!IsSuffix, b, c

LEMMA ResultChecks ==
  ASSUME NEW r, NEW f, ResultOK(r, f)
  PROVE  /\ Loop!Checks(r)
         /\ \A i \in DOMAIN r.decisions : r.decisions[i].durable /\ r.decisions[i].proposal = r.proposal
         /\ r.outcome = "approved" /\ r.proposal \in Escalating => r.decisions[2].outcome = "escalated"
<1> DEFINE d == r.decisions  k == Len(d)  A == {"awq", "awg", "ui"}
           names == [i \in DOMAIN d |-> d[i].authority]
           outcomes == {d[i].outcome : i \in DOMAIN d}
<1>1. d \in Seq(Loop!Decided) /\ k \in 1..3 /\ r.journal \in Seq(Loop!Decided)
  BY DEF ResultOK
<1>2. DOMAIN d = 1..k /\ Loop!Last(d) = d[k] /\ d # <<>> /\ k \in DOMAIN d
  <2>1. DOMAIN d = 1..k /\ Loop!Last(d) = d[k]
    BY <1>1 DEF Loop!Last
  <2>2. d # <<>>
    <3>1. Len(<<>>) \notin 1..3
      OBVIOUS
    <3>2. QED
      BY <1>1, <3>1
  <2>3. k \in 1..k
    <3> HIDE DEF k
    <3> QED
      BY <1>1
  <2>4. QED
    BY <2>1, <2>2, <2>3
<1>3. \A i \in 1..k : Standing(r.proposal, i, d[i])
  BY DEF ResultOK
<1>4. Loop!Authorities \in Seq(A) /\ Len(Loop!Authorities) = 3 /\ \A i \in 1..3 : Loop!Authorities[i] \in A
  BY DEF Loop!Authorities
<1>5. names \in Seq(A) /\ Len(names) = k /\ \A i \in 1..k : names[i] = Loop!Authorities[i]
  <2>1. \A i \in 1..k : d[i].authority = Loop!Authorities[i] /\ i \in 1..3
    BY <1>1, <1>3 DEF Standing
  <2>2. \A i \in 1..k : names[i] = Loop!Authorities[i] /\ names[i] \in A
    BY <1>2, <1>4, <2>1
  <2>3. names = [i \in 1..k |-> names[i]] /\ k \in Nat
    BY <1>1, <1>2
  <2> HIDE DEF names, k, A
  <2>4. QED
    BY <2>2, <2>3, IsASeq
<1>6. Loop!IsPrefix(names, Loop!Authorities)
  <2> HIDE DEF names, k, A
  <2> QED
    BY <1>1, <1>4, <1>5, ByElements
<1>7. Loop!IsSuffix(d, r.journal)
  BY <1>1, EndsAreSuffixes DEF ResultOK
<1>8. ASSUME r.outcome = "approved"
      PROVE  names = Loop!Authorities /\ d[k].outcome = "approved" /\ outcomes \cap Loop!Endings = {}
             /\ (r.proposal \in Escalating => d[2].outcome = "escalated")
  <2>1. k = 3 /\ d[3].outcome \notin Loop!Endings /\ (r.proposal \in Escalating => d[2].outcome = "escalated")
        /\ GoesOn(d, k - 1)
    BY <1>8 DEF ResultOK
  <2>2. names = Loop!Authorities
    <3> HIDE DEF names, k, A
    <3> QED
      BY <2>1, <1>4, <1>5, SeqEqual
  <2>3. d[3].outcome \in Loop!Allowed["ui"]
    BY <2>1, <1>3 DEF Standing, Loop!Authorities
  <2>4. d[3].outcome = "approved"
    BY <2>1, <2>3 DEF Loop!Allowed, Loop!Endings
  <2>5. \A i \in 1..3 : d[i].outcome \notin Loop!Endings
    BY <2>1 DEF GoesOn
  <2>6. QED
    BY <1>2, <2>1, <2>2, <2>4, <2>5
<1>9. r.outcome \in Loop!Endings => d[k].outcome = r.outcome
  BY DEF ResultOK
<1>10. r.outcome = "rejected" => "rejected" \in outcomes
  BY <1>2, <1>9 DEF Loop!Endings
<1>11. r.outcome = "cancelled" => d[k].outcome = "cancelled"
  BY <1>9 DEF Loop!Endings
<1>12. \A i \in DOMAIN d : d[i].durable /\ d[i].proposal = r.proposal
  BY <1>2, <1>3, Zenon DEF Standing
<1>13. Loop!Checks(r)
  BY <1>2, <1>6, <1>7, <1>8, <1>10, <1>11 DEF Loop!Checks
<1>14. QED
  BY <1>8, <1>12, <1>13

(* Each decision of a result, from the first on, ends a line of the file.  *)
LEMMA PrefixIsBefore ==
  ASSUME NEW f, FileOK(f), NEW j \in Seq(Loop!Decided), NEW m \in 2..Len(j),
         NEW a \in DOMAIN f, f[a] = SubSeq(j, 1, m)
  PROVE  \E b \in DOMAIN f : b < a /\ f[b] = SubSeq(j, 1, m - 1)
<1>1. f \in Seq(Seq(Loop!Decided)) /\ DOMAIN f = 1..Len(f) /\ Len(f) \in Nat /\ Len(j) \in Nat
  BY DEF FileOK
<1>2. /\ f[a] \in Seq(Loop!Decided) /\ Len(f[a]) = m /\ \A i \in 1..m : f[a][i] = j[i]
  <2>1. m \in Nat /\ \A i \in 1..m : j[i] \in Loop!Decided
    BY <1>1
  <2>2. QED
    BY <2>1, SubSeqProperties
<1>3. /\ SubSeq(j, 1, m - 1) \in Seq(Loop!Decided) /\ Len(SubSeq(j, 1, m - 1)) = m - 1
      /\ \A i \in 1..(m - 1) : SubSeq(j, 1, m - 1)[i] = j[i]
  <2>1. m - 1 \in Nat /\ 1 <= m - 1 /\ \A i \in 1..(m - 1) : j[i] \in Loop!Decided
    BY <1>1
  <2>2. QED
    BY <2>1, SubSeqProperties
<1>4. /\ SubSeq(f[a], 1, m - 1) \in Seq(Loop!Decided) /\ Len(SubSeq(f[a], 1, m - 1)) = m - 1
      /\ \A i \in 1..(m - 1) : SubSeq(f[a], 1, m - 1)[i] = j[i]
  <2>1. m - 1 \in Nat /\ 1 <= m - 1 /\ \A i \in 1..(m - 1) : f[a][i] \in Loop!Decided /\ f[a][i] = j[i]
    BY <1>1, <1>2
  <2>2. QED
    BY <2>1, SubSeqProperties
<1>5. Loop!Front(f[a]) = SubSeq(j, 1, m - 1)
  <2>1. SubSeq(f[a], 1, m - 1) = SubSeq(j, 1, m - 1)
    BY <1>3, <1>4, SeqEqual
  <2>2. QED
    BY <1>2, <2>1 DEF Loop!Front
<1>6. PICK b \in 1..(a - 1) : f[b] = Loop!Front(f[a])
  <2>1. Len(f[a]) > 1
    <3>1. m > 1
      BY <1>1
    <3>2. QED
      BY <1>2, <3>1
  <2>2. Chained(f)
    BY DEF FileOK
  <2>3. QED
    BY <2>1, <2>2 DEF Chained
<1>7. b \in DOMAIN f /\ b < a
  BY <1>1, <1>6
<1>8. QED
  BY <1>5, <1>6, <1>7

LEMMA ResultIsJournaled ==
  ASSUME NEW r, FileOK(file), ResultOK(r, file)
  PROVE  LET n     == Len(r.journal)
             k     == Len(r.decisions)
             At(i) == Loop!LineOf(SubSeq(r.journal, 1, n - k + i)) IN
         \A i \in 1..k : At(i) > 0 /\ (i > 1 => At(i) > At(i - 1))
<1> DEFINE j == r.journal
           n == Len(j)
           k == Len(r.decisions)
           Place(m) == Loop!LineOf(SubSeq(j, 1, m))
<1>1. j \in Seq(Loop!Decided) /\ n \in Nat /\ k \in 1..3 /\ k <= n /\ Holds(file, j)
  BY DEF ResultOK, Ends
<1>2. file \in Seq(Seq(Loop!Decided)) /\ DOMAIN file = 1..Len(file) /\ Len(file) \in Nat
  BY DEF FileOK
<1>3. SubSeq(j, 1, n) = j
  BY <1>1, SubSeqFull
<1> HIDE DEF k
<1>4. ASSUME NEW m \in 2..n, Holds(file, SubSeq(j, 1, m)) PROVE Holds(file, SubSeq(j, 1, m - 1))
  BY <1>1, <1>4, PrefixIsBefore DEF Holds
<1> HIDE DEF n, j
<1>5. \A i \in 1..k : Holds(file, SubSeq(j, 1, n - k + i))
  <2>1. Holds(file, SubSeq(j, 1, n))
    BY <1>1, <1>3
  <2>2. n \in 2..n => Holds(file, SubSeq(j, 1, n - 1))
    BY <1>4, <2>1
  <2>3. n - 1 \in 2..n => Holds(file, SubSeq(j, 1, (n - 1) - 1))
    BY <1>1, <1>4, <2>2
  <2>4. ASSUME NEW i \in 1..k PROVE Holds(file, SubSeq(j, 1, n - k + i))
    <3>1. CASE i = k
      <4>1. n - k + i = n
        BY <1>1, <3>1
      <4>2. QED
        BY <2>1, <4>1
    <3>2. CASE i = k - 1
      <4>1. n - k + i = n - 1 /\ n \in 2..n
        BY <1>1, <3>2
      <4>2. QED
        BY <2>2, <4>1
    <3>3. CASE i = k - 2
      <4>1. n - k + i = (n - 1) - 1 /\ n - 1 \in 2..n
        BY <1>1, <3>3
      <4>2. QED
        BY <2>3, <4>1
    <3>4. QED
      BY <1>1, <3>1, <3>2, <3>3
  <2>5. QED
    BY <2>4
<1>6. \A i \in 1..k :
        /\ Place(n - k + i) \in DOMAIN file /\ file[Place(n - k + i)] = SubSeq(j, 1, n - k + i)
        /\ \A b \in DOMAIN file : file[b] = SubSeq(j, 1, n - k + i) => Place(n - k + i) <= b
  BY <1>2, <1>5, FirstOf
<1> HIDE DEF Place
<1>7. ASSUME NEW i \in 1..k PROVE Place(n - k + i) > 0 /\ (i > 1 => Place(n - k + i) > Place(n - k + (i - 1)))
  <2>1. Place(n - k + i) \in DOMAIN file /\ file[Place(n - k + i)] = SubSeq(j, 1, n - k + i)
    BY <1>6
  <2>2. ASSUME i > 1 PROVE Place(n - k + i) > Place(n - k + (i - 1))
    <3>1. n - k + i \in 2..n /\ (n - k + i) - 1 = n - k + (i - 1) /\ i - 1 \in 1..k
      BY <1>1, <2>2
    <3>2. PICK b \in DOMAIN file : b < Place(n - k + i) /\ file[b] = SubSeq(j, 1, (n - k + i) - 1)
      BY <1>1, <2>1, <3>1, PrefixIsBefore DEF n
    <3>3. Place(n - k + (i - 1)) \in DOMAIN file /\ Place(n - k + (i - 1)) <= b
      BY <1>6, <3>1, <3>2
    <3>4. QED
      BY <1>2, <2>1, <3>2, <3>3
  <2>3. QED
    BY <1>2, <2>1, <2>2
<1>8. QED
  BY <1>7 DEF Place, n, k, j

LEMMA LoopMeans ==
  ASSUME LoopInv
  PROVE  Loop!TypeOK /\ Loop!ResultsCheck /\ Loop!ResultsAreJournaled /\ Loop!AloneTheJournalVerifies
<1>1. Loop!TypeOK
  <2>1. loops \in [Loops -> [at : {"closed", "open", "deciding", "writing"}, journal : Seq(Loop!Decided),
                             proposal : Proposals \cup {None}, decisions : Seq(Loop!Decided)]]
    BY DEF LoopInv, RunOK, RunTyped
  <2>2. \A l \in Loops : /\ loops[l].at \in {"deciding", "writing"} <=> loops[l].proposal \in Proposals
                         /\ Len(loops[l].decisions) <= Len(Loop!Authorities)
    <3> SUFFICES ASSUME NEW l \in Loops
                 PROVE  /\ loops[l].at \in {"deciding", "writing"} <=> loops[l].proposal \in Proposals
                        /\ Len(loops[l].decisions) <= 3
      BY AuthoritiesOf
    <3>1. RunOK(loops[l])
      BY DEF LoopInv
    <3>2. CASE loops[l].at \in {"closed", "open"}
      BY <3>1, <3>2, LoopAssumption DEF RunOK, Loop!ProposalAssumption
    <3>3. CASE loops[l].at \in {"deciding", "writing"}
      BY <3>1, <3>3 DEF RunOK
    <3>4. QED
      BY <3>1, <3>2, <3>3 DEF RunOK, RunTyped
  <2>3. results \subseteq [proposal : Proposals, decisions : Seq(Loop!Decided),
                           outcome : Loop!Endings \cup {"approved"}, journal : Seq(Loop!Decided)]
    BY DEF LoopInv, ResultOK
  <2>4. file \in Seq(Seq(Loop!Decided)) /\ alone \in BOOLEAN /\ \A i \in DOMAIN file : Len(file[i]) \in 1..i
    BY DEF LoopInv, FileOK
  <2>5. QED
    BY <2>1, <2>2, <2>3, <2>4 DEF Loop!TypeOK
<1>2. Loop!ResultsCheck
  BY ResultChecks DEF LoopInv, Loop!ResultsCheck
<1>3. Loop!ResultsAreJournaled
  BY ResultIsJournaled DEF LoopInv, Loop!ResultsAreJournaled
<1>4. Loop!AloneTheJournalVerifies
  BY DEF LoopInv, AloneOK, Loop!AloneTheJournalVerifies
<1>5. QED
  BY <1>1, <1>2, <1>3, <1>4

---------------------------------------------------------------------------
(* Theorems of the four side by side: an invariant of a part holds while   *)
(* that part is in use, and what is not in use stays as it began.          *)

LEMMA PartsBegin == ASSUME MCInit PROVE LoopInv /\ JobInv /\ RecordInv
BY LoopBegins, JobBegins, RecordBegins DEF MCInit

LEMMA PartsStep ==
  ASSUME [MCNext]_MCVars
  PROVE  /\ [Loop!Next]_loopVars /\ [Interaction!Next]_modelVars /\ [Human!Next]_humanVars
         /\ inUse' = inUse
BY DEF MCNext, MCVars, loopVars, modelVars, humanVars

LEMMA PartsKeep ==
  ASSUME LoopInv /\ JobInv /\ RecordInv, [MCNext]_MCVars
  PROVE  (LoopInv /\ JobInv /\ RecordInv)' /\ Interaction!UserDecision
BY PartsStep, LoopStep, JobStep, RecordStep

LEMMA BridgesAsSuch == MCSpec => Spec
<1>1. MCInit => Init
  BY DEF MCInit
<1>2. [MCNext]_MCVars => [Next]_vars
  BY DEF MCNext, MCVars
<1>3. QED
  BY <1>1, <1>2, PTL DEF MCSpec, Spec

(* A result of a control loop passes the check of its caller: it is about  *)
(* the proposal, by the authorities in their order, escalated where that   *)
(* was asked, and every decision it rests on is a line of the file, in the *)
(* order they were taken, whatever other loops wrote in between.           *)
THEOREM ResultsHold == MCSpec => []ResultsAreChecked
<1> DEFINE Inv == LoopInv /\ JobInv /\ RecordInv
<1>1. MCInit => Inv
  BY PartsBegin
<1>2. Inv /\ [MCNext]_MCVars => Inv'
  BY PartsKeep
<1>3. Inv => ResultsAreChecked
  BY LoopMeans DEF ResultsAreChecked
<1>4. QED
  BY <1>1, <1>2, <1>3, PTL DEF MCSpec

(* What is completed was accepted by the quality authority and no gate is  *)
(* open; an accepted record of a gate rests on an input that was given.    *)
THEOREM AcceptanceHolds == MCSpec => []AcceptanceIsGrounded
<1> DEFINE Inv == LoopInv /\ JobInv /\ RecordInv
<1>1. MCInit => Inv
  BY PartsBegin
<1>2. Inv /\ [MCNext]_MCVars => Inv'
  BY PartsKeep
<1>3. Inv => AcceptanceIsGrounded
  BY JobMeans DEF AcceptanceIsGrounded, RecordInv
<1>4. QED
  BY <1>1, <1>2, <1>3, PTL DEF MCSpec

(* No decision is taken back, by an authority or by a bridge that learnt   *)
(* it, and an open change of the user's is closed by the user's approval.  *)
THEOREM DecisionsHold == MCSpec => DecisionsStand
<1> DEFINE Inv == LoopInv /\ JobInv /\ RecordInv
<1>1. MCInit => Inv
  BY PartsBegin
<1>2. Inv /\ [MCNext]_MCVars => Inv'
  BY PartsKeep
<1>3. Inv /\ [MCNext]_MCVars => [Interaction!UserDecision]_modelVars
  BY PartsKeep
<1>4. MCSpec => [][Interaction!UserDecision]_modelVars
  BY <1>1, <1>2, <1>3, PTL DEF MCSpec
<1>5. MCSpec => DecisionsAreFinal
  BY BridgesAsSuch, DecisionsAreKept
<1>6. QED
  BY <1>4, <1>5 DEF DecisionsStand, Interaction!UserDecidesTheUsers, Interaction!vars, modelVars, Interaction!gates
===========================================================================
