--------------------- MODULE DurableCoordinatorProofs ---------------------
(***************************************************************************)
(* Machine-checked proofs about the durable Coordinator: its types, the    *)
(* once-only application of operations, the order of fences, and that the  *)
(* terms of two leases never overlap.  They hold for any number of         *)
(* workers, sessions and operation ids and for any lease length.           *)
(***************************************************************************)
EXTENDS DurableCoordinator, TLAPS

OpKinds == {"claim", "lease", "recover", "heartbeat", "event", "reconcile"}

---------------------------------------------------------------------------
(* The data of the authority.                                              *)

LEMMA NoLeaseType == NoLease \in Leases
BY DEF NoLease, Leases, Owners, SessionsOrNone

LEMMA NoneRequestType == ClaimRequest(0, None) \in Requests
BY NoLeaseType DEF ClaimRequest, Request, Requests, Owners, SessionsOrNone

(* The callers send well-typed requests when what they know is well-typed. *)
LEMMA CallsOfType ==
  ASSUME TypeOK, NEW w \in Workers, NEW req \in CallsOf(w)
  PROVE  req \in Requests
<1>1. known[w].revision \in Nat /\ known[w].lease \in Leases
  BY DEF TypeOK
<1>2. w \in Owners /\ None \in Owners /\ None \in SessionsOrNone
  BY DEF Owners, SessionsOrNone
<1>3. CASE req = ClaimRequest(known[w].revision, w)
  BY <1>1, <1>2, <1>3, NoLeaseType DEF ClaimRequest, Request, Requests
<1>4. ASSUME NEW s \in Sessions,
             \/ req = LeaseRequest(known[w].revision, w, s)
             \/ req = RecoverRequest(known[w].revision, w, s)
      PROVE  req \in Requests
  <2>1. s \in SessionsOrNone
    BY DEF SessionsOrNone
  <2>2. QED
    BY <1>1, <1>2, <1>4, <2>1, NoLeaseType DEF LeaseRequest, RecoverRequest, Request, Requests
<1>5. CASE req = HeartbeatRequest(known[w].revision, known[w].lease)
  BY <1>1, <1>2, <1>5 DEF HeartbeatRequest, Request, Requests
<1>6. ASSUME NEW s \in Sessions, req = EventRequest(known[w].revision, known[w].lease, s, "event")
      PROVE  req \in Requests
  <2>1. s \in SessionsOrNone
    BY DEF SessionsOrNone
  <2>2. QED
    BY <1>1, <1>2, <1>6, <2>1 DEF EventRequest, Request, Requests
<1>7. ASSUME NEW st \in Terminal, req = ReconcileRequest(known[w].revision, known[w].lease, st)
      PROVE  req \in Requests
  BY <1>1, <1>2, <1>7 DEF ReconcileRequest, Request, Requests
<1>8. QED
  BY <1>3, <1>4, <1>5, <1>6, <1>7 DEF CallsOf

(* Each request kind selects its own effect.                               *)
LEMMA EffectCases ==
  ASSUME NEW t, NEW req, NEW now
  PROVE  /\ req.op = "claim" => Effect(t, req, now) = Claimed(t, req.owner)
         /\ req.op \in {"lease", "recover"} =>
              Effect(t, req, now) = Granted(t, req.owner, req.session, now)
         /\ req.op = "heartbeat" => Effect(t, req, now) = Renewed(t, now)
         /\ req.op = "event" => Effect(t, req, now) = Logged(t)
         /\ req.op = "reconcile" => Effect(t, req, now) = Reconciled(t, req.arg)
BY DEF Effect

(* Each effect keeps the type of the task record: one field at a time.     *)
LEMMA ClaimedType ==
  ASSUME NEW t \in Tasks, NEW o \in Owners
  PROVE  Claimed(t, o) \in Tasks
<1> DEFINE u == [t EXCEPT !.revision = @ + 1]
           v == [u EXCEPT !.status = "claimed"]
<1>1. u \in Tasks
  BY DEF Tasks
<1>2. v \in Tasks
  BY <1>1 DEF Tasks, Status
<1>3. [v EXCEPT !.owner = o] \in Tasks
  BY <1>2 DEF Tasks
<1>4. Claimed(t, o) = [v EXCEPT !.owner = o]
  BY DEF Claimed, Tasks
<1>5. QED
  BY <1>3, <1>4

LEMMA GrantedType ==
  ASSUME NEW t \in Tasks, NEW o \in Owners, NEW s \in SessionsOrNone, NEW now \in Nat
  PROVE  /\ NewLease(o, s, t.fence + 1, now) \in Leases
         /\ Granted(t, o, s, now) \in Tasks
<1> DEFINE lease == NewLease(o, s, t.fence + 1, now)
           u == [t EXCEPT !.revision = @ + 1]
           v == [u EXCEPT !.status = "running"]
           x == [v EXCEPT !.owner = o]
           y == [x EXCEPT !.fence = t.fence + 1]
<1>1. lease \in Leases
  BY LeaseSecondsAssumption DEF NewLease, Leases, Tasks
<1>2. u \in Tasks
  BY DEF Tasks
<1>3. v \in Tasks
  BY <1>2 DEF Tasks, Status
<1>4. x \in Tasks
  BY <1>3 DEF Tasks
<1>5. y \in Tasks
  <2>1. t.fence + 1 \in Nat
    BY DEF Tasks
  <2>2. QED
    BY <1>4, <2>1 DEF Tasks
<1>6. [y EXCEPT !.lease = lease] \in Tasks
  BY <1>1, <1>5 DEF Tasks
<1>7. Granted(t, o, s, now) = [y EXCEPT !.lease = lease]
  BY DEF Granted, Tasks
<1>8. QED
  BY <1>1, <1>6, <1>7

LEMMA RenewedType ==
  ASSUME NEW t \in Tasks, NEW now \in Nat
  PROVE  Renewed(t, now) \in Tasks
<1> DEFINE lease == [t.lease EXCEPT !.expires = now + LeaseSeconds]
           u == [t EXCEPT !.revision = @ + 1]
<1>1. lease \in Leases
  BY LeaseSecondsAssumption DEF Leases, Tasks
<1>2. u \in Tasks
  BY DEF Tasks
<1>3. [u EXCEPT !.lease = lease] \in Tasks
  BY <1>1, <1>2 DEF Tasks
<1>4. Renewed(t, now) = [u EXCEPT !.lease = lease]
  BY DEF Renewed, Tasks
<1>5. QED
  BY <1>3, <1>4

LEMMA ReconciledType ==
  ASSUME NEW t \in Tasks, NEW st \in Terminal
  PROVE  Reconciled(t, st) \in Tasks
<1> DEFINE u == [t EXCEPT !.revision = @ + 1]
           v == [u EXCEPT !.status = st]
           x == [v EXCEPT !.owner = None]
<1>1. u \in Tasks
  BY DEF Tasks
<1>2. v \in Tasks
  BY <1>1 DEF Tasks, Status
<1>3. x \in Tasks
  BY <1>2 DEF Tasks, Owners
<1>4. [x EXCEPT !.lease = NoLease] \in Tasks
  BY <1>3, NoLeaseType DEF Tasks
<1>5. Reconciled(t, st) = [x EXCEPT !.lease = NoLease]
  BY DEF Reconciled, Tasks
<1>6. QED
  BY <1>4, <1>5

(* The fields of the task record after each kind of request.               *)
LEMMA ClaimedFields ==
  ASSUME NEW t \in Tasks, NEW o
  PROVE  /\ Claimed(t, o).revision = t.revision + 1 /\ Claimed(t, o).fence = t.fence
         /\ Claimed(t, o).status = "claimed" /\ Claimed(t, o).lease = t.lease
BY DEF Claimed, Tasks

LEMMA GrantedFields ==
  ASSUME NEW t \in Tasks, NEW o, NEW s, NEW now
  PROVE  /\ Granted(t, o, s, now).revision = t.revision + 1
         /\ Granted(t, o, s, now).fence = t.fence + 1
         /\ Granted(t, o, s, now).status = "running"
         /\ Granted(t, o, s, now).lease = NewLease(o, s, t.fence + 1, now)
BY DEF Granted, Tasks

LEMMA RenewedFields ==
  ASSUME NEW t \in Tasks, NEW now
  PROVE  /\ Renewed(t, now).revision = t.revision + 1 /\ Renewed(t, now).fence = t.fence
         /\ Renewed(t, now).status = t.status
         /\ Renewed(t, now).lease = [t.lease EXCEPT !.expires = now + LeaseSeconds]
BY DEF Renewed, Tasks

LEMMA LoggedFields ==
  ASSUME NEW t \in Tasks
  PROVE  /\ Logged(t).revision = t.revision + 1 /\ Logged(t).fence = t.fence
         /\ Logged(t).status = t.status /\ Logged(t).lease = t.lease
BY DEF Logged, Tasks

LEMMA ReconciledFields ==
  ASSUME NEW t \in Tasks, NEW st
  PROVE  /\ Reconciled(t, st).revision = t.revision + 1 /\ Reconciled(t, st).fence = t.fence
         /\ Reconciled(t, st).status = st /\ Reconciled(t, st).lease = NoLease
BY DEF Reconciled, Tasks

(* An accepted request takes a well-typed task to a well-typed task.       *)
LEMMA EffectType ==
  ASSUME NEW t \in Tasks, NEW req \in Requests, NEW now \in Nat, Accepts(t, req, now)
  PROVE  Effect(t, req, now) \in Tasks
<1>1. req.owner \in Owners /\ req.session \in SessionsOrNone /\ req.op \in OpKinds
  BY DEF Requests, OpKinds
<1>2. CASE req.op = "claim"
  BY <1>1, <1>2, EffectCases, ClaimedType
<1>3. CASE req.op \in {"lease", "recover"}
  BY <1>1, <1>3, EffectCases, GrantedType
<1>4. CASE req.op = "heartbeat"
  BY <1>4, EffectCases, RenewedType
<1>5. CASE req.op = "event"
  <2>1. Logged(t) \in Tasks
    BY DEF Logged, Tasks
  <2>2. QED
    BY <1>5, <2>1, EffectCases
<1>6. CASE req.op = "reconcile"
  <2>1. req.arg \in Terminal
    BY <1>6 DEF Accepts, LeaseIsOver
  <2>2. QED
    BY <1>6, <2>1, EffectCases, ReconciledType
<1>7. QED
  BY <1>1, <1>2, <1>3, <1>4, <1>5, <1>6 DEF OpKinds

LEMMA EventType ==
  ASSUME NEW id \in OperationIds, NEW req \in Requests, NEW after \in Tasks, NEW now \in Nat
  PROVE  Event(id, req, after, now) \in Events
<1>1. req.lease.expires \in Nat /\ req.lease.fence \in Nat /\ after.lease.expires \in Nat
  BY DEF Requests, Tasks, Leases
<1>2. QED
  BY <1>1 DEF Event, Events, Requests, Tasks

---------------------------------------------------------------------------
(* Type correctness.                                                       *)

LEMMA LearnType ==
  ASSUME TypeOK, NEW w \in Workers, NEW req,
         NEW receipt \in [request : Requests, revision : Nat, lease : Leases],
         Learn(w, receipt, req)
  PROVE  known' \in [Workers -> [revision : Nat, lease : Leases]]
BY DEF Learn, TypeOK

LEMMA CommitType ==
  ASSUME TypeOK, NEW w \in Workers, NEW id \in OperationIds, NEW req \in Requests,
         NEW lost \in BOOLEAN, Commit(w, id, req, lost)
  PROVE  TypeOK'
<1> DEFINE after   == Effect(task, req, clock)
           receipt == [request |-> req, revision |-> after.revision, lease |-> after.lease]
<1>1. after \in Tasks
  BY EffectType DEF Commit, TypeOK
<1>2. receipt \in [request : Requests, revision : Nat, lease : Leases]
  BY <1>1 DEF Tasks
<1>3. Event(id, req, after, clock) \in Events
  BY <1>1, EventType DEF TypeOK
<1>4. task' \in Tasks /\ clock' \in Nat
  BY <1>1 DEF Commit, TypeOK
<1>5. operations' \in [OperationIds -> [request : Requests, revision : Nat, lease : Leases]]
  BY <1>2 DEF Commit, TypeOK
<1>6. events' \in Seq(Events)
  <2>1. events' = Append(events, Event(id, req, after, clock))
    BY DEF Commit
  <2>2. events \in Seq(Events)
    BY DEF TypeOK
  <2>3. QED
    BY <1>3, <2>1, <2>2
<1>7. pending' \in [Workers -> {NoCall} \cup [id : OperationIds, request : Requests]]
  <2>1. pending \in [Workers -> {NoCall} \cup [id : OperationIds, request : Requests]]
    BY DEF TypeOK
  <2>2. CASE lost
    BY <2>1, <2>2 DEF Commit
  <2>3. CASE ~lost
    BY <2>1, <2>3 DEF Commit
  <2>4. QED
    BY <2>2, <2>3
<1>8. known' \in [Workers -> [revision : Nat, lease : Leases]]
  <2>1. CASE lost
    BY <2>1 DEF Commit, TypeOK
  <2>2. CASE ~lost
    <3>1. Learn(w, receipt, req)
      BY <2>2 DEF Commit
    <3>2. QED
      BY <3>1, <1>2, LearnType
  <2>3. QED
    BY <2>1, <2>2
<1>9. QED
  BY <1>4, <1>5, <1>6, <1>7, <1>8 DEF TypeOK

LEMMA ReplayType ==
  ASSUME TypeOK, NEW w \in Workers, NEW id \in OperationIds, NEW req, Replay(w, id, req)
  PROVE  TypeOK'
<1>1. operations[id] \in [request : Requests, revision : Nat, lease : Leases]
  BY DEF TypeOK
<1>2. known' \in [Workers -> [revision : Nat, lease : Leases]]
  BY <1>1, LearnType DEF Replay
<1>3. pending' \in [Workers -> {NoCall} \cup [id : OperationIds, request : Requests]]
  BY DEF Replay, TypeOK
<1>4. QED
  BY <1>2, <1>3 DEF Replay, TypeOK


(* Every step commits one operation, or leaves the task, its operations    *)
(* and its events alone while the clock may move on.                       *)
LEMMA StepShape ==
  ASSUME [Next]_vars, TypeOK
  PROVE  \/ \E w \in Workers, id \in OperationIds, req \in Requests, lost \in BOOLEAN :
              Commit(w, id, req, lost)
         \/ UNCHANGED <<task, operations, events>> /\ clock' \in Nat /\ clock' >= clock
<1>1. ASSUME NEW w \in Workers, ReadTask(w) \/ Abandon(w)
      PROVE  UNCHANGED <<task, operations, events, clock>>
  BY <1>1 DEF ReadTask, Abandon
<1>2. ASSUME NEW w \in Workers, Retry(w)
      PROVE  UNCHANGED <<task, operations, events, clock>>
  BY <1>2 DEF Retry, Replay
<1>3. ASSUME NEW w \in Workers, Call(w)
      PROVE  \/ \E id \in OperationIds, req \in Requests, lost \in BOOLEAN : Commit(w, id, req, lost)
             \/ UNCHANGED <<task, operations, events, clock>>
  <2>1. PICK id \in OperationIds, req \in CallsOf(w) :
          (\E lost \in BOOLEAN : Commit(w, id, req, lost)) \/ Replay(w, id, req)
    BY <1>3 DEF Call
  <2>2. req \in Requests
    BY CallsOfType
  <2>3. CASE Replay(w, id, req)
    BY <2>3 DEF Replay
  <2>4. QED
    BY <2>1, <2>2, <2>3
<1>4. CASE Tick
  BY <1>4 DEF Tick, TypeOK
<1>5. CASE UNCHANGED vars
  BY <1>5 DEF vars, TypeOK
<1>6. QED
  BY <1>1, <1>2, <1>3, <1>4, <1>5 DEF Next, TypeOK

LEMMA TypeStep ==
  ASSUME TypeOK, [Next]_vars
  PROVE  TypeOK'
<1>1. ASSUME NEW w \in Workers, ReadTask(w)
      PROVE  TypeOK'
  BY <1>1 DEF ReadTask, TypeOK, Tasks
<1>2. ASSUME NEW w \in Workers, Call(w)
      PROVE  TypeOK'
  BY <1>2, CallsOfType, CommitType, ReplayType DEF Call
<1>3. ASSUME NEW w \in Workers, Retry(w)
      PROVE  TypeOK'
  <2>1. pending[w].id \in OperationIds
    BY <1>3 DEF Retry, TypeOK
  <2>2. QED
    BY <1>3, <2>1, ReplayType DEF Retry
<1>4. ASSUME NEW w \in Workers, Abandon(w)
      PROVE  TypeOK'
  BY <1>4 DEF Abandon, TypeOK
<1>5. CASE Tick
  BY <1>5 DEF Tick, TypeOK
<1>6. CASE UNCHANGED vars
  BY <1>6 DEF vars, TypeOK
<1>7. QED
  BY <1>1, <1>2, <1>3, <1>4, <1>5, <1>6 DEF Next

LEMMA TypeInit ==
  ASSUME Init
  PROVE  TypeOK
<1>1. task \in Tasks
  BY NoLeaseType DEF Init, InitialTask, Tasks, Status, Owners
<1>2. operations \in [OperationIds -> [request : Requests, revision : Nat, lease : Leases]]
  BY NoLeaseType, NoneRequestType DEF Init, Unused
<1>3. known \in [Workers -> [revision : Nat, lease : Leases]]
  BY NoLeaseType DEF Init
<1>4. QED
  BY <1>1, <1>2, <1>3 DEF Init, TypeOK

(* Every variable of the authority and of its callers keeps its type.      *)
THEOREM TypeCorrect == Spec => []TypeOK
<1>1. Init => TypeOK
  BY TypeInit
<1>2. TypeOK /\ [Next]_vars => TypeOK'
  BY TypeStep
<1>3. QED
  BY <1>1, <1>2, PTL DEF Spec

---------------------------------------------------------------------------
(* What one committed operation does, in the terms the invariants speak    *)
(* of: one event is appended, under the fence of the task it leaves.       *)
LEMMA CommitFacts ==
  ASSUME TypeOK, NEW w \in Workers, NEW id \in OperationIds, NEW req \in Requests,
         NEW lost \in BOOLEAN, Commit(w, id, req, lost)
  PROVE  /\ task \in Tasks /\ task' \in Tasks /\ clock \in Nat /\ clock' = clock
         /\ task' = Effect(task, req, clock) /\ Accepts(task, req, clock)
         /\ ~Used(id)
         /\ operations' = [operations EXCEPT ![id] =
              [request |-> req, revision |-> task'.revision, lease |-> task'.lease]]
         /\ Event(id, req, task', clock) \in Events
         /\ events' = Append(events, Event(id, req, task', clock))
<1>1. /\ task' = Effect(task, req, clock) /\ task' \in Tasks /\ Accepts(task, req, clock)
      /\ task \in Tasks /\ clock \in Nat /\ ~Used(id) /\ clock' = clock
  BY CommitType DEF Commit, TypeOK
<1>2. operations' = [operations EXCEPT ![id] =
        [request |-> req, revision |-> task'.revision, lease |-> task'.lease]]
  BY <1>1 DEF Commit
<1>3. events' = Append(events, Event(id, req, task', clock))
  BY <1>1 DEF Commit
<1>4. QED
  BY <1>1, <1>2, <1>3, EventType

LEMMA AppendFacts ==
  ASSUME NEW S, NEW s \in Seq(S), NEW e \in S
  PROVE  /\ Len(s) \in Nat
         /\ Len(Append(s, e)) = Len(s) + 1
         /\ 1..Len(Append(s, e)) = (1..Len(s)) \cup {Len(s) + 1}
         /\ Append(s, e)[Len(s) + 1] = e
         /\ \A i \in 1..Len(s) : Append(s, e)[i] = s[i]
BY SMT

LEMMA EventFields ==
  ASSUME TypeOK
  PROVE  \A i \in 1..Len(events) :
           /\ events[i].id \in OperationIds /\ events[i].fence \in Nat
           /\ events[i].expires \in Nat /\ events[i].at \in Nat
<1>1. events \in Seq(Events)
  BY DEF TypeOK
<1>2. \A i \in 1..Len(events) : events[i] \in Events
  BY <1>1
<1>3. QED
  BY <1>2 DEF Events

LEMMA RevisionAndFence ==
  ASSUME NEW t \in Tasks, NEW req \in Requests, NEW now \in Nat
  PROVE  /\ Effect(t, req, now).revision = t.revision + 1
         /\ \/ Effect(t, req, now).fence = t.fence
            \/ Effect(t, req, now).fence = t.fence + 1
<1>1. CASE req.op = "claim"
  BY <1>1, EffectCases, ClaimedFields
<1>2. CASE req.op \in {"lease", "recover"}
  BY <1>2, EffectCases, GrantedFields
<1>3. CASE req.op = "heartbeat"
  <2>1. Effect(t, req, now) = Renewed(t, now)
    BY <1>3, EffectCases
  <2>2. Renewed(t, now).revision = t.revision + 1 /\ Renewed(t, now).fence = t.fence
    BY DEF Renewed, Tasks
  <2>3. QED
    BY <2>1, <2>2
<1>4. CASE req.op = "event"
  BY <1>4, EffectCases, LoggedFields
<1>5. CASE req.op = "reconcile"
  BY <1>5, EffectCases, ReconciledFields
<1>6. QED
  BY <1>1, <1>2, <1>3, <1>4, <1>5 DEF Requests

---------------------------------------------------------------------------
(* Operations are applied once.                                            *)

\* The strengthening: the id of every event has its receipt stored.
OnceInv ==
  /\ AppliedOnce
  /\ \A i \in 1..Len(events) : Used(events[i].id)

LEMMA OnceStep ==
  ASSUME TypeOK, OnceInv, [Next]_vars
  PROVE  OnceInv'
<1>1. ASSUME NEW w \in Workers, NEW id \in OperationIds, NEW req \in Requests,
             NEW lost \in BOOLEAN, Commit(w, id, req, lost)
      PROVE  OnceInv'
  <2> DEFINE n == Len(events)
             e == Event(id, req, task', clock)
  <2>1. /\ n \in Nat /\ Len(events') = n + 1 /\ 1..Len(events') = (1..n) \cup {n + 1}
        /\ events'[n + 1] = e /\ \A i \in 1..n : events'[i] = events[i]
    BY <1>1, CommitFacts, AppendFacts DEF TypeOK
  <2>2. e.id = id
    BY DEF Event
  <2>3. task'.revision = task.revision + 1 /\ task.revision = 1 + n
    BY <1>1, CommitFacts, RevisionAndFence DEF OnceInv, AppliedOnce
  <2>4. operations'[id] # Unused /\ \A o \in OperationIds \ {id} : operations'[o] = operations[o]
    <3>1. operations' = [operations EXCEPT ![id] =
             [request |-> req, revision |-> task'.revision, lease |-> task'.lease]]
      BY <1>1, CommitFacts
    <3>2. operations'[id].revision # 0
      BY <2>1, <2>3, <3>1 DEF TypeOK
    <3>3. QED
      BY <3>1, <3>2 DEF Unused, TypeOK
  <2>5. \A i \in 1..n : events[i].id \in OperationIds /\ operations[events[i].id] # Unused
    BY EventFields DEF OnceInv, Used
  <2>6. operations[id] = Unused
    BY <1>1 DEF Commit, Used
  <2>7. \A i \in 1..n : events[i].id # id
    BY <2>5, <2>6
  <2>8. \A i, j \in 1..n : events[i].id = events[j].id => i = j
    BY DEF OnceInv, AppliedOnce
  <2> HIDE DEF n, e
  <2>9. \A i, j \in 1..Len(events') : events'[i].id = events'[j].id => i = j
    BY <2>1, <2>2, <2>7, <2>8
  <2>10. \A i \in 1..Len(events') : operations'[events'[i].id] # Unused
    BY <2>1, <2>2, <2>4, <2>5, <2>7
  <2>11. task'.revision = 1 + Len(events')
    BY <2>1, <2>3
  <2>12. QED
    BY <2>9, <2>10, <2>11 DEF OnceInv, AppliedOnce, Used
<1>2. CASE UNCHANGED <<task, operations, events>>
  BY <1>2 DEF OnceInv, AppliedOnce, Used
<1>3. QED
  BY <1>1, <1>2, StepShape

(* An operation id is applied at most once, and revisions count events.    *)
THEOREM OperationsApplyOnce == Spec => []AppliedOnce
<1>1. Init => OnceInv
  BY DEF Init, OnceInv, AppliedOnce, InitialTask
<1>2. TypeOK /\ OnceInv /\ [Next]_vars => OnceInv'
  BY OnceStep
<1>3. OnceInv => AppliedOnce
  BY DEF OnceInv
<1>4. QED
  BY <1>1, <1>2, <1>3, TypeCorrect, PTL DEF Spec

---------------------------------------------------------------------------
(* Fences never regress.                                                   *)

\* Only a running task has a lease, and it is the one of its fence.
HeldInv ==
  /\ task.lease # NoLease => task.status = "running"
  /\ task.status = "running" => task.lease.fence = task.fence

\* The strengthening: no event is ahead of the task's fence.
FenceInv ==
  /\ FencesNeverRegress
  /\ HeldInv
  /\ \A i \in 1..Len(events) : events[i].fence <= task.fence

(* A commit keeps the lease bound to the fence ...                         *)
LEMMA HeldCommit ==
  ASSUME TypeOK, HeldInv, NEW w \in Workers, NEW id \in OperationIds, NEW req \in Requests,
         NEW lost \in BOOLEAN, Commit(w, id, req, lost)
  PROVE  HeldInv'
<1>1. task \in Tasks /\ task' = Effect(task, req, clock) /\ Accepts(task, req, clock)
  BY CommitFacts
<1>2. CASE req.op = "claim"
  <2>1. task.status = "open" /\ task.lease = NoLease
    BY <1>1, <1>2 DEF Accepts, LeaseIsOver, HeldInv
  <2>2. task'.status = "claimed" /\ task'.lease = task.lease
    BY <1>1, <1>2, EffectCases, ClaimedFields
  <2>3. QED
    BY <2>1, <2>2 DEF HeldInv
<1>3. CASE req.op \in {"lease", "recover"}
  <2>1. /\ task'.fence = task.fence + 1 /\ task'.status = "running"
        /\ task'.lease = NewLease(req.owner, req.session, task.fence + 1, clock)
    BY <1>1, <1>3, EffectCases, GrantedFields
  <2>2. QED
    BY <2>1 DEF HeldInv, NewLease
<1>4. CASE req.op \in {"heartbeat", "event"}
  <2>1. task.status = "running" /\ task.lease.fence = task.fence
    BY <1>1, <1>4 DEF Accepts, LeaseIsOver, HoldsLease, HeldInv
  <2>2. /\ task'.fence = task.fence /\ task'.status = task.status
        /\ task'.lease.fence = task.lease.fence
    <3>1. CASE req.op = "heartbeat"
      <4>1. task' = Renewed(task, clock)
        BY <1>1, <3>1, EffectCases
      <4>2. /\ task'.fence = task.fence /\ task'.status = task.status
            /\ task'.lease = [task.lease EXCEPT !.expires = clock + LeaseSeconds]
        BY <1>1, <4>1 DEF Renewed, Tasks
      <4>3. task.lease \in Leases
        BY <1>1 DEF Tasks
      <4>4. QED
        BY <4>2, <4>3 DEF Leases
    <3>2. CASE req.op = "event"
      <4>1. task' = Logged(task)
        BY <1>1, <3>2, EffectCases
      <4>2. QED
        BY <1>1, <4>1, LoggedFields
    <3>3. QED
      BY <1>4, <3>1, <3>2
  <2>3. QED
    BY <2>1, <2>2 DEF HeldInv
<1>5. CASE req.op = "reconcile"
  <2>1. task' = Reconciled(task, req.arg) /\ req.arg \in Terminal
    BY <1>1, <1>5, EffectCases DEF Accepts, LeaseIsOver
  <2>2. task'.status \in Terminal /\ task'.lease = NoLease
    BY <1>1, <2>1, ReconciledFields
  <2>3. QED
    BY <2>2 DEF HeldInv, Terminal
<1>6. QED
  BY <1>2, <1>3, <1>4, <1>5 DEF Requests

(* ... so that whoever presents a lease presents that of the fence.        *)
LEMMA EventFence ==
  ASSUME TypeOK, HeldInv, NEW w \in Workers, NEW id \in OperationIds, NEW req \in Requests,
         NEW lost \in BOOLEAN, Commit(w, id, req, lost)
  PROVE  Event(id, req, task', clock).fence = task'.fence
<1>1. task \in Tasks /\ task' = Effect(task, req, clock) /\ Accepts(task, req, clock)
  BY CommitFacts
<1>2. CASE req.op \in {"heartbeat", "event", "reconcile"}
  <2>1. req.lease = task.lease /\ task.lease.fence = task.fence
    BY <1>1, <1>2 DEF Accepts, LeaseIsOver, HoldsLease, HeldInv
  <2>2. CASE req.op = "heartbeat"
    <3>1. task' = Renewed(task, clock)
      BY <1>1, <2>2, EffectCases
    <3>2. task'.fence = task.fence
      BY <1>1, <3>1 DEF Renewed, Tasks
    <3>3. QED
      BY <2>1, <2>2, <3>2 DEF Event
  <2>3. CASE req.op = "event"
    BY <1>1, <2>1, <2>3, EffectCases, LoggedFields DEF Event
  <2>4. CASE req.op = "reconcile"
    BY <1>1, <2>1, <2>4, EffectCases, ReconciledFields DEF Event
  <2>5. QED
    BY <1>2, <2>2, <2>3, <2>4
<1>3. CASE req.op \notin {"heartbeat", "event", "reconcile"}
  BY <1>3 DEF Event
<1>4. QED
  BY <1>2, <1>3

LEMMA FenceStep ==
  ASSUME TypeOK, FenceInv, [Next]_vars
  PROVE  FenceInv'
<1>1. ASSUME NEW w \in Workers, NEW id \in OperationIds, NEW req \in Requests,
             NEW lost \in BOOLEAN, Commit(w, id, req, lost)
      PROVE  FenceInv'
  <2> DEFINE n == Len(events)
             e == Event(id, req, task', clock)
  <2>1. /\ n \in Nat /\ Len(events') = n + 1 /\ 1..Len(events') = (1..n) \cup {n + 1}
        /\ events'[n + 1] = e /\ \A i \in 1..n : events'[i] = events[i]
    BY <1>1, CommitFacts, AppendFacts DEF TypeOK
  <2>2. e.fence = task'.fence /\ HeldInv'
    BY <1>1, EventFence, HeldCommit DEF FenceInv
  <2>3. /\ task'.fence = task.fence \/ task'.fence = task.fence + 1
        /\ task.fence \in Nat
    <3>1. task \in Tasks /\ clock \in Nat /\ task' = Effect(task, req, clock)
      BY <1>1, CommitFacts
    <3>2. task.fence \in Nat
      BY <3>1 DEF Tasks
    <3>3. QED
      BY <3>1, <3>2, RevisionAndFence
  <2>4. \A i \in 1..n : events[i].fence \in Nat /\ events[i].fence <= task.fence
    BY EventFields DEF FenceInv
  <2>5. \A i, j \in 1..n : i < j => events[i].fence <= events[j].fence
    BY DEF FenceInv, FencesNeverRegress
  <2> HIDE DEF n, e
  <2>6. \A i \in 1..Len(events') : events'[i].fence <= task'.fence
    BY <2>1, <2>2, <2>3, <2>4
  <2>7. \A i, j \in 1..Len(events') : i < j => events'[i].fence <= events'[j].fence
    BY <2>1, <2>2, <2>3, <2>4, <2>5
  <2>8. QED
    BY <2>2, <2>6, <2>7 DEF FenceInv, FencesNeverRegress
<1>2. CASE UNCHANGED <<task, operations, events>>
  BY <1>2 DEF FenceInv, FencesNeverRegress, HeldInv
<1>3. QED
  BY <1>1, <1>2, StepShape

(* No write under an older fence is committed after a newer one.           *)
THEOREM FencingHolds == Spec => []FencesNeverRegress
<1>1. Init => FenceInv
  BY DEF Init, FenceInv, FencesNeverRegress, HeldInv, InitialTask
<1>2. TypeOK /\ FenceInv /\ [Next]_vars => FenceInv'
  BY FenceStep
<1>3. FenceInv => FencesNeverRegress
  BY DEF FenceInv
<1>4. QED
  BY <1>1, <1>2, <1>3, TypeCorrect, PTL DEF Spec

---------------------------------------------------------------------------
(* The terms of two leases never overlap.                                  *)

\* The strengthening.  A running task's lease is the one of its fence, it
\* ends no later than a full length from now and no earlier than any event
\* of its fence says; a task never leased has no expiry in its log; and
\* what was committed under an older fence has expired by now.
TermInv ==
  /\ LeaseTermsDisjoint
  /\ task.lease # NoLease => task.status = "running"
  /\ task.status = "running" => /\ task.lease.fence = task.fence
                                /\ task.lease.expires <= clock + LeaseSeconds
  /\ task.status \in {"open", "claimed"} => \A i \in 1..Len(events) : events[i].expires = 0
  /\ \A i \in 1..Len(events) : events[i].fence < task.fence => events[i].expires <= clock
  /\ task.status = "running" => \A i \in 1..Len(events) :
       events[i].fence = task.fence => events[i].expires <= task.lease.expires

(* Appending an event that keeps the order of terms keeps TermInv's facts  *)
(* about the log.                                                          *)
LEMMA TermAppend ==
  ASSUME TypeOK, FenceInv, LeaseTermsDisjoint, NEW e \in Events,
         e.fence >= task.fence, e.at = clock,
         \A i \in 1..Len(events) : events[i].fence < e.fence => events[i].expires <= e.at,
         events' = Append(events, e)
  PROVE  LeaseTermsDisjoint'
<1> DEFINE n == Len(events)
<1>1. /\ n \in Nat /\ Len(events') = n + 1 /\ 1..Len(events') = (1..n) \cup {n + 1}
      /\ events'[n + 1] = e /\ \A i \in 1..n : events'[i] = events[i]
  BY AppendFacts DEF TypeOK
<1>2. \A i \in 1..n : events[i].fence \in Nat /\ events[i].fence <= task.fence
  BY EventFields DEF FenceInv
<1>3. \A i, j \in 1..n : events[i].fence < events[j].fence => events[i].expires <= events[j].at
  BY DEF LeaseTermsDisjoint
<1>4. task.fence \in Nat /\ e.fence \in Nat
  BY DEF TypeOK, Tasks, Events
<1> HIDE DEF n
<1>5. \A i, j \in 1..Len(events') : events'[i].fence < events'[j].fence => events'[i].expires <= events'[j].at
  BY <1>1, <1>2, <1>3, <1>4
<1>6. QED
  BY <1>5 DEF LeaseTermsDisjoint

(* The log keeps its old events, so a fact about every old event and the   *)
(* new one is a fact about every event.                                    *)
LEMMA TermStep ==
  ASSUME TypeOK, FenceInv, TermInv, [Next]_vars
  PROVE  TermInv'
<1> DEFINE n == Len(events)
<1>1. ASSUME NEW w \in Workers, NEW id \in OperationIds, NEW req \in Requests,
             NEW lost \in BOOLEAN, Commit(w, id, req, lost)
      PROVE  TermInv'
  <2> DEFINE e == Event(id, req, task', clock)
  <2>1. /\ n \in Nat /\ Len(events') = n + 1 /\ 1..Len(events') = (1..n) \cup {n + 1}
        /\ events'[n + 1] = e /\ \A i \in 1..n : events'[i] = events[i]
    <3>1. events \in Seq(Events) /\ e \in Events /\ events' = Append(events, e)
      BY <1>1, CommitFacts DEF TypeOK
    <3> HIDE DEF e
    <3>2. QED
      BY <3>1, AppendFacts
  <2>2. /\ task \in Tasks /\ task' \in Tasks /\ clock \in Nat /\ clock' = clock
        /\ task' = Effect(task, req, clock) /\ Accepts(task, req, clock)
        /\ e \in Events /\ events' = Append(events, e)
    BY <1>1, CommitFacts
  <2>3. /\ e.fence = task'.fence /\ e.at = clock
        /\ req.op = "claim" => e.expires = 0
        /\ req.op = "reconcile" => e.expires = req.lease.expires
        /\ req.op \in {"lease", "recover", "heartbeat", "event"} => e.expires = task'.lease.expires
    BY <1>1, EventFence DEF Event, FenceInv
  <2>4. /\ task.fence \in Nat /\ task.lease \in Leases /\ task.lease.expires \in Nat
        /\ LeaseSeconds \in Nat
    BY <2>2, LeaseSecondsAssumption DEF Tasks, Leases
  <2>5. \A i \in 1..n : /\ events[i].fence \in Nat /\ events[i].fence <= task.fence
                        /\ events[i].expires \in Nat
    BY EventFields DEF FenceInv
  <2>6. \A i \in 1..n : events[i].fence < task.fence => events[i].expires <= clock
    BY DEF TermInv
  <2>7. CASE req.op = "claim"
    <3>1. /\ task'.fence = task.fence /\ task'.status = "claimed" /\ task'.lease = task.lease
          /\ task.status = "open"
      BY <2>2, <2>7, EffectCases, ClaimedFields DEF Accepts, LeaseIsOver
    <3>2. task.lease = NoLease /\ \A i \in 1..n : events[i].expires = 0
      BY <3>1 DEF TermInv
    <3>3. LeaseTermsDisjoint'
      BY <2>2, <2>3, <2>4, <2>6, <3>1, TermAppend DEF TermInv
    <3> HIDE DEF n, e
    <3>4. QED
      BY <2>1, <2>2, <2>3, <2>4, <2>5, <2>6, <2>7, <3>1, <3>2, <3>3 DEF TermInv, n
  <2>8. CASE req.op \in {"lease", "recover"}
    <3> DEFINE new == NewLease(req.owner, req.session, task.fence + 1, clock)
    <3>1. task' = Granted(task, req.owner, req.session, clock)
      BY <2>2, <2>8, EffectCases
    <3>2. task'.fence = task.fence + 1 /\ task'.status = "running" /\ task'.lease = new
      BY <2>2, <3>1, GrantedFields
    <3>3. new.fence = task.fence + 1 /\ new.expires = clock + LeaseSeconds
      BY DEF NewLease
    <3>4. \A i \in 1..n : events[i].expires <= clock
      <4>1. CASE task.status = "claimed"
        BY <4>1, <2>2, <2>5 DEF TermInv
      <4>2. CASE task.status = "running" /\ task.lease.expires <= clock
        BY <4>2, <2>2, <2>4, <2>5, <2>6 DEF TermInv
      <4>3. QED
        BY <2>2, <2>8, <4>1, <4>2 DEF Accepts, LeaseIsOver
    <3>5. LeaseTermsDisjoint'
      BY <2>2, <2>3, <2>4, <3>2, <3>4, TermAppend DEF TermInv
    <3> HIDE DEF n, e, new
    <3>6. QED
      BY <2>1, <2>2, <2>3, <2>4, <2>5, <2>8, <3>2, <3>3, <3>4, <3>5 DEF TermInv, n
  <2>9. CASE req.op = "heartbeat"
    <3>1. task' = Renewed(task, clock)
      BY <2>2, <2>9, EffectCases
    <3>2. /\ task'.fence = task.fence /\ task'.status = task.status
          /\ task'.lease = [task.lease EXCEPT !.expires = clock + LeaseSeconds]
      BY <2>2, <3>1, RenewedFields
    <3>3. task'.lease.expires = clock + LeaseSeconds /\ task'.lease.fence = task.lease.fence
      BY <2>4, <3>2 DEF Leases
    <3>4. task.status = "running" /\ task.lease.fence = task.fence
          /\ task.lease.expires <= clock + LeaseSeconds
      BY <2>2, <2>9 DEF Accepts, LeaseIsOver, HoldsLease, TermInv
    <3>5. LeaseTermsDisjoint'
      BY <2>2, <2>3, <2>4, <2>6, <3>2, TermAppend DEF TermInv
    <3>6. \A i \in 1..n : events[i].fence = task.fence => events[i].expires <= task.lease.expires
      BY <3>4 DEF TermInv
    <3> HIDE DEF n, e
    <3>7. QED
      BY <2>1, <2>2, <2>3, <2>4, <2>5, <2>6, <2>9, <3>2, <3>3, <3>4, <3>5, <3>6 DEF TermInv, n
  <2>10. CASE req.op = "event"
    <3>1. /\ task'.fence = task.fence /\ task'.status = task.status /\ task'.lease = task.lease
          /\ task.status = "running"
      <4>1. task' = Logged(task)
        BY <2>2, <2>10, EffectCases
      <4>2. QED
        BY <4>1, <2>2, <2>10, LoggedFields DEF Accepts, LeaseIsOver, HoldsLease, TermInv
    <3>2. LeaseTermsDisjoint'
      BY <2>2, <2>3, <2>4, <2>6, <3>1, TermAppend DEF TermInv
    <3>3. /\ task.lease.fence = task.fence /\ task.lease.expires <= clock + LeaseSeconds
          /\ \A i \in 1..n : events[i].fence = task.fence => events[i].expires <= task.lease.expires
      BY <3>1 DEF TermInv
    <3> HIDE DEF n, e
    <3>4. QED
      BY <2>1, <2>2, <2>3, <2>4, <2>5, <2>6, <2>10, <3>1, <3>2, <3>3 DEF TermInv, n
  <2>11. CASE req.op = "reconcile"
    <3>1. task'.fence = task.fence /\ task'.status \in Terminal /\ task'.lease = NoLease
      <4>1. task' = Reconciled(task, req.arg) /\ req.arg \in Terminal
        BY <2>2, <2>11, EffectCases DEF Accepts, LeaseIsOver
      <4>2. QED
        BY <4>1, <2>2 DEF Reconciled, Tasks
    <3>2. LeaseTermsDisjoint'
      BY <2>2, <2>3, <2>4, <2>6, <3>1, TermAppend DEF TermInv
    <3> HIDE DEF n, e
    <3>3. QED
      BY <2>1, <2>2, <2>3, <2>4, <2>5, <2>6, <2>11, <3>1, <3>2 DEF TermInv, n, Terminal
  <2>12. QED
    BY <2>7, <2>8, <2>9, <2>10, <2>11 DEF Requests
<1>2. CASE UNCHANGED <<task, operations, events>> /\ clock' \in Nat /\ clock' >= clock
  <2>1. \A i \in 1..n : events[i].expires \in Nat
    BY EventFields
  <2>2. clock \in Nat /\ task.lease.expires \in Nat /\ LeaseSeconds \in Nat
    BY LeaseSecondsAssumption DEF TypeOK, Tasks, Leases
  <2>3. QED
    BY <1>2, <2>1, <2>2 DEF TermInv, LeaseTermsDisjoint
<1>3. QED
  BY <1>1, <1>2, StepShape

(* Two leases are never in force at one time.                              *)
THEOREM LeaseTermsNeverOverlap == Spec => []LeaseTermsDisjoint
<1>1. Init => FenceInv /\ TermInv
  BY DEF Init, FenceInv, FencesNeverRegress, HeldInv, TermInv, LeaseTermsDisjoint, InitialTask
<1>2. TypeOK /\ FenceInv /\ TermInv /\ [Next]_vars => FenceInv' /\ TermInv'
  BY FenceStep, TermStep
<1>3. TermInv => LeaseTermsDisjoint
  BY DEF TermInv
<1>4. QED
  BY <1>1, <1>2, <1>3, TypeCorrect, PTL DEF Spec

---------------------------------------------------------------------------
(* A terminal task is final, and the abstract promise is kept.             *)

LEMMA AcceptedIsLive ==
  ASSUME TermInv, NEW req \in Requests, Accepts(task, req, clock)
  PROVE  /\ task.status \in {"open", "claimed", "running"}
         /\ req.op \in {"heartbeat", "event", "reconcile"} =>
              task.status = "running" /\ clock < task.lease.expires
<1>1. CASE req.op \in {"heartbeat", "event", "reconcile"}
  <2>1. HoldsLease(task, req.lease, clock)
    BY <1>1 DEF Accepts, LeaseIsOver
  <2>2. QED
    BY <1>1, <2>1 DEF HoldsLease, TermInv
<1>2. CASE req.op \in {"claim", "lease", "recover"}
  BY <1>2 DEF Accepts, LeaseIsOver
<1>3. QED
  BY <1>1, <1>2 DEF Requests

(* Nothing changes a task the authority has closed, nor its event log.     *)
THEOREM ClosedTasksStayClosed == Spec => TerminalIsFinal
<1>1. Init => FenceInv /\ TermInv
  BY DEF Init, FenceInv, FencesNeverRegress, HeldInv, TermInv, LeaseTermsDisjoint, InitialTask
<1>2. TypeOK /\ FenceInv /\ TermInv /\ [Next]_vars => FenceInv' /\ TermInv'
  BY FenceStep, TermStep
<1>3. TypeOK /\ TermInv /\ [Next]_vars =>
        [task.status \in Terminal => UNCHANGED <<task, events>>]_vars
  <2> SUFFICES ASSUME TypeOK, TermInv, [Next]_vars, task.status \in Terminal
               PROVE  UNCHANGED <<task, events>>
    OBVIOUS
  <2>1. ASSUME NEW w \in Workers, NEW id \in OperationIds, NEW req \in Requests,
               NEW lost \in BOOLEAN, Commit(w, id, req, lost)
        PROVE  FALSE
    BY <2>1, AcceptedIsLive DEF Commit, Terminal
  <2>2. QED
    BY <2>1, StepShape
<1>4. QED
  BY <1>1, <1>2, <1>3, TypeCorrect, PTL DEF Spec, TerminalIsFinal

LEMMA PhaseOf ==
  /\ task.status = "open" => Phase = "free"
  /\ task.status = "claimed" => Phase = "claimed"
  /\ task.status = "running" => Phase = "held"
  /\ task.status \in Terminal => Phase = "closed"
BY DEF Phase, Terminal

LEMMA PhaseOfNext ==
  /\ task'.status = "open" => Phase' = "free"
  /\ task'.status = "claimed" => Phase' = "claimed"
  /\ task'.status = "running" => Phase' = "held"
  /\ task'.status \in Terminal => Phase' = "closed"
BY DEF Phase, Terminal

LEMMA AuthorityStep ==
  ASSUME TypeOK, TermInv, [Next]_vars
  PROVE  [Authority!Next]_(Authority!vars)
<1>1. ASSUME NEW w \in Workers, NEW id \in OperationIds, NEW req \in Requests,
             NEW lost \in BOOLEAN, Commit(w, id, req, lost)
      PROVE  Authority!Next
  <2>1. /\ task \in Tasks /\ clock \in Nat /\ clock' = clock
        /\ task' = Effect(task, req, clock) /\ Accepts(task, req, clock)
    BY <1>1, CommitFacts
  <2>2. /\ task.lease \in Leases /\ task.lease.expires \in Nat
        /\ LeaseSeconds \in Nat /\ LeaseSeconds > 0
    BY <2>1, LeaseSecondsAssumption DEF Tasks, Leases
  <2>3. CASE req.op = "claim"
    <3>1. task' = Claimed(task, req.owner) /\ task.status = "open"
      BY <2>1, <2>3, EffectCases DEF Accepts, LeaseIsOver
    <3>2. /\ task'.revision = task.revision + 1 /\ task'.fence = task.fence
          /\ task'.status = "claimed" /\ task'.lease = task.lease
      BY <2>1, <3>1 DEF Claimed, Tasks
    <3>3. Authority!Claim
      BY <2>1, <3>1, <3>2, PhaseOf, PhaseOfNext DEF Authority!Claim
    <3>4. QED
      BY <3>3 DEF Authority!Next
  <2>4. CASE req.op \in {"lease", "recover"}
    <3>1. task' = Granted(task, req.owner, req.session, clock)
      BY <2>1, <2>4, EffectCases
    <3>2. /\ task'.revision = task.revision + 1 /\ task'.fence = task.fence + 1
          /\ task'.status = "running"
          /\ task'.lease = NewLease(req.owner, req.session, task.fence + 1, clock)
      BY <2>1, <3>1 DEF Granted, Tasks
    <3>3. task'.lease.expires = clock + LeaseSeconds
      BY <3>2 DEF NewLease
    <3>4. task.status = "claimed" \/ (task.status = "running" /\ task.lease.expires <= clock)
      BY <2>1, <2>4 DEF Accepts, LeaseIsOver
    <3>5. Authority!BeginTerm
      BY <2>1, <2>2, <3>2, <3>3, <3>4, PhaseOf, PhaseOfNext DEF Authority!BeginTerm
    <3>6. QED
      BY <3>5 DEF Authority!Next
  <2>5. CASE req.op \in {"heartbeat", "event"}
    <3>1. task.status = "running" /\ clock < task.lease.expires
      BY <2>1, <2>5, AcceptedIsLive
    <3>2. /\ task'.revision = task.revision + 1 /\ task'.fence = task.fence
          /\ task'.status = task.status /\ task'.lease.expires >= task.lease.expires
      <4>1. CASE req.op = "heartbeat"
        <5>1. task' = Renewed(task, clock)
          BY <2>1, <4>1, EffectCases
        <5>2. /\ task'.revision = task.revision + 1 /\ task'.fence = task.fence
              /\ task'.status = task.status
              /\ task'.lease = [task.lease EXCEPT !.expires = clock + LeaseSeconds]
          BY <2>1, <5>1 DEF Renewed, Tasks
        <5>3. task'.lease.expires = clock + LeaseSeconds
          BY <2>2, <5>2 DEF Leases
        <5>4. task.lease.expires <= clock + LeaseSeconds
          BY <3>1 DEF TermInv
        <5>5. QED
          BY <2>1, <2>2, <5>2, <5>3, <5>4
      <4>2. CASE req.op = "event"
        <5>1. task' = Logged(task)
          BY <2>1, <4>2, EffectCases
        <5>2. QED
          BY <2>1, <2>2, <5>1 DEF Logged, Tasks
      <4>3. QED
        BY <2>5, <4>1, <4>2
    <3>3. Authority!Write
      BY <2>1, <3>1, <3>2, PhaseOf, PhaseOfNext DEF Authority!Write
    <3>4. QED
      BY <3>3 DEF Authority!Next
  <2>6. CASE req.op = "reconcile"
    <3>1. task.status = "running" /\ clock < task.lease.expires
      BY <2>1, <2>6, AcceptedIsLive
    <3>2. task' = Reconciled(task, req.arg) /\ req.arg \in Terminal
      BY <2>1, <2>6, EffectCases DEF Accepts, LeaseIsOver
    <3>3. /\ task'.revision = task.revision + 1 /\ task'.fence = task.fence
          /\ task'.status \in Terminal /\ task'.lease = NoLease
      BY <2>1, <3>2 DEF Reconciled, Tasks
    <3>4. task'.lease.expires = 0
      BY <3>3 DEF NoLease
    <3>5. Authority!Close
      BY <2>1, <3>1, <3>3, <3>4, PhaseOf, PhaseOfNext DEF Authority!Close
    <3>6. QED
      BY <3>5 DEF Authority!Next
  <2>7. QED
    BY <2>3, <2>4, <2>5, <2>6 DEF Requests
<1>2. CASE UNCHANGED <<task, operations, events>> /\ clock' \in Nat /\ clock' >= clock
  <2>1. Phase' = Phase /\ clock \in Nat
    BY <1>2 DEF Phase, TypeOK
  <2>2. CASE clock' = clock
    BY <1>2, <2>1, <2>2 DEF Authority!vars
  <2>3. CASE clock' > clock
    <3>1. Authority!Elapse
      BY <1>2, <2>1, <2>3 DEF Authority!Elapse
    <3>2. QED
      BY <3>1 DEF Authority!Next
  <2>4. QED
    BY <1>2, <2>1, <2>2, <2>3
<1>3. QED
  BY <1>1, <1>2, StepShape

(* Every behaviour of the file-backed Coordinator is one of TaskAuthority. *)
THEOREM CoordinatorImplementsAuthority == Spec => ImplementsAuthority
<1>1. Init => FenceInv /\ TermInv
  BY DEF Init, FenceInv, FencesNeverRegress, HeldInv, TermInv, LeaseTermsDisjoint, InitialTask
<1>2. TypeOK /\ FenceInv /\ TermInv /\ [Next]_vars => FenceInv' /\ TermInv'
  BY FenceStep, TermStep
<1>3. Init => Authority!Init
  BY DEF Init, Authority!Init, InitialTask, NoLease, Phase
<1>4. TypeOK /\ TermInv /\ [Next]_vars => [Authority!Next]_(Authority!vars)
  BY AuthorityStep
<1>5. QED
  BY <1>1, <1>2, <1>3, <1>4, TypeCorrect, PTL DEF Spec, ImplementsAuthority, Authority!Spec
===========================================================================
