----------------------- MODULE DurableCoordinator -----------------------
(***************************************************************************)
(* DurableFakeCoordinator (scripts/durable_coordinator.py): the restartable *)
(* authority over one task, called by several workers at once.  Every      *)
(* operation runs under the file lock, replaces the state file before it    *)
(* answers, and is remembered by its operation id, so a restart of the     *)
(* authority loses nothing and each call is one step.                      *)
(*                                                                         *)
(* A worker sees the authority only through reads and receipts: known[w]   *)
(* is the revision it last read and the lease it was last granted, and     *)
(* either may be long out of date when it calls.  The answer to a          *)
(* committed call may be lost (unknown_outcome); the worker then holds the *)
(* call as pending and may repeat it, or give up and carry on.             *)
(***************************************************************************)
EXTENDS CoordinatorTask, Sequences, TLC

CONSTANTS
  Workers,        \* the callers; a worker is also the owner it names
  Sessions,       \* session identifiers
  OperationIds,   \* operation identifiers: bounds the committed operations
  MaxClock        \* bound on the authority's clock

ASSUME BoundAssumption == MaxClock \in Nat
ASSUME NoneAssumption == None \notin Workers /\ None \notin Sessions

VARIABLES
  task,         \* the task record of the state file
  operations,   \* operation id -> fingerprint and receipt, of committed operations
  events,       \* the event log of the state file
  clock,        \* the authority's clock
  known,        \* what each worker last learned: a revision and a lease
  pending       \* the call of each worker whose outcome it does not know

vars == <<task, operations, events, clock, known, pending>>

Unused == [request |-> ClaimRequest(0, None), revision |-> 0, lease |-> NoLease]
NoCall == [id |-> None, request |-> ClaimRequest(0, None)]

(* One event of the log, with the fence it was committed under, which is   *)
(* that of the lease the caller presents if it presents one, and the       *)
(* expiry of the lease granted, renewed or presented.                      *)
Event(id, req, after, now) ==
  [id      |-> id,
   op      |-> req.op,
   fence   |-> IF req.op \in {"heartbeat", "event", "reconcile"}
               THEN req.lease.fence ELSE after.fence,
   expires |-> CASE req.op = "claim"     -> 0
                 [] req.op = "reconcile" -> req.lease.expires
                 [] OTHER                -> after.lease.expires,
   at      |-> now]

(* The calls a worker can make with what it knows.                         *)
CallsOf(w) ==
  LET rev == known[w].revision
  IN  {ClaimRequest(rev, w)}
        \cup {LeaseRequest(rev, w, s)   : s \in Sessions}
        \cup {RecoverRequest(rev, w, s) : s \in Sessions}
        \cup (IF known[w].lease = NoLease THEN {}
              ELSE {HeartbeatRequest(rev, known[w].lease)}
                     \cup {EventRequest(rev, known[w].lease, s, "event") : s \in Sessions}
                     \cup {ReconcileRequest(rev, known[w].lease, st) : st \in Terminal})

---------------------------------------------------------------------------
Init ==
  /\ task = InitialTask(1)
  /\ operations = [id \in OperationIds |-> Unused]
  /\ events = <<>>
  /\ clock = 0
  /\ known = [w \in Workers |-> [revision |-> 1, lease |-> NoLease]]
  /\ pending = [w \in Workers |-> NoCall]

(* read_task: the worker refreshes the revision it will quote and keeps    *)
(* the lease it believes it holds.                                         *)
ReadTask(w) ==
  /\ known[w].revision # task.revision
  /\ known' = [known EXCEPT ![w].revision = task.revision]
  /\ UNCHANGED <<task, operations, events, clock, pending>>

\* Mutated form of Used: operation ids are not looked up.
NeverUsed(id) == FALSE

Used(id) == operations[id] # Unused

(* The worker takes in a receipt: its revision and, for a grant or a       *)
(* heartbeat, its lease.                                                   *)
Learn(w, receipt, req) ==
  known' = [known EXCEPT ![w] =
              [revision |-> receipt.revision,
               lease    |-> IF req.op \in {"lease", "recover", "heartbeat"}
                            THEN receipt.lease ELSE known[w].lease]]

(* _operation, a new id: the request is checked, applied, logged and       *)
(* remembered in one replacement of the state file.  When the answer is    *)
(* lost the worker learns nothing and keeps the call.                      *)
Commit(w, id, req, lost) ==
  /\ ~Used(id)
  /\ Accepts(task, req, clock)
  /\ LET after   == Effect(task, req, clock)
         receipt == [request |-> req, revision |-> after.revision, lease |-> after.lease]
     IN  /\ task' = after
         /\ operations' = [operations EXCEPT ![id] = receipt]
         /\ events' = Append(events, Event(id, req, after, clock))
         /\ IF lost THEN /\ pending' = [pending EXCEPT ![w] = [id |-> id, request |-> req]]
                         /\ known' = known
                    ELSE /\ pending' = [pending EXCEPT ![w] = NoCall]
                         /\ Learn(w, receipt, req)
  /\ UNCHANGED clock

(* _operation, a remembered id: the same fingerprint returns the stored    *)
(* receipt without looking at the revision, the lease or the clock.        *)
Replay(w, id, req) ==
  /\ Used(id)
  /\ operations[id].request = req
  /\ Learn(w, operations[id], req)
  /\ pending' = [pending EXCEPT ![w] = NoCall]
  /\ UNCHANGED <<task, operations, events, clock>>

(* A worker without a call in doubt makes a new one, under any id ...      *)
Call(w) ==
  /\ pending[w] = NoCall
  /\ \E id \in OperationIds, req \in CallsOf(w) :
       \/ \E lost \in BOOLEAN : Commit(w, id, req, lost)
       \/ Replay(w, id, req)

(* ... and one with a call in doubt repeats exactly that call              *)
(* (ExecutionController._authority_write) ...                              *)
Retry(w) ==
  /\ pending[w] # NoCall
  /\ Replay(w, pending[w].id, pending[w].request)

(* ... or gives up on it.                                                  *)
Abandon(w) ==
  /\ pending[w] # NoCall
  /\ pending' = [pending EXCEPT ![w] = NoCall]
  /\ UNCHANGED <<task, operations, events, clock, known>>

Tick ==
  /\ clock < MaxClock
  /\ clock' = clock + 1
  /\ UNCHANGED <<task, operations, events, known, pending>>

Next ==
  \/ \E w \in Workers : ReadTask(w) \/ Call(w) \/ Retry(w) \/ Abandon(w)
  \/ Tick

Spec == Init /\ [][Next]_vars

---------------------------------------------------------------------------
(* Properties                                                              *)

Owners   == Workers \cup {None}
SessionsOrNone == Sessions \cup {None}
Leases   == [owner : Owners, session : SessionsOrNone, fence : Nat, expires : Nat]
Tasks    == [revision : Nat, status : Status, owner : Owners, lease : Leases, fence : Nat]
Requests == [op : {"claim", "lease", "recover", "heartbeat", "event", "reconcile"},
             revision : Nat, owner : Owners, session : SessionsOrNone, lease : Leases,
             arg : {"none", "event"} \cup Terminal]
Events   == [id : OperationIds, op : {"claim", "lease", "recover", "heartbeat", "event", "reconcile"},
             fence : Nat, expires : Nat, at : Nat]

(* Every variable keeps its type.                                          *)
TypeOK ==
  /\ task \in Tasks
  /\ operations \in [OperationIds -> [request : Requests, revision : Nat, lease : Leases]]
  /\ events \in Seq(Events)
  /\ clock \in Nat
  /\ known \in [Workers -> [revision : Nat, lease : Leases]]
  /\ pending \in [Workers -> {NoCall} \cup [id : OperationIds, request : Requests]]

(* An operation id is applied at most once, however often its answer is    *)
(* lost and the call repeated: no two events carry the same id, and the    *)
(* revision is one more than the number of events (_operation looks the id *)
(* up before it acts and stores the receipt in the same replacement).      *)
AppliedOnce ==
  /\ task.revision = 1 + Len(events)
  /\ \A i, j \in 1..Len(events) : events[i].id = events[j].id => i = j

(* Fencing: once a lease with a newer fence has been granted, no write     *)
(* under an older fence is ever committed, whatever revision its holder    *)
(* has read since (_guard compares the whole lease).                       *)
FencesNeverRegress ==
  \A i, j \in 1..Len(events) : i < j => events[i].fence <= events[j].fence

(* Two leases are never in force at one time: when the first event of a    *)
(* newer fence is committed, every lease committed under an older fence,   *)
(* renewals included, has expired (recover_expired against heartbeat).     *)
LeaseTermsDisjoint ==
  \A i, j \in 1..Len(events) :
    events[i].fence < events[j].fence => events[i].expires <= events[j].at

(* A terminal task is final: no worker with an old lease, an old receipt   *)
(* or a call in doubt can change it again (reconcile drops the lease).     *)
TerminalIsFinal == [][task.status \in Terminal => UNCHANGED <<task, events>>]_vars

(* The file-backed authority keeps the abstract promise: every event is a  *)
(* claim, the beginning of a term, a write within it or its close.         *)
Phase ==
  CASE task.status = "open"    -> "free"
    [] task.status = "claimed" -> "claimed"
    [] task.status = "running" -> "held"
    [] OTHER                   -> "closed"

Authority == INSTANCE TaskAuthority WITH
  phase <- Phase, fence <- task.fence, until <- task.lease.expires,
  writes <- task.revision, now <- clock

ImplementsAuthority == Authority!Spec

---------------------------------------------------------------------------
(* For the model checker: operation ids are only compared.                 *)
Symmetry == Permutations(OperationIds)
===========================================================================
