-------------------------- MODULE LeaseService --------------------------
(***************************************************************************)
(* The shared lease boundary (scripts/lease_service.py): one lease on one  *)
(* task and worktree, changed by compare-and-set on its revision.  Time is *)
(* what the callers say it is: the service keeps the latest now it was     *)
(* given and refuses an earlier one.  A committed answer may be lost, or   *)
(* delayed and handed out later, oldest first, to whoever asks for it.     *)
(*                                                                         *)
(* A worker's lease identifier is LSE-<worker> (run_interleaving), so it   *)
(* is left out: two terms of one worker differ only in their fence.        *)
(***************************************************************************)
EXTENDS Integers, Sequences

CONSTANTS
  Workers,        \* the callers; a worker asks for leases of its own
  MaxOperations,  \* bound on the committed operations
  MaxClock,       \* bound on the times callers name
  Terms,          \* how long a lease is asked for, or extended by
  MaxFaults,      \* bound on the answers lost or delayed
  None            \* no owner

ASSUME TermsAssumption == Terms \subseteq Nat \ {0}
ASSUME BoundAssumption == {MaxOperations, MaxClock, MaxFaults} \subseteq Nat
ASSUME NoneAssumption == None \notin Workers

VARIABLES
  revision, lease, clock,   \* the state that snapshot returns
  operations,               \* operation id -> its request and response
  journal,                  \* the committed operations, in order
  delayed,                  \* responses held back
  faults,                   \* how many answers were lost or delayed
  known                     \* what each worker last learned of the lease

vars == <<revision, lease, clock, operations, journal, delayed, faults, known>>

(* Operation identifiers, in the order of their first use.                 *)
OperationIds == 1..MaxOperations

Times    == 0..MaxClock
Free     == [owner |-> None, fence |-> 0, expires |-> 0]
Snapshot == [revision |-> revision, lease |-> lease]

Request(op, rev, owner, fence, newOwner, now, expires) ==
  [op |-> op, revision |-> rev, owner |-> owner, fence |-> fence,
   newOwner |-> newOwner, now |-> now, expires |-> expires]

Unused == [request  |-> Request("none", 0, None, 0, None, 0, 0),
           response |-> [revision |-> 0, lease |-> Free]]

(* What worker w may ask for, from what it last learned: a lease of its    *)
(* own, what a holder asks for if it believes it is the holder, or the     *)
(* lease it believes another worker let expire.                            *)
CallsOf(w) ==
  LET rev == known[w].revision
      old == known[w].lease
  IN  {Request("acquire", rev, w, 0, None, now, now + t) : now \in Times, t \in Terms}
        \cup (IF old.owner # w THEN {} ELSE
              {Request("heartbeat", rev, w, old.fence, None, now, old.expires + t) :
                 now \in Times, t \in Terms}
                \cup {Request("release", rev, w, old.fence, None, now, 0) : now \in Times}
                \cup {Request("handoff", rev, w, old.fence, v, now, now + t) :
                        v \in Workers, now \in Times, t \in Terms})
        \cup (IF old.owner = None THEN {} ELSE
              {Request("recover_expired", rev, old.owner, old.fence, w, now, now + t) :
                 now \in Times, t \in Terms})

---------------------------------------------------------------------------
\* Mutated form of NamesTheLease: the fence is not compared.
NamesTheOwner(req) == req.owner = lease.owner

(* The request quotes the lease in force, its fence included.              *)
NamesTheLease(req) == req.owner = lease.owner /\ req.fence = lease.fence

\* Mutated form of LeaseIsOver: one tick early.
LeaseIsRunningOut(now) == now + 1 >= lease.expires

LeaseIsOver(now) == now >= lease.expires

(* _apply_mutation: what is refused, after the replay and CAS checks.      *)
Accepts(req) ==
  /\ req.now >= clock
  /\ \/ /\ req.op = "acquire"
        /\ lease.owner = None
        /\ req.expires > req.now
     \/ /\ req.op = "heartbeat"
        /\ NamesTheLease(req)
        /\ ~LeaseIsOver(req.now)
        /\ req.now > clock
        /\ req.expires > lease.expires
     \/ /\ req.op = "handoff"
        /\ NamesTheLease(req)
        /\ ~LeaseIsOver(req.now)
        /\ req.expires > req.now
     \/ /\ req.op = "recover_expired"
        /\ NamesTheLease(req)
        /\ LeaseIsOver(req.now)
        /\ req.expires > req.now
     \/ /\ req.op = "release"
        /\ NamesTheLease(req)
        /\ ~LeaseIsOver(req.now)

(* ... and the lease it leaves.  Every new term has a fence of its own; a  *)
(* release keeps the fence.                                                *)
NewTerm(owner, expires) ==
  [owner |-> owner, fence |-> lease.fence + 1, expires |-> expires]

After(req) ==
  CASE req.op = "acquire"   -> NewTerm(req.owner, req.expires)
    [] req.op = "heartbeat" -> [lease EXCEPT !.expires = req.expires]
    [] req.op = "release"   -> [lease EXCEPT !.owner = None, !.expires = 0]
    [] OTHER                -> NewTerm(req.newOwner, req.expires)

Init ==
  /\ revision = 1
  /\ lease = Free
  /\ clock = 0
  /\ operations = [id \in OperationIds |-> Unused]
  /\ journal = <<>>
  /\ delayed = <<>>
  /\ faults = 0
  /\ known = [w \in Workers |-> Snapshot]

\* Mutated form of IsNew: operation ids are not looked up.
IsAnyId(id) == id \in OperationIds

IsNew(id) == operations[id] = Unused

(* apply, a new operation id: compare-and-set, apply, remember, journal,   *)
(* and then answer, lose the answer or hold it back.                       *)
Commit(w, id, req) ==
  /\ IsNew(id)
  /\ req.revision = revision
  /\ Accepts(req)
  /\ LET response == [revision |-> revision + 1, lease |-> After(req)]
     IN  /\ lease' = response.lease
         /\ revision' = response.revision
         /\ operations' = [operations EXCEPT ![id] = [request |-> req, response |-> response]]
         /\ journal' = Append(journal,
              [id |-> id, op |-> req.op, by |-> w, quoted |-> req.fence,
               lease |-> response.lease, at |-> req.now])
         /\ \/ /\ known' = [known EXCEPT ![w] = response]
               /\ UNCHANGED <<delayed, faults>>
            \/ /\ faults < MaxFaults              \* ambiguous_after_commit
               /\ faults' = faults + 1
               /\ UNCHANGED <<delayed, known>>
            \/ /\ faults < MaxFaults              \* delay_response
               /\ faults' = faults + 1
               /\ delayed' = Append(delayed, response)
               /\ UNCHANGED known
  /\ clock' = req.now

(* Ids are used in order: a new call takes the next one, or one in use.    *)
Call(w) == \E id \in OperationIds \cap 1..Len(journal) + 1 : \E req \in CallsOf(w) : Commit(w, id, req)

(* apply, a remembered operation id: a worker that repeats its own request *)
(* is given the response of that time again, however old it is.            *)
Replay(w, id) ==
  /\ ~IsNew(id)
  /\ w = IF operations[id].request.op = "recover_expired"
         THEN operations[id].request.newOwner ELSE operations[id].request.owner
  /\ known[w] # operations[id].response
  /\ known' = [known EXCEPT ![w] = operations[id].response]
  /\ UNCHANGED <<revision, lease, clock, operations, journal, delayed, faults>>

(* deliver_delayed: the oldest response held back.                         *)
DeliverDelayed(w) ==
  /\ delayed # <<>>
  /\ known' = [known EXCEPT ![w] = Head(delayed)]
  /\ delayed' = Tail(delayed)
  /\ UNCHANGED <<revision, lease, clock, operations, journal, faults>>

(* snapshot: the worker takes in the state, or only the revision it has to *)
(* quote, keeping the lease of its last receipt.                           *)
ReadSnapshot(w) ==
  /\ known[w].revision # revision
  /\ known' \in {[known EXCEPT ![w] = Snapshot], [known EXCEPT ![w].revision = revision]}
  /\ UNCHANGED <<revision, lease, clock, operations, journal, delayed, faults>>

Next ==
  \E w \in Workers :
    \/ Call(w)
    \/ \E id \in OperationIds : Replay(w, id)
    \/ DeliverDelayed(w)
    \/ ReadSnapshot(w)

Spec == Init /\ [][Next]_vars

---------------------------------------------------------------------------
(* Properties                                                              *)

Leases    == [owner : Workers \cup {None}, fence : Nat, expires : Nat]
Responses == [revision : Nat, lease : Leases]
Kinds     == {"none", "acquire", "heartbeat", "handoff", "recover_expired", "release"}
Requests  == [op : Kinds, revision : Nat, owner : Workers \cup {None}, fence : Nat,
              newOwner : Workers \cup {None}, now : Nat, expires : Nat]
Entries   == [id : OperationIds, op : Kinds, by : Workers, quoted : Nat, lease : Leases, at : Times]

(* Every variable keeps its type, and a free lease is never in force.      *)
TypeOK ==
  /\ revision \in Nat
  /\ lease \in Leases
  /\ lease.owner = None <=> lease.expires = 0
  /\ clock \in Times
  /\ operations \in [OperationIds -> [request : Requests, response : Responses]]
  /\ journal \in Seq(Entries)
  /\ delayed \in Seq(Responses)
  /\ faults \in 0..MaxFaults
  /\ known \in [Workers -> Responses]

(* The holder after the i-th operation, and when the lease runs out.       *)
LeaseAfter(i) == IF i = 0 THEN Free ELSE journal[i].lease

(* A term ends in three ways only: its holder gives it back, its holder    *)
(* passes it on while it is in force, or it has run out by the service's   *)
(* clock; and it keeps one owner from its first operation to its last      *)
(* (_apply_mutation compares owner and fence, apply compares the revision).*)
TermsEndByHolderOrClock ==
  \A i \in 1..Len(journal) :
    LET before == LeaseAfter(i - 1)
        after  == journal[i].lease
    IN  /\ after.fence = before.fence =>
             /\ journal[i].by = before.owner
             /\ journal[i].quoted = before.fence
             /\ after.owner \in {before.owner, None}
        /\ after.fence # before.fence =>
             \/ before.owner = None
             \/ journal[i].by = before.owner
             \/ before.expires <= journal[i].at

EndedItself(w, fence) ==
  \E i \in 1..Len(journal) :
    /\ journal[i].by = w
    /\ journal[i].quoted = fence
    /\ journal[i].op \in {"release", "handoff"}

(* A worker whose last word, however late or often it came, is that it     *)
(* holds a lease not yet over does hold it, unless it gave that very term  *)
(* away itself: nobody takes a term over early (recover_expired), and no   *)
(* fence names two terms.                                                  *)
HolderIsNotDisplaced ==
  \A w \in Workers :
    LET own == known[w].lease
    IN  own.owner = w /\ clock < own.expires =>
          \/ lease.owner = w /\ lease.fence = own.fence /\ own.expires <= lease.expires
          \/ EndedItself(w, own.fence)

(* However often an answer is lost and its call repeated, an operation is  *)
(* applied once: the journal has one entry for each revision after the     *)
(* first, each under an operation id of its own.                           *)
AppliedOnce ==
  /\ revision = 1 + Len(journal)
  /\ \A i, j \in 1..Len(journal) : journal[i].id = journal[j].id => i = j

(* A term of the lease ends by its holder or by the clock, no worker whose *)
(* last word is that it holds the lease was displaced, and a repeated      *)
(* operation is applied once (apply, _apply_mutation).                     *)
HoldersKeepTheirTerms ==
  TypeOK /\ AppliedOnce /\ TermsEndByHolderOrClock /\ HolderIsNotDisplaced
===========================================================================
