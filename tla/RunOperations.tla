--------------------------- MODULE RunOperations ---------------------------
(***************************************************************************)
(* The journal of a run and the commands that control it                   *)
(* (scripts/run_operations.py): start, interrupt, resume, cancel, observe  *)
(* and recover, each a compare-and-set on the file under its lock, under   *)
(* the lease the run is bound to.                                          *)
(*                                                                         *)
(* The hash chain is the sequence; an artifact reference is an id and a    *)
(* digest.  The callers read the revision under no lock: a stale revision  *)
(* is refused and changes nothing, and is left out.                        *)
(***************************************************************************)
EXTENDS Naturals, Sequences, FiniteSets, FiniteSetsExt

CONSTANTS
    Leases,             \* [worker, fence, expires]
    FirstLease,
    OperationIds,       \* numbers, which the operators use in order
    PrivateIds,         \* those that match the pattern of private words
    Observations,       \* [state, coordinator, authorities, checkpoint, lease]
    Checkpoints,
    ArtifactIds, Digests,
    Deltas,             \* what a command may account for
    EventBudget, AccountingBudget,
    MaxTime,
    None

VARIABLES
    journal,    \* None or [lease, state, checkpoint, events, consumed, artifacts]
    now

vars == <<journal, now>>

References == [id : ArtifactIds, digest : Digests]

Init == journal = None /\ now = 0

\* _load, of what this module writes: _safe, the artifact ids and the accounting.
HasUniqueIds(artifacts) == \A a, b \in artifacts : a.id = b.id => a = b
IsAccounted(j) == j.consumed = MapThenSumSet(LAMBDA i : j.events[i].delta, DOMAIN j.events)
Loads(j) ==
    /\ \A i \in DOMAIN j.events : j.events[i].op \notin PrivateIds
    /\ HasUniqueIds(j.artifacts)
    /\ IsAccounted(j) /\ j.consumed <= AccountingBudget

Event(op, action, before, after, lease, by, seen, delta, artifacts) ==
    [op |-> op, action |-> action, before |-> before, after |-> after, lease |-> lease, by |-> by,
     seen |-> seen, delta |-> delta, artifacts |-> artifacts]

Start(op) ==
    /\ journal = None
    /\ journal' = [lease |-> FirstLease, state |-> "starting", checkpoint |-> None, consumed |-> 0, artifacts |-> {},
                   events |-> <<Event(op, "start", "starting", "starting", FirstLease, FirstLease, None, 0, {})>>]
    /\ UNCHANGED now

\* Mutated form of the next definition: the worker is compared, not the lease.
HoldsAsWorker(by) == by.worker = journal.lease.worker

Holds(by) == by = journal.lease

\* _append and the checks before it.
MayCommit(delta, artifacts) ==
    /\ Len(journal.events) < EventBudget
    /\ journal.consumed + delta <= AccountingBudget
    /\ artifacts \cap journal.artifacts = {}
Committed(op, action, after, by, seen, delta, artifacts) ==
    [journal EXCEPT !.state = after,
                    !.consumed = journal.consumed + delta,
                    !.artifacts = journal.artifacts \cup artifacts,
                    !.events = Append(journal.events,
                                      Event(op, action, journal.state, after, journal.lease, by, seen, delta, artifacts))]

\* The commands that only ask, _transition.
Requests ==
    [interrupt |-> [from |-> {"running"}, to |-> "interrupt_requested"],
     resume    |-> [from |-> {"interrupted"}, to |-> "resume_requested"],
     cancel    |-> [from |-> {"starting", "running", "interrupt_requested", "interrupted", "resume_requested",
                              "unknown"}, to |-> "cancel_requested"]]
Request(command, op, by, checkpoint, delta, artifacts) ==
    /\ now <= journal.lease.expires
    /\ journal.state \in Requests[command].from
    /\ command = "resume" => checkpoint = journal.checkpoint
    /\ MayCommit(delta, artifacts)
    /\ journal' = Committed(op, command, Requests[command].to, by, None, delta, artifacts)

Observable ==
    [starting |-> {"running", "blocked", "failed", "unknown"},
     running |-> {"running", "interrupted", "blocked", "awaiting_decision", "failed", "accepted", "unknown"},
     interrupt_requested |-> {"interrupted", "running", "failed", "unknown"},
     interrupted |-> {"interrupted", "unknown"},
     resume_requested |-> {"running", "interrupted", "failed", "unknown"},
     cancel_requested |-> {"cancelled", "running", "failed", "unknown"},
     unknown |-> {"unknown", "running", "interrupted", "failed", "blocked"},
     blocked |-> {"blocked", "unknown"},
     failed |-> {"failed", "unknown"},
     awaiting_decision |-> {"awaiting_decision", "accepted", "blocked", "failed", "unknown"},
     accepted |-> {}, cancelled |-> {}]

\* Success and cancellation follow the Coordinator's terminal status.
IsVerified(seen) ==
    /\ seen.state = "accepted" => seen.coordinator = "done" /\ seen.authorities = "all"
    /\ seen.state = "cancelled" => seen.coordinator = "cancelled"
    /\ seen.state = "interrupted" => seen.checkpoint # None

\* Mutated form of the next definition: the checkpoint outlives the run's going on.
CheckpointKept(seen) == IF seen.state = "interrupted" THEN seen.checkpoint ELSE journal.checkpoint

CheckpointAfter(seen) ==
    IF seen.state = "interrupted" THEN seen.checkpoint
    ELSE IF seen.state = "running" THEN None ELSE journal.checkpoint

Observe(op, by, seen, delta, artifacts) ==
    /\ now <= journal.lease.expires
    /\ seen.state \in Observable[journal.state]
    /\ IsVerified(seen) /\ seen.lease = journal.lease
    /\ MayCommit(delta, artifacts)
    /\ journal' = [Committed(op, "observe", seen.state, by, seen, delta, artifacts)
                   EXCEPT !.checkpoint = CheckpointAfter(seen)]

\* The lease is over, and the run goes on from its checkpoint under a newer one.
Recover(op, by, checkpoint, new, delta, artifacts) ==
    /\ now > journal.lease.expires
    /\ journal.state \in {"unknown", "interrupted", "failed", "blocked"}
    /\ checkpoint = journal.checkpoint /\ checkpoint # None
    /\ new.fence > journal.lease.fence /\ new.expires > now
    /\ MayCommit(delta, artifacts)
    /\ journal' = [Committed(op, "recover", "running", by, None, delta, artifacts) EXCEPT !.lease = new]

\* apply: under the lock the file is loaded, and the caller must quote its lease.
Apply(op, by, delta, artifacts) ==
    /\ journal # None /\ Loads(journal) /\ Holds(by)
    /\ \/ \E command \in DOMAIN Requests, c \in Checkpoints \cup {None} :
             Request(command, op, by, c, delta, artifacts)
       \/ \E seen \in Observations : Observe(op, by, seen, delta, artifacts)
       \/ \E c \in Checkpoints, new \in Leases : Recover(op, by, c, new, delta, artifacts)
    /\ UNCHANGED now

Tick == now < MaxTime /\ now' = now + 1 /\ UNCHANGED journal

\* A used id is refused.
Used == IF journal = None THEN {} ELSE {journal.events[i].op : i \in DOMAIN journal.events}
NewIds == {op \in OperationIds \ Used : \A other \in OperationIds \ (PrivateIds \cup Used) : op \in PrivateIds \/ op <= other}

Next ==
    \/ \E op \in NewIds : Start(op)
    \/ \E op \in NewIds, by \in Leases, delta \in Deltas, a \in {{}} \cup {{r} : r \in References} :
          Apply(op, by, delta, a)
    \/ Tick

Spec == Init /\ [][Next]_vars

-----------------------------------------------------------------------------
(* export_evidence, and what validate_export makes of it. *)

ExportIsValid(j) ==
    /\ \A i \in DOMAIN j.events : j.events[i].op \notin PrivateIds
    /\ HasUniqueIds(j.artifacts)
    /\ j.artifacts = UNION {j.events[i].artifacts : i \in DOMAIN j.events}
    /\ IsAccounted(j) /\ j.consumed <= AccountingBudget
    /\ j.events[Len(j.events)].after = j.state

-----------------------------------------------------------------------------
(* Properties. *)

States == DOMAIN Observable
Events ==
    [op : OperationIds, action : {"start", "observe", "recover"} \cup DOMAIN Requests, before : States, after : States,
     lease : Leases, by : Leases, seen : Observations \cup {None}, delta : Deltas \cup {0},
     artifacts : SUBSET References]
Journals ==
    [lease : Leases, state : States, checkpoint : Checkpoints \cup {None}, events : Seq(Events),
     consumed : Nat, artifacts : SUBSET References]

TypeOK ==
    /\ now \in 0..MaxTime
    /\ journal # None =>
          journal \in Journals /\ Len(journal.events) \in 1..EventBudget /\ journal.consumed <= AccountingBudget

\* The journal is one history: each event goes on where the last one stopped, it was
\* written by the holder of the lease the run was bound to then, and after a recovery
\* nobody writes under the lease before.
MutationsAreFenced ==
    journal # None => \A i \in DOMAIN journal.events :
        LET event == journal.events[i]
            last  == i = Len(journal.events)
            lease == IF last THEN journal.lease ELSE journal.events[i + 1].lease
            state == IF last THEN journal.state ELSE journal.events[i + 1].before IN
        /\ event.by = event.lease /\ event.after = state
        /\ event.action = "observe" => event.seen.lease = event.lease
        /\ IF event.action = "recover" THEN lease.fence > event.lease.fence ELSE lease = event.lease

\* What a run can be resumed or recovered from is what the worker saved when it was
\* interrupted last, and not from before it was seen running again.
CheckpointIsCurrent ==
    journal # None =>
        LET IsSeen(i, state) == journal.events[i].action = "observe" /\ journal.events[i].after = state IN
        /\ journal.checkpoint # None =>
              \E i \in DOMAIN journal.events :
                  /\ IsSeen(i, "interrupted") /\ journal.events[i].seen.checkpoint = journal.checkpoint
                  /\ \A j \in (i + 1)..Len(journal.events) : ~IsSeen(j, "running") /\ ~IsSeen(j, "interrupted")
        /\ journal.state \in {"interrupted", "resume_requested"} => journal.checkpoint # None

\* What can be loaded can be exported and is accepted by the validator: the journal's
\* totals are those of its events.
ExportsAreAccepted == journal # None /\ Loads(journal) => ExportIsValid(journal)

\* VIOLATED.  A known artifact id with another digest is no replay to apply.
ArtifactIdsAreUnique == journal # None => HasUniqueIds(journal.artifacts)

\* VIOLATED.  What apply and start accept they cannot always load again: an operation
\* id with a private word, or the artifact above, ends the run for good.
JournalStaysReadable == journal # None => Loads(journal)

\* VIOLATED.  A run whose lease is over while it was seen running has no checkpoint,
\* cannot be recovered, and can no longer be observed.
ExpiredRunsAreRecoverable ==
    journal # None /\ now > journal.lease.expires /\ journal.state \notin {"accepted", "cancelled"} =>
        journal.checkpoint # None /\ journal.state \in {"unknown", "interrupted", "failed", "blocked"}
=============================================================================
