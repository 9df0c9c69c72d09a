------------------------ MODULE AuthorityInteraction ------------------------
(***************************************************************************)
(* The reference model of the authority gates                              *)
(* (scripts/authority_interaction_model.py): the lifecycle of one job, in  *)
(* which every operation belongs to one authority.  Jobs share only the    *)
(* set of action ids.  A digest is the round it was made in.               *)
(***************************************************************************)
EXTENDS Naturals, FiniteSets

CONSTANTS
    MaxRevision,    \* bounds the recoveries
    MaxEvidence,    \* bounds the rounds of evidence and of checkpoints
    MaxActions,     \* bounds the actions
    Leases,
    None

BoundAssumption ==
    /\ MaxRevision \in Nat \ {0} /\ MaxEvidence \in Nat /\ MaxActions \in Nat
    /\ 0 \notin Leases
NoneAssumption == None \notin [evidence : 1..MaxEvidence, revision : 1..MaxRevision]

VARIABLES
    state,
    revision,
    lease,          \* "" before the first: 0
    checkpoint, evidence,           \* round, or None
    quality, guidance, ui,          \* *_status
    alternative,    \* material_alternative
    userRequired,   \* user_decision_required
    repair,         \* repair_required
    terminalCommit,
    seen,           \* event_ids
    judged,         \* history: [evidence, revision] of the last acceptance of the quality authority
    refused         \* history: the user refused the change that is open

gates == <<quality, guidance, ui, alternative, userRequired, repair>>
vars == <<state, revision, lease, checkpoint, evidence, gates, terminalCommit, seen, judged, refused>>

Active == {"new", "admitted", "leased", "dispatched", "executing", "quality_pending", "quality_accepted",
           "oracle_pending", "repair_pending", "ui_pending", "completion_pending", "recovering"}
Outcomes == {"approved", "rejected", "ambiguous", "expired"}

Init ==
    /\ state = "new" /\ revision = 1 /\ lease = 0
    /\ checkpoint = None /\ evidence = None
    /\ quality = "not_decided" /\ guidance = "not_required" /\ ui = "not_required"
    /\ alternative = FALSE /\ userRequired = FALSE /\ repair = FALSE /\ terminalCommit = FALSE
    /\ seen = {} /\ judged = None /\ refused = FALSE

\* What every action must match: its id is new, its revision and its lease are the job's.
Binds(id, rev, held) == id \notin seen /\ Cardinality(seen) < MaxActions /\ rev = revision /\ held = lease

Moves == {<<"new", "admit", "admitted">>, <<"dispatched", "start", "executing">>, <<"leased", "dispatch", "dispatched">>,
          <<"executing", "crash", "recovering">>, <<"executing", "failure", "blocked">>}

-----------------------------------------------------------------------------
(* The operations of the coordinator (awc) and the runtime (awr).            *)

Move ==
    /\ \E m \in Moves : state = m[1] /\ state' = m[3]
    /\ UNCHANGED <<revision, lease, checkpoint, evidence, gates, terminalCommit, judged, refused>>

Lease(new) ==
    /\ state = "admitted" /\ new # lease
    /\ state' = "leased" /\ lease' = new
    /\ UNCHANGED <<revision, checkpoint, evidence, gates, terminalCommit, judged, refused>>

SubmitEvidence(round) ==
    /\ state = "executing"
    /\ state' = "quality_pending" /\ evidence' = round
    /\ UNCHANGED <<revision, lease, checkpoint, gates, terminalCommit, judged, refused>>

Checkpoint(round) ==
    /\ state = "executing" /\ checkpoint' = round
    /\ UNCHANGED <<state, revision, lease, evidence, gates, terminalCommit, judged, refused>>

\* A recovery goes on from the last checkpoint; that the lease is a new one is not looked at.
MayRecover(mark) == mark = checkpoint

Recover(mark, new) ==
    /\ state = "recovering" /\ checkpoint # None /\ MayRecover(mark) /\ revision < MaxRevision
    /\ state' = "leased" /\ revision' = revision + 1 /\ lease' = new
    /\ UNCHANGED <<checkpoint, evidence, gates, terminalCommit, judged, refused>>

\* A blocked job is tried again if it has a lease, whatever blocked it.
Retry ==
    /\ state = "blocked" /\ lease # 0
    /\ state' = "executing"
    /\ UNCHANGED <<revision, lease, checkpoint, evidence, gates, terminalCommit, judged, refused>>

Block ==
    /\ state \in Active /\ state' = "blocked"
    /\ UNCHANGED <<revision, lease, checkpoint, evidence, gates, terminalCommit, judged, refused>>

\* Mutated form of the next definition.
GatesPassOnce == quality = "accepted"

\* No gate is open.
GatesPass == quality = "accepted" /\ ~alternative /\ guidance # "pending" /\ ui # "pending"

Continue ==
    /\ state = "quality_accepted" /\ GatesPass
    /\ state' = "executing"
    /\ UNCHANGED <<revision, lease, checkpoint, evidence, gates, terminalCommit, judged, refused>>

RequestCompletion ==
    /\ state \in {"executing", "quality_accepted"} /\ GatesPass
    /\ state' = "completion_pending"
    /\ UNCHANGED <<revision, lease, checkpoint, evidence, gates, terminalCommit, judged, refused>>

Commit ==
    /\ state = "completion_pending"
    /\ state' = "completed" /\ terminalCommit' = TRUE
    /\ UNCHANGED <<revision, lease, checkpoint, evidence, gates, judged, refused>>

\* A material alternative, of a kind that needs the user or not.
Alternative(user) ==
    /\ state = "quality_accepted"
    /\ state' = "oracle_pending"
    /\ alternative' = TRUE /\ guidance' = "pending" /\ userRequired' = user
    /\ UNCHANGED <<revision, lease, checkpoint, evidence, quality, ui, repair, terminalCommit, judged, refused>>

RepairEscalate ==
    /\ state \in {"executing", "quality_accepted"}
    /\ state' = "repair_pending"
    /\ alternative' = TRUE /\ guidance' = "pending" /\ userRequired' = TRUE /\ repair' = TRUE
    /\ UNCHANGED <<revision, lease, checkpoint, evidence, quality, ui, terminalCommit, judged, refused>>

-----------------------------------------------------------------------------
(* The verdicts: quality (awq), guidance (awg), the user (ui).               *)

\* An acceptance is of the evidence that was submitted last.
AcceptsEvidence(round) == round = evidence

QualityVerdict(result, round) ==
    /\ state = "quality_pending"
    /\ result = "accepted" => AcceptsEvidence(round)
    /\ quality' = result
    /\ state' = IF result = "accepted" THEN "quality_accepted" ELSE "blocked"
    /\ judged' = IF result = "accepted" THEN [evidence |-> round, revision |-> revision] ELSE judged
    /\ UNCHANGED <<revision, lease, checkpoint, evidence, guidance, ui, alternative, userRequired, repair, terminalCommit, refused>>

\* Mutated form of the next definition.
MayDecideAll(decision) == TRUE

\* A decision the user must take is passed on to the user.
MayDecide(decision) == userRequired => decision = "requires_ui"

GuidanceDecides(decision) ==
    /\ state \in {"oracle_pending", "repair_pending"} /\ MayDecide(decision)
    /\ guidance' = decision
    /\ ui' = IF decision = "requires_ui" THEN "pending" ELSE ui
    /\ alternative' = IF decision = "requires_ui" THEN alternative ELSE FALSE
    /\ state' = IF decision = "rejected" THEN "blocked"
                ELSE IF decision = "requires_ui" \/ state = "repair_pending" THEN "ui_pending"
                ELSE "quality_accepted"
    /\ UNCHANGED <<revision, lease, checkpoint, evidence, quality, userRequired, repair, terminalCommit, judged, refused>>

\* The state "executing" that an approved repair is given is overwritten by the
\* table's, which is the one behind an acceptance of the quality authority.
UiDecides(outcome) ==
    /\ state = "ui_pending"
    /\ ui' = outcome
    /\ IF outcome = "approved"
       THEN /\ alternative' = FALSE /\ guidance' = "approved" /\ userRequired' = FALSE /\ repair' = FALSE
            /\ state' = "quality_accepted" /\ refused' = FALSE
       ELSE /\ state' = "blocked" /\ refused' = userRequired
            /\ UNCHANGED <<alternative, guidance, userRequired, repair>>
    /\ UNCHANGED <<revision, lease, checkpoint, evidence, quality, terminalCommit, judged>>

Rounds == 1..MaxEvidence
Operation ==
    \/ Move \/ Retry \/ Block \/ Continue \/ RequestCompletion \/ Commit \/ RepairEscalate
    \/ \E new \in Leases : Lease(new)
    \/ \E round \in Rounds : SubmitEvidence(round) \/ Checkpoint(round)
    \/ \E mark \in Rounds, new \in Leases : Recover(mark, new)
    \/ \E user \in BOOLEAN : Alternative(user)
    \/ \E result \in {"accepted", "rejected"}, round \in Rounds : QualityVerdict(result, round)
    \/ \E decision \in {"approved", "rejected", "requires_ui"} : GuidanceDecides(decision)
    \/ \E outcome \in Outcomes : UiDecides(outcome)

\* The ids in use, and one that is new.
Apply(id, rev, held) ==
    /\ Binds(id, rev, held)
    /\ Operation
    /\ seen' = seen \cup {id}

Next == \E id \in 1..(Cardinality(seen) + 1), rev \in 1..MaxRevision, held \in Leases \cup {0} : Apply(id, rev, held)
Spec == Init /\ [][Next]_vars

-----------------------------------------------------------------------------
(* Properties. *)

TypeOK ==
    /\ state \in Active \cup {"completed", "blocked"} /\ revision \in 1..MaxRevision /\ lease \in Leases \cup {0}
    /\ {checkpoint, evidence} \subseteq Rounds \cup {None}
    /\ quality \in {"not_decided", "accepted", "rejected"} /\ ui \in Outcomes \cup {"not_required", "pending"}
    /\ seen = 1..Cardinality(seen)

\* The model's own invariants, but for the one below: work is done under a
\* lease, and a job is completed by the coordinator, on an acceptance of the
\* quality authority of some evidence of the job, with no alternative left open.
Working == {"dispatched", "executing", "quality_pending", "quality_accepted", "oracle_pending", "repair_pending",
            "ui_pending", "completion_pending", "completed"}
CompletedThroughTheGates ==
    /\ state \in Working => lease # 0
    /\ state \in {"completion_pending", "completed"} =>
          /\ quality = "accepted" /\ judged # None
          /\ ~alternative /\ guidance # "pending" /\ ui # "pending"
    /\ state = "completed" <=> terminalCommit

\* A decision that is the user's is not taken by guidance: an open change of such
\* a kind is closed by the user's approval, and by nothing that comes between.
UserDecision ==
    alternative /\ userRequired /\ ~alternative' => state = "ui_pending" /\ ui' = "approved"
UserDecidesTheUsers == [][UserDecision]_vars

\* VIOLATED.  "continuation_without_awq_acceptance": a repair the user approved is
\* in the state behind the acceptance, with none.
ContinuesOnAcceptance ==
    state \in {"quality_accepted", "oracle_pending", "completion_pending", "completed"} => quality = "accepted"

\* VIOLATED.  What is completed was accepted: as it is, at its revision.  A job that
\* was recovered, or blocked before its new evidence was judged and tried again,
\* completes on the acceptance from before.
CompletedAsAccepted == state = "completed" => judged = [evidence |-> evidence, revision |-> revision]

\* VIOLATED.  A recovery takes the lease from the worker before: it may name the same.
RecoveryFences == [][revision' > revision => lease' # lease]_vars

\* VIOLATED.  What the user refused is not done: the job is tried again, and
\* another change of a kind guidance may decide closes the one that was refused.
RefusalsStand == refused => state # "completed"
=============================================================================
