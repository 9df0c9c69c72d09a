-------------------- MODULE AutonomousOrchestratorProofs --------------------
(***************************************************************************)
(* Machine-checked proofs about the autonomous orchestrator: what the run  *)
(* journal says of a task agrees with its authority, its gates and its     *)
(* attempt budget, and worktrees are exclusive.  They hold for any graph   *)
(* of tasks, any budgets, any number of crashes and of lost answers.       *)
(***************************************************************************)
EXTENDS AutonomousOrchestrator, TLAPS

Statuses == DOMAIN Follows \cup Terminal
CoordStatuses == {"open", "claimed", "running", "done", "blocked", "failed"}

---------------------------------------------------------------------------
(* The inductive invariant.  Jobs exist in a pass only, and are in its     *)
(* batch until they are collected.                                         *)
JobsOfThePass ==
  /\ phase # "pass" => \A t \in Tasks : job[t] = "none"
  /\ \A t \in Tasks : job[t] # "none" => t \in batch

OnePerWorktree ==
  \A t, u \in Tasks : t # u /\ job[t] # "none" /\ job[u] # "none" => Worktree[t] # Worktree[u]

(* A job past its gates has their acceptance, and one past the authority's *)
(* last word has that; who is terminal has nothing left to do.             *)
EndedIn(t) ==
  /\ status[t] \in Terminal => job[t] \in {"none", "returned"}
  /\ status[t] = "completed" => coord[t].status = "done" /\ gates[t] \in Accepted
  /\ job[t] \in {"guidance", "ui", "gates_event", "finish", "complete"} => gates[t] \in Accepted
  /\ job[t] = "complete" => coord[t].status = "done"

(* What the authority has granted where a job stands.                      *)
BeforeTheLease == {"none", "start", "admit", "claim", "raised", "returned", "deferred"}

GrantedIn(t) ==
  /\ coord[t].status = "open" =>
       job[t] \in BeforeTheLease /\ status[t] \in {"planned", "ready", "failed", "blocked"}
  /\ coord[t].status \in {"open", "claimed"} => coord[t].fence = 0
  /\ job[t] = "claim" => coord[t].status = "open"
  /\ job[t] = "lease" => coord[t].status = "claimed"
  /\ job[t] \in {"recheck", "recover", "working"} => coord[t].status = "running"
  /\ job[t] \in {"launch", "working"} => status[t] = "executing"

(* The attempts of the journal are behind the fence by the lease that is   *)
(* not journalled yet, and a lease is recovered from a checkpoint that was *)
(* journalled as an attempt: so the budget bounds the fence.               *)
CountedIn(t) ==
  /\ checkpoint[t] <= attempts[t]
  /\ checkpoint[t] <= coord[t].fence
  /\ coord[t].fence <= MaxAttempts[t]
  /\ job[t] = "recover" => attempts[t] < MaxAttempts[t]
  /\ job[t] \in {"recheck", "recover", "admit", "claim", "lease", "observe"} => status[t] # "leased"
  /\ job[t] \in {"admit", "observe"} => coord[t].fence <= attempts[t] + 1
  /\ job[t] \in {"execute", "launch", "working"} => coord[t].fence <= attempts[t] /\ attempts[t] >= 1

Own(t) == EndedIn(t) /\ GrantedIn(t) /\ CountedIn(t)

(* Who has a job, or has had one, waited for those it depends on.          *)
WaitedFor(t) ==
  job[t] # "none" \/ coord[t].status # "open" =>
    \A d \in Dependencies[t] : status[d] = "completed"

IInv ==
  /\ TypeOK /\ JobsOfThePass /\ OnePerWorktree
  /\ \A t \in Tasks : Own(t) /\ WaitedFor(t)

---------------------------------------------------------------------------
(* The words of the tables.                                                *)
LEMMA StatusWords ==
  Statuses = {"planned", "ready", "leased", "executing", "streaming", "evidence_pending",
              "quality_pending", "guidance_pending", "ui_pending", "repair_pending",
              "recovering", "completed", "blocked", "failed"}
BY DEF Statuses, Follows, Terminal

LEMMA PcWords ==
  Pcs = {"none", "start", "recheck", "recover", "admit", "claim", "lease", "launch", "working",
         "interact", "gate", "returned", "deferred", "raised", "observe", "execute", "stream",
         "evidence", "quality", "guidance", "ui", "complete", "note_failed", "note_blocked",
         "interaction_event", "gates_event", "finish", "close_failed", "close_blocked"}
<1>1. DOMAIN JournalStep = {"observe", "execute", "stream", "evidence", "quality", "guidance",
                            "ui", "complete", "note_failed", "note_blocked"}
  BY DEF JournalStep
<1>2. DOMAIN EventStep = {"interaction_event", "gates_event"}
  BY DEF EventStep
<1>3. DOMAIN CloseStep = {"finish", "close_failed", "close_blocked"}
  BY DEF CloseStep
<1>4. QED
  BY <1>1, <1>2, <1>3 DEF Pcs

(* Which status a journal step writes, and where it goes.                  *)
LEMMA JournalStepIs ==
  ASSUME NEW pc \in DOMAIN JournalStep
  PROVE  \/ pc = "observe" /\ JournalStep[pc][1] = "leased" /\ JournalStep[pc][2] = "execute"
         \/ pc = "execute" /\ JournalStep[pc][1] = "executing" /\ JournalStep[pc][2] = "launch"
         \/ pc = "stream" /\ JournalStep[pc][1] = "streaming" /\ JournalStep[pc][2] = "interact"
         \/ pc = "evidence" /\ JournalStep[pc][1] = "evidence_pending" /\ JournalStep[pc][2] = "quality"
         \/ pc = "quality" /\ JournalStep[pc][1] = "quality_pending" /\ JournalStep[pc][2] = "gate"
         \/ pc = "guidance" /\ JournalStep[pc][1] = "guidance_pending" /\ JournalStep[pc][2] = "ui"
         \/ pc = "ui" /\ JournalStep[pc][1] = "ui_pending" /\ JournalStep[pc][2] = "gates_event"
         \/ pc = "complete" /\ JournalStep[pc][1] = "completed" /\ JournalStep[pc][2] = "returned"
         \/ pc = "note_failed" /\ JournalStep[pc][1] = "failed" /\ JournalStep[pc][2] = "returned"
         \/ pc = "note_blocked" /\ JournalStep[pc][1] = "blocked" /\ JournalStep[pc][2] = "returned"
BY DEF JournalStep

LEMMA EventStepIs ==
  ASSUME NEW pc \in DOMAIN EventStep
  PROVE  \/ pc = "interaction_event" /\ EventStep[pc] = "evidence"
         \/ pc = "gates_event" /\ EventStep[pc] = "finish"
BY DEF EventStep

LEMMA CloseStepIs ==
  ASSUME NEW pc \in DOMAIN CloseStep
  PROVE  \/ pc = "finish" /\ CloseStep[pc][1] = "done" /\ CloseStep[pc][2] = "complete"
         \/ pc = "close_failed" /\ CloseStep[pc][1] = "failed" /\ CloseStep[pc][2] = "note_failed"
         \/ pc = "close_blocked" /\ CloseStep[pc][1] = "blocked" /\ CloseStep[pc][2] = "note_blocked"
BY DEF CloseStep

---------------------------------------------------------------------------
(* The journal: either the status is written, from one that is not over,   *)
(* or the lifecycle refuses it and the job has failed.                     *)
JournalOnly(t) ==
  \A u \in Tasks : u # t => /\ status'[u] = status[u] /\ attempts'[u] = attempts[u]
                            /\ job'[u] = job[u]

Written(t, new, next) ==
  /\ status'[t] = new /\ job'[t] = next
  /\ status[t] = new \/ status[t] \notin Terminal
  /\ attempts'[t] = IF new = "leased" /\ status[t] # new THEN attempts[t] + 1 ELSE attempts[t]

Unwritten(t) == status'[t] = status[t] /\ job'[t] = "raised" /\ attempts'[t] = attempts[t]

LEMMA TransitionIs ==
  ASSUME TypeOK, NEW t \in Tasks, NEW new \in Statuses, NEW next \in Pcs, Transition(t, new, next)
  PROVE  /\ status' \in [Tasks -> Statuses] /\ attempts' \in [Tasks -> Nat] /\ job' \in [Tasks -> Pcs]
         /\ JournalOnly(t)
         /\ Written(t, new, next) \/ Unwritten(t)
<1>0. "raised" \in Pcs /\ status \in [Tasks -> Statuses] /\ attempts \in [Tasks -> Nat]
      /\ job \in [Tasks -> Pcs]
  BY PcWords DEF TypeOK, Statuses
<1>1. CASE status[t] = new \/ MayFollow(status[t], new)
  <2>1. status' = [status EXCEPT ![t] = new] /\ job' = [job EXCEPT ![t] = next]
        /\ attempts' = IF new = "leased" /\ status[t] # new
                       THEN [attempts EXCEPT ![t] = @ + 1] ELSE attempts
    BY <1>1 DEF Transition, Journal, Goto
  <2>2. status[t] = new \/ status[t] \notin Terminal
    BY <1>1 DEF MayFollow
  <2>3. CASE new = "leased" /\ status[t] # new
    BY <1>0, <2>1, <2>2, <2>3 DEF JournalOnly, Written
  <2>4. CASE ~(new = "leased" /\ status[t] # new)
    BY <1>0, <2>1, <2>2, <2>4 DEF JournalOnly, Written
  <2>5. QED
    BY <2>3, <2>4
<1>2. CASE ~(status[t] = new \/ MayFollow(status[t], new))
  BY <1>0, <1>2 DEF Transition, Goto, JournalOnly, Unwritten
<1>3. QED
  BY <1>1, <1>2
---------------------------------------------------------------------------
(* A step about one task leaves the other tasks alone, starts no job, and  *)
(* changes no status that is terminal.                                     *)
Elsewhere(t) ==
  \A u \in Tasks : u # t =>
    /\ status'[u] = status[u] /\ attempts'[u] = attempts[u] /\ coord'[u] = coord[u]
    /\ checkpoint'[u] = checkpoint[u] /\ gates'[u] = gates[u] /\ job'[u] = job[u]

Within(t) ==
  /\ Elsewhere(t) /\ phase' = phase
  /\ batch' = batch \/ (batch' = batch \ {t} /\ job'[t] = "none")
  /\ status[t] \in Terminal => status'[t] = status[t]
  /\ job[t] = "none" => job'[t] = "none" /\ coord'[t].status = coord[t].status

Coords == [status : CoordStatuses, fence : Nat, expired : BOOLEAN]

(* An authority after a claim, a grant or a reconciliation.                *)
LEMMA CoordIs ==
  ASSUME TypeOK, NEW t \in Tasks
  PROVE  /\ coord[t] \in Coords
         /\ \A c \in Coords : /\ [coord EXCEPT ![t] = c] \in [Tasks -> Coords]
                              /\ [coord EXCEPT ![t] = c][t] = c
                              /\ \A u \in Tasks : u # t => [coord EXCEPT ![t] = c][u] = coord[u]
BY DEF TypeOK, Coords, CoordStatuses

LEMMA StatusChanged ==
  ASSUME TypeOK, NEW t \in Tasks, NEW st \in CoordStatuses,
         coord' = [coord EXCEPT ![t].status = st]
  PROVE  /\ coord' \in [Tasks -> Coords]
         /\ coord'[t].status = st /\ coord'[t].fence = coord[t].fence
         /\ \A u \in Tasks : u # t => coord'[u] = coord[u]
<1>1. coord[t] \in Coords
  BY CoordIs
<1>2. [coord[t] EXCEPT !.status = st] \in Coords
  BY <1>1 DEF Coords, CoordStatuses
<1>3. coord' = [coord EXCEPT ![t] = [coord[t] EXCEPT !.status = st]]
  OBVIOUS
<1>4. QED
  BY <1>1, <1>2, <1>3, CoordIs DEF Coords

LEMMA FenceRaised ==
  ASSUME TypeOK, NEW t \in Tasks,
         coord' = [coord EXCEPT ![t].fence = @ + 1, ![t].expired = FALSE]
  PROVE  /\ coord' \in [Tasks -> Coords]
         /\ coord'[t].status = coord[t].status /\ coord'[t].fence = coord[t].fence + 1
         /\ \A u \in Tasks : u # t => coord'[u] = coord[u]
<1> DEFINE r == [coord[t] EXCEPT !.fence = coord[t].fence + 1]
           c == [r EXCEPT !.expired = FALSE]
<1>1. coord[t] \in Coords /\ coord \in [Tasks -> Coords]
  BY CoordIs DEF TypeOK, Coords, CoordStatuses
<1>2. r \in Coords /\ r.status = coord[t].status /\ r.fence = coord[t].fence + 1
  BY <1>1 DEF Coords, CoordStatuses
<1>3. c \in Coords /\ c.status = coord[t].status /\ c.fence = coord[t].fence + 1
  BY <1>2 DEF Coords, CoordStatuses
<1>4. c = [coord[t] EXCEPT !.fence = coord[t].fence + 1, !.expired = FALSE]
  OBVIOUS
<1>5. coord' = [coord EXCEPT ![t] = [coord[t] EXCEPT !.fence = coord[t].fence + 1, !.expired = FALSE]]
  BY <1>1
<1>6. coord' = [coord EXCEPT ![t] = c]
  BY <1>4, <1>5
<1>7. QED
  BY <1>1, <1>3, <1>6, CoordIs

LEMMA LeaseGranted ==
  ASSUME TypeOK, NEW t \in Tasks,
         coord' = [coord EXCEPT ![t].status = "running", ![t].fence = @ + 1, ![t].expired = FALSE]
  PROVE  /\ coord' \in [Tasks -> Coords]
         /\ coord'[t].status = "running" /\ coord'[t].fence = coord[t].fence + 1
         /\ \A u \in Tasks : u # t => coord'[u] = coord[u]
<1> DEFINE q == [coord[t] EXCEPT !.status = "running"]
           r == [q EXCEPT !.fence = coord[t].fence + 1]
           c == [r EXCEPT !.expired = FALSE]
<1>1. coord[t] \in Coords /\ coord \in [Tasks -> Coords]
  BY CoordIs DEF TypeOK, Coords, CoordStatuses
<1>2. q \in Coords /\ q.status = "running" /\ q.fence = coord[t].fence
  BY <1>1 DEF Coords, CoordStatuses
<1>3. r \in Coords /\ r.status = "running" /\ r.fence = coord[t].fence + 1
  BY <1>1, <1>2 DEF Coords, CoordStatuses
<1>4. c \in Coords /\ c.status = "running" /\ c.fence = coord[t].fence + 1
  BY <1>3 DEF Coords, CoordStatuses
<1>5. c = [coord[t] EXCEPT !.status = "running", !.fence = coord[t].fence + 1, !.expired = FALSE]
  OBVIOUS
<1>6. coord' = [coord EXCEPT ![t] =
                  [coord[t] EXCEPT !.status = "running", !.fence = coord[t].fence + 1, !.expired = FALSE]]
  BY <1>1
<1>7. coord' = [coord EXCEPT ![t] = c]
  BY <1>5, <1>6
<1>8. QED
  BY <1>1, <1>4, <1>7, CoordIs

LEMMA GotoIs ==
  ASSUME TypeOK, NEW t \in Tasks, NEW pc \in Pcs, Goto(t, pc)
  PROVE  /\ job' \in [Tasks -> Pcs] /\ job'[t] = pc
         /\ \A u \in Tasks : u # t => job'[u] = job[u]
BY DEF TypeOK, Goto

(* A step that only moves the job.                                         *)
LEMMA MoveIs ==
  ASSUME TypeOK, NEW t \in Tasks, NEW pc \in Pcs, Goto(t, pc), job[t] # "none",
         UNCHANGED <<durable, phase, batch, deferred>>, faults' \in Nat
  PROVE  TypeOK' /\ Within(t) /\ job'[t] = pc
<1>1. /\ job' \in [Tasks -> Pcs] /\ job'[t] = pc
      /\ \A u \in Tasks : u # t => job'[u] = job[u]
  BY GotoIs
<1>2. TypeOK'
  BY <1>1 DEF TypeOK, durable
<1>3. Within(t)
  BY <1>1 DEF Within, Elsewhere, durable
<1>4. QED
  BY <1>1, <1>2, <1>3

(* A step that moves the job and changes what the authority has.           *)
LEMMA GrantIs ==
  ASSUME TypeOK, NEW t \in Tasks, NEW pc \in Pcs, Goto(t, pc), job[t] # "none",
         coord' \in [Tasks -> Coords], \A u \in Tasks : u # t => coord'[u] = coord[u],
         UNCHANGED <<status, attempts, checkpoint, gates, phase, batch, deferred>>, faults' \in Nat
  PROVE  TypeOK' /\ Within(t) /\ job'[t] = pc
<1>1. /\ job' \in [Tasks -> Pcs] /\ job'[t] = pc
      /\ \A u \in Tasks : u # t => job'[u] = job[u]
  BY GotoIs
<1>2. TypeOK'
  BY <1>1 DEF TypeOK, Coords, CoordStatuses
<1>3. Within(t)
  BY <1>1 DEF Within, Elsewhere
<1>4. QED
  BY <1>1, <1>2, <1>3

(* A step that writes the journal.                                         *)
LEMMA WriteIs ==
  ASSUME TypeOK, NEW t \in Tasks, NEW new \in Statuses, NEW next \in Pcs, Transition(t, new, next),
         job[t] # "none", status[t] \in Terminal => status[t] = new,
         UNCHANGED <<coord, checkpoint, gates, phase, batch, deferred>>, faults' \in Nat
  PROVE  TypeOK' /\ Within(t) /\ (Written(t, new, next) \/ Unwritten(t))
<1>1. /\ status' \in [Tasks -> Statuses] /\ attempts' \in [Tasks -> Nat] /\ job' \in [Tasks -> Pcs]
      /\ JournalOnly(t)
      /\ Written(t, new, next) \/ Unwritten(t)
  BY TransitionIs
<1>2. TypeOK'
  BY <1>1 DEF TypeOK, Statuses
<1>3. status[t] \in Terminal => status'[t] = status[t]
  BY <1>1 DEF Written, Unwritten
<1>4. Within(t)
  BY <1>1, <1>3 DEF Within, Elsewhere, JournalOnly
<1>5. QED
  BY <1>1, <1>2, <1>4
---------------------------------------------------------------------------
(* Each step of a job keeps what the invariant says of its task.           *)
LEMMA Numbers ==
  ASSUME TypeOK, NEW t \in Tasks
  PROVE  /\ attempts[t] \in Nat /\ checkpoint[t] \in Nat /\ MaxAttempts[t] \in 1..3
         /\ coord[t].fence \in Nat /\ coord[t].status \in CoordStatuses
         /\ status[t] \in Statuses /\ job[t] \in Pcs
BY LimitAssumption DEF TypeOK, CoordStatuses, Statuses

LEMMA MoveKeeps ==
  ASSUME TypeOK, NEW t \in Tasks, Own(t), NEW pc \in Pcs, Goto(t, pc),
         job[t] \notin {"none", "returned"},
         UNCHANGED <<durable, phase, batch, deferred>>, faults' \in Nat,
         pc \notin {"claim", "lease", "recheck", "recover", "working", "launch", "admit", "observe",
                    "execute", "guidance", "ui", "gates_event", "finish", "complete"},
         coord[t].status = "open" => pc \in BeforeTheLease
  PROVE  TypeOK' /\ Within(t) /\ Own(t)'
<1>1. TypeOK' /\ Within(t) /\ job'[t] = pc
  BY MoveIs
<1>2. status[t] \notin Terminal
  BY DEF Own, EndedIn
<1>3. Own(t)'
  BY <1>1, <1>2 DEF Own, EndedIn, GrantedIn, CountedIn, BeforeTheLease, Terminal, Accepted, durable
<1>4. QED
  BY <1>1, <1>3

LEMMA StartJobKeeps ==
  ASSUME TypeOK, NEW t \in Tasks, Own(t), StartJob(t)
  PROVE  TypeOK' /\ Within(t) /\ Own(t)'
<1>0. job[t] = "start" /\ status[t] \notin Terminal /\ faults' \in Nat
  BY DEF StartJob, Own, EndedIn, TypeOK
<1>1. CASE coord[t].status = "running"
  <2>1. Transition(t, "recovering", "recheck")
    BY <1>1 DEF StartJob
  <2>2. TypeOK' /\ Within(t) /\ (Written(t, "recovering", "recheck") \/ Unwritten(t))
    BY <1>0, <2>1, WriteIs, StatusWords, PcWords DEF StartJob
  <2>3. Own(t)'
    BY <1>0, <1>1, <2>2, Numbers
      DEF StartJob, Written, Unwritten, Own, EndedIn, GrantedIn, CountedIn, BeforeTheLease, Terminal, Accepted
  <2>4. QED
    BY <2>2, <2>3
<1>2. CASE coord[t].status = "open"
  <2>1. Goto(t, "admit") /\ UNCHANGED <<status, attempts>>
    BY <1>2 DEF StartJob
  <2>2. TypeOK' /\ Within(t) /\ job'[t] = "admit"
    BY <1>0, <2>1, MoveIs, PcWords DEF StartJob, durable
  <2>3. Own(t)'
    BY <1>0, <1>2, <2>1, <2>2, Numbers
      DEF StartJob, Own, EndedIn, GrantedIn, CountedIn, BeforeTheLease, Terminal, Accepted
  <2>4. QED
    BY <2>2, <2>3
<1>3. CASE coord[t].status = "done" /\ gates[t] = "approved"
  <2>1. Transition(t, "completed", "returned")
    BY <1>3 DEF StartJob
  <2>2. TypeOK' /\ Within(t) /\ (Written(t, "completed", "returned") \/ Unwritten(t))
    BY <1>0, <2>1, WriteIs, StatusWords, PcWords DEF StartJob
  <2>3. Own(t)'
    BY <1>0, <1>3, <2>2, Numbers
      DEF StartJob, Written, Unwritten, Own, EndedIn, GrantedIn, CountedIn, BeforeTheLease, Terminal, Accepted
  <2>4. QED
    BY <2>2, <2>3
<1>4. CASE /\ coord[t].status \notin {"running", "open"}
           /\ ~(coord[t].status = "done" /\ gates[t] = "approved")
  <2>1. Goto(t, "raised") /\ UNCHANGED <<status, attempts>>
    BY <1>4 DEF StartJob
  <2>2. QED
    BY <1>0, <2>1, MoveKeeps, PcWords DEF StartJob, durable, BeforeTheLease
<1>5. QED
  BY <1>1, <1>2, <1>3, <1>4

LEMMA RecheckKeeps ==
  ASSUME TypeOK, NEW t \in Tasks, Own(t), Recheck(t)
  PROVE  TypeOK' /\ Within(t) /\ Own(t)'
<1>0. job[t] = "recheck" /\ status[t] \notin Terminal /\ faults' \in Nat
      /\ UNCHANGED <<durable, phase, batch, deferred>>
  BY DEF Recheck, Own, EndedIn, TypeOK
<1>1. CASE Goto(t, "recover") /\ attempts[t] < MaxAttempts[t]
  <2>1. TypeOK' /\ Within(t) /\ job'[t] = "recover"
    BY <1>0, <1>1, MoveIs, PcWords
  <2>2. Own(t)'
    BY <1>0, <1>1, <2>1, Numbers
      DEF durable, Own, EndedIn, GrantedIn, CountedIn, BeforeTheLease, Terminal, Accepted
  <2>3. QED
    BY <2>1, <2>2
<1>2. CASE Goto(t, "deferred") \/ Goto(t, "raised")
  BY <1>0, <1>2, MoveKeeps, PcWords DEF BeforeTheLease
<1>3. QED
  BY <1>1, <1>2, Numbers DEF Recheck

LEMMA RecoverKeeps ==
  ASSUME TypeOK, NEW t \in Tasks, Own(t), Recover(t)
  PROVE  TypeOK' /\ Within(t) /\ Own(t)'
<1>0. job[t] = "recover" /\ status[t] \notin Terminal /\ faults' \in Nat
  BY DEF Recover, Own, EndedIn, TypeOK
<1>1. CASE checkpoint[t] = coord[t].fence
  <2>1. Goto(t, "admit") /\ coord' = [coord EXCEPT ![t].fence = @ + 1, ![t].expired = FALSE]
    BY <1>1 DEF Recover
  <2>2. /\ coord' \in [Tasks -> Coords]
        /\ coord'[t].status = coord[t].status /\ coord'[t].fence = coord[t].fence + 1
        /\ \A u \in Tasks : u # t => coord'[u] = coord[u]
    BY <2>1, FenceRaised
  <2>3. TypeOK' /\ Within(t) /\ job'[t] = "admit"
    BY <1>0, <2>1, <2>2, GrantIs, PcWords DEF Recover
  <2>4. Own(t)'
    BY <1>0, <1>1, <2>2, <2>3, Numbers
      DEF Recover, Own, EndedIn, GrantedIn, CountedIn, BeforeTheLease, Terminal, Accepted
  <2>5. QED
    BY <2>3, <2>4
<1>2. CASE checkpoint[t] # coord[t].fence
  BY <1>0, <1>2, MoveKeeps, PcWords DEF Recover, durable, BeforeTheLease
<1>3. QED
  BY <1>1, <1>2
LEMMA AdmitKeeps ==
  ASSUME TypeOK, NEW t \in Tasks, Own(t), Admit(t)
  PROVE  TypeOK' /\ Within(t) /\ Own(t)'
<1>0. job[t] = "admit" /\ status[t] \notin Terminal /\ faults' \in Nat
      /\ UNCHANGED <<durable, phase, batch, deferred>>
  BY DEF Admit, Own, EndedIn, TypeOK
<1>1. CASE Goto(t, "claim") /\ coord[t].status = "open"
  <2>1. TypeOK' /\ Within(t) /\ job'[t] = "claim"
    BY <1>0, <1>1, MoveIs, PcWords
  <2>2. Own(t)'
    BY <1>0, <1>1, <2>1, Numbers
      DEF durable, Own, EndedIn, GrantedIn, CountedIn, BeforeTheLease, Terminal, Accepted
  <2>3. QED
    BY <2>1, <2>2
<1>2. CASE Goto(t, "observe") /\ coord[t].status # "open"
  <2>1. TypeOK' /\ Within(t) /\ job'[t] = "observe"
    BY <1>0, <1>2, MoveIs, PcWords
  <2>2. Own(t)'
    BY <1>0, <1>2, <2>1, Numbers
      DEF durable, Own, EndedIn, GrantedIn, CountedIn, BeforeTheLease, Terminal, Accepted
  <2>3. QED
    BY <2>1, <2>2
<1>3. CASE Goto(t, "raised")
  BY <1>0, <1>3, MoveKeeps, PcWords DEF BeforeTheLease
<1>4. QED
  BY <1>1, <1>2, <1>3 DEF Admit

LEMMA ClaimKeeps ==
  ASSUME TypeOK, NEW t \in Tasks, Own(t), Claim(t)
  PROVE  TypeOK' /\ Within(t) /\ Own(t)'
<1>0. job[t] = "claim" /\ status[t] \notin Terminal /\ faults' \in Nat
  BY DEF Claim, Own, EndedIn, TypeOK
<1>1. /\ coord' \in [Tasks -> Coords]
      /\ coord'[t].status = "claimed" /\ coord'[t].fence = coord[t].fence
      /\ \A u \in Tasks : u # t => coord'[u] = coord[u]
  BY StatusChanged DEF Claim, CoordStatuses
<1>2. TypeOK' /\ Within(t) /\ job'[t] = "lease"
  BY <1>0, <1>1, GrantIs, PcWords DEF Claim
<1>3. Own(t)'
  BY <1>0, <1>1, <1>2, Numbers
    DEF Claim, Own, EndedIn, GrantedIn, CountedIn, BeforeTheLease, Terminal, Accepted
<1>4. QED
  BY <1>2, <1>3

LEMMA LeaseKeeps ==
  ASSUME TypeOK, NEW t \in Tasks, Own(t), Lease(t)
  PROVE  TypeOK' /\ Within(t) /\ Own(t)'
<1>0. job[t] = "lease" /\ status[t] \notin Terminal /\ faults' \in Nat
  BY DEF Lease, Own, EndedIn, TypeOK
<1>1. /\ coord' \in [Tasks -> Coords]
      /\ coord'[t].status = "running" /\ coord'[t].fence = coord[t].fence + 1
      /\ \A u \in Tasks : u # t => coord'[u] = coord[u]
  BY LeaseGranted DEF Lease
<1>2. TypeOK' /\ Within(t) /\ job'[t] = "observe"
  BY <1>0, <1>1, GrantIs, PcWords DEF Lease
<1>3. Own(t)'
  BY <1>0, <1>1, <1>2, Numbers
    DEF Lease, Own, EndedIn, GrantedIn, CountedIn, BeforeTheLease, Terminal, Accepted
<1>4. QED
  BY <1>2, <1>3

(* The authority learns that a task failed, or how it ended.               *)
LEMMA CloseKeeps ==
  ASSUME TypeOK, NEW t \in Tasks, Own(t), NEW pc \in Pcs, NEW st \in {"done", "failed", "blocked"},
         coord' = [coord EXCEPT ![t].status = st], Goto(t, pc), LeaseIsLive(t),
         job[t] \notin {"none", "returned"}, faults' \in Nat,
         \/ pc \in {"raised", "note_failed", "note_blocked"}
         \/ pc = "complete" /\ st = "done" /\ gates[t] \in Accepted,
         UNCHANGED <<status, attempts, checkpoint, gates, phase, batch, deferred>>
  PROVE  TypeOK' /\ Within(t) /\ Own(t)'
<1>1. /\ coord' \in [Tasks -> Coords]
      /\ coord'[t].status = st /\ coord'[t].fence = coord[t].fence
      /\ \A u \in Tasks : u # t => coord'[u] = coord[u]
  BY StatusChanged DEF CoordStatuses
<1>2. TypeOK' /\ Within(t) /\ job'[t] = pc
  BY <1>1, GrantIs
<1>3. status[t] \notin Terminal
  BY DEF Own, EndedIn
<1>4. Own(t)'
  BY <1>1, <1>2, <1>3, Numbers
    DEF LeaseIsLive, Own, EndedIn, GrantedIn, CountedIn, BeforeTheLease, Terminal, Accepted
<1>5. QED
  BY <1>2, <1>4

LEMMA LaunchKeeps ==
  ASSUME TypeOK, NEW t \in Tasks, Own(t), Launch(t)
  PROVE  TypeOK' /\ Within(t) /\ Own(t)'
<1>0. job[t] = "launch" /\ status[t] \notin Terminal /\ faults' \in Nat /\ coord[t].status # "open"
      /\ UNCHANGED <<status, attempts, checkpoint, gates, phase, batch, deferred, faults>>
  BY DEF Launch, Own, EndedIn, GrantedIn, BeforeTheLease, TypeOK
<1>1. CASE LeaseIsLive(t) /\ Goto(t, "working") /\ UNCHANGED coord
  <2>1. TypeOK' /\ Within(t) /\ job'[t] = "working"
    BY <1>0, <1>1, MoveIs, PcWords DEF durable
  <2>2. Own(t)'
    BY <1>0, <1>1, <2>1, Numbers
      DEF LeaseIsLive, Own, EndedIn, GrantedIn, CountedIn, BeforeTheLease, Terminal, Accepted
  <2>3. QED
    BY <2>1, <2>2
<1>2. CASE LeaseIsLive(t) /\ coord' = [coord EXCEPT ![t].status = "failed"] /\ Goto(t, "raised")
  BY <1>0, <1>2, CloseKeeps, PcWords
<1>3. CASE Goto(t, "raised") /\ UNCHANGED coord
  BY <1>0, <1>3, MoveKeeps, PcWords DEF durable
<1>4. QED
  BY <1>1, <1>2, <1>3 DEF Launch

LEMMA WorkerEndsKeeps ==
  ASSUME TypeOK, NEW t \in Tasks, Own(t), WorkerEnds(t)
  PROVE  TypeOK' /\ Within(t) /\ Own(t)'
<1>0. job[t] = "working" /\ faults' \in Nat /\ coord[t].status # "open"
      /\ UNCHANGED <<status, attempts, checkpoint, gates, phase, batch, deferred, faults>>
  BY DEF WorkerEnds, Own, EndedIn, GrantedIn, TypeOK
<1>1. CASE (Goto(t, "stream") \/ Goto(t, "close_failed") \/ Goto(t, "raised")) /\ UNCHANGED coord
  BY <1>0, <1>1, MoveKeeps, PcWords DEF durable
<1>2. CASE LeaseIsLive(t) /\ coord' = [coord EXCEPT ![t].status = "failed"] /\ Goto(t, "raised")
  BY <1>0, <1>2, CloseKeeps, PcWords
<1>3. QED
  BY <1>1, <1>2 DEF WorkerEnds

LEMMA InteractKeeps ==
  ASSUME TypeOK, NEW t \in Tasks, Own(t), Interact(t) \/ LogEvent(t)
  PROVE  TypeOK' /\ Within(t) /\ Own(t)'
<1>0. job[t] \in {"interact", "interaction_event", "gates_event"} /\ faults' \in Nat
      /\ UNCHANGED <<durable, phase, batch, deferred>>
  BY EventStepIs DEF Interact, LogEvent, Answered, TypeOK
<1>1. status[t] \notin Terminal /\ coord[t].status # "open"
  BY <1>0 DEF Own, EndedIn, GrantedIn, BeforeTheLease
<1>2. CASE Goto(t, "interaction_event") \/ Goto(t, "evidence") \/ Goto(t, "raised")
  BY <1>0, <1>1, <1>2, MoveKeeps, PcWords
<1>3. CASE job[t] = "gates_event" /\ Goto(t, "finish")
  <2>1. TypeOK' /\ Within(t) /\ job'[t] = "finish"
    BY <1>0, <1>3, MoveIs, PcWords
  <2>2. Own(t)'
    BY <1>0, <1>1, <1>3, <2>1, Numbers
      DEF durable, Own, EndedIn, GrantedIn, CountedIn, BeforeTheLease, Terminal, Accepted
  <2>3. QED
    BY <2>1, <2>2
<1>4. QED
  BY <1>2, <1>3, EventStepIs DEF Interact, LogEvent, Answered

LEMMA DecideKeeps ==
  ASSUME TypeOK, NEW t \in Tasks, Own(t), Decide(t)
  PROVE  TypeOK' /\ Within(t) /\ Own(t)'
<1> DEFINE Outcomes == {"partial", "rejected", "cancelled"} \cup Accepted
<1>0. job[t] = "gate" /\ status[t] \notin Terminal /\ faults' \in Nat
      /\ UNCHANGED <<status, attempts, coord, checkpoint, phase, batch, deferred>>
  BY DEF Decide, Own, EndedIn, TypeOK
<1>1. PICK outcome \in Outcomes, pc \in {"guidance", "close_failed", "close_blocked", "raised"} :
        /\ gates' = [gates EXCEPT ![t] = outcome] /\ Goto(t, pc)
        /\ pc = "guidance" => outcome \in Accepted
  BY DEF Decide, Accepted
<1>2. /\ job' \in [Tasks -> Pcs] /\ job'[t] = pc
      /\ \A u \in Tasks : u # t => job'[u] = job[u]
  BY <1>1, GotoIs, PcWords
<1>3. /\ gates' \in [Tasks -> {"none", "partial", "rejected", "cancelled"} \cup Accepted]
      /\ gates'[t] = outcome /\ \A u \in Tasks : u # t => gates'[u] = gates[u]
  BY <1>1 DEF TypeOK
<1>4. TypeOK'
  BY <1>0, <1>2, <1>3 DEF TypeOK
<1>5. Within(t)
  BY <1>0, <1>2, <1>3 DEF Within, Elsewhere
<1>6. Own(t)'
  BY <1>0, <1>1, <1>2, <1>3, Numbers
    DEF Own, EndedIn, GrantedIn, CountedIn, BeforeTheLease, Terminal, Accepted
<1>7. QED
  BY <1>4, <1>5, <1>6
LEMMA WriteJournalKeeps ==
  ASSUME TypeOK, NEW t \in Tasks, Own(t), WriteJournal(t)
  PROVE  TypeOK' /\ Within(t) /\ Own(t)'
<1> DEFINE new == JournalStep[job[t]][1]
           next == JournalStep[job[t]][2]
<1>0. /\ job[t] \in DOMAIN JournalStep /\ Transition(t, new, next) /\ faults' \in Nat
      /\ UNCHANGED <<coord, checkpoint, gates, phase, batch, deferred>>
  BY DEF WriteJournal, TypeOK
<1>1. \/ job[t] = "observe" /\ new = "leased" /\ next = "execute"
      \/ job[t] = "execute" /\ new = "executing" /\ next = "launch"
      \/ job[t] = "stream" /\ new = "streaming" /\ next = "interact"
      \/ job[t] = "evidence" /\ new = "evidence_pending" /\ next = "quality"
      \/ job[t] = "quality" /\ new = "quality_pending" /\ next = "gate"
      \/ job[t] = "guidance" /\ new = "guidance_pending" /\ next = "ui"
      \/ job[t] = "ui" /\ new = "ui_pending" /\ next = "gates_event"
      \/ job[t] = "complete" /\ new = "completed" /\ next = "returned"
      \/ job[t] = "note_failed" /\ new = "failed" /\ next = "returned"
      \/ job[t] = "note_blocked" /\ new = "blocked" /\ next = "returned"
  BY <1>0, JournalStepIs
<1> HIDE DEF new, next
<1>2. status[t] \notin Terminal /\ coord[t].status # "open" /\ job[t] # "none"
  BY <1>1 DEF Own, EndedIn, GrantedIn, BeforeTheLease
<1>3. new \in Statuses /\ next \in Pcs
  BY <1>1, StatusWords, PcWords
<1>4. TypeOK' /\ Within(t) /\ (Written(t, new, next) \/ Unwritten(t))
  BY <1>0, <1>2, <1>3, WriteIs
<1>5. CASE Unwritten(t)
  BY <1>0, <1>2, <1>4, <1>5, Numbers
    DEF Unwritten, Own, EndedIn, GrantedIn, CountedIn, BeforeTheLease, Terminal, Accepted
<1>6. CASE Written(t, new, next)
  <2>1. EndedIn(t)'
    BY <1>0, <1>1, <1>2, <1>6 DEF Written, Own, EndedIn, Terminal, Accepted
  <2>2. GrantedIn(t)'
    BY <1>0, <1>1, <1>2, <1>6 DEF Written, Own, GrantedIn, BeforeTheLease
  <2>3. CountedIn(t)'
    BY <1>0, <1>1, <1>2, <1>6, Numbers DEF Written, Own, CountedIn
  <2>4. QED
    BY <1>4, <2>1, <2>2, <2>3 DEF Own
<1>7. QED
  BY <1>4, <1>5, <1>6

LEMMA ReconcileKeeps ==
  ASSUME TypeOK, NEW t \in Tasks, Own(t), Reconcile(t)
  PROVE  TypeOK' /\ Within(t) /\ Own(t)'
<1> DEFINE st == CloseStep[job[t]][1]
           next == CloseStep[job[t]][2]
<1>0. /\ job[t] \in DOMAIN CloseStep /\ faults' \in Nat
      /\ UNCHANGED <<status, attempts, checkpoint, gates, phase, batch, deferred>>
  BY DEF Reconcile, Answered, TypeOK
<1>1. \/ job[t] = "finish" /\ st = "done" /\ next = "complete"
      \/ job[t] = "close_failed" /\ st = "failed" /\ next = "note_failed"
      \/ job[t] = "close_blocked" /\ st = "blocked" /\ next = "note_blocked"
  BY <1>0, CloseStepIs
<1>2. \/ LeaseIsLive(t) /\ coord' = [coord EXCEPT ![t].status = st] /\ (Goto(t, next) \/ Goto(t, "raised"))
      \/ UNCHANGED coord /\ Goto(t, "raised")
  BY DEF Reconcile, Answered
<1> HIDE DEF st, next
<1>3. job[t] \notin {"none", "returned"} /\ coord[t].status # "open"
      /\ (job[t] = "finish" => gates[t] \in Accepted)
  BY <1>1 DEF Own, EndedIn, GrantedIn, BeforeTheLease
<1>4. CASE LeaseIsLive(t) /\ coord' = [coord EXCEPT ![t].status = st] /\ (Goto(t, next) \/ Goto(t, "raised"))
  BY <1>0, <1>1, <1>3, <1>4, CloseKeeps, PcWords
<1>5. CASE UNCHANGED coord /\ Goto(t, "raised")
  BY <1>0, <1>3, <1>5, MoveKeeps, PcWords DEF durable
<1>6. QED
  BY <1>2, <1>4, <1>5

LEMMA CollectKeeps ==
  ASSUME TypeOK, NEW t \in Tasks, Own(t), Collect(t)
  PROVE  TypeOK' /\ Within(t) /\ Own(t)'
<1>0. /\ job[t] \in {"returned", "deferred"} /\ batch' = batch \ {t} /\ faults' = faults
      /\ deferred' \in BOOLEAN /\ UNCHANGED <<status, attempts, coord, checkpoint, gates, phase>>
      /\ job' \in [Tasks -> Pcs] /\ job'[t] = "none"
      /\ \A u \in Tasks : u # t => job'[u] = job[u]
  <2>1. Goto(t, "none") /\ "none" \in Pcs
    BY PcWords DEF Collect
  <2>2. QED
    BY <2>1, GotoIs DEF Collect, durable
<1>1. TypeOK'
  BY <1>0 DEF TypeOK
<1>2. Within(t)
  BY <1>0 DEF Within, Elsewhere
<1>3. Own(t)'
  BY <1>0, Numbers DEF Own, EndedIn, GrantedIn, CountedIn, BeforeTheLease, Terminal, Accepted
<1>4. QED
  BY <1>1, <1>2, <1>3

LEMMA RaisedKeeps ==
  ASSUME TypeOK, NEW t \in Tasks, Own(t), RecoverOrFail(t) \/ GiveUp(t)
  PROVE  TypeOK' /\ Within(t) /\ Own(t)'
<1>0. job[t] = "raised" /\ status[t] \notin Terminal /\ faults' \in Nat
      /\ UNCHANGED <<checkpoint, gates, phase, batch, deferred>>
  BY DEF RecoverOrFail, GiveUp, Own, EndedIn, TypeOK
<1>1. \/ Transition(t, "completed", "returned") /\ UNCHANGED coord
         /\ coord[t].status = "done" /\ gates[t] = "approved"
      \/ LeaseIsLive(t) /\ coord' = [coord EXCEPT ![t].status = "failed"] /\ Goto(t, "note_failed")
         /\ UNCHANGED <<status, attempts>>
      \/ Transition(t, "recovering", "deferred") /\ UNCHANGED coord /\ coord[t].status = "running"
      \/ Transition(t, "failed", "returned") /\ UNCHANGED coord
  BY <1>0 DEF RecoverOrFail, GiveUp
<1>2. CASE Transition(t, "completed", "returned") /\ UNCHANGED coord
           /\ coord[t].status = "done" /\ gates[t] = "approved"
  <2>1. TypeOK' /\ Within(t) /\ (Written(t, "completed", "returned") \/ Unwritten(t))
    BY <1>0, <1>2, WriteIs, StatusWords, PcWords
  <2>2. Own(t)'
    BY <1>0, <1>2, <2>1, Numbers
      DEF Written, Unwritten, Own, EndedIn, GrantedIn, CountedIn, BeforeTheLease, Terminal, Accepted
  <2>3. QED
    BY <2>1, <2>2
<1>3. CASE LeaseIsLive(t) /\ coord' = [coord EXCEPT ![t].status = "failed"] /\ Goto(t, "note_failed")
           /\ UNCHANGED <<status, attempts>>
  BY <1>0, <1>3, CloseKeeps, PcWords
<1>4. CASE Transition(t, "recovering", "deferred") /\ UNCHANGED coord /\ coord[t].status = "running"
  <2>1. TypeOK' /\ Within(t) /\ (Written(t, "recovering", "deferred") \/ Unwritten(t))
    BY <1>0, <1>4, WriteIs, StatusWords, PcWords
  <2>2. Own(t)'
    BY <1>0, <1>4, <2>1, Numbers
      DEF Written, Unwritten, Own, EndedIn, GrantedIn, CountedIn, BeforeTheLease, Terminal, Accepted
  <2>3. QED
    BY <2>1, <2>2
<1>5. CASE Transition(t, "failed", "returned") /\ UNCHANGED coord
  <2>1. TypeOK' /\ Within(t) /\ (Written(t, "failed", "returned") \/ Unwritten(t))
    BY <1>0, <1>5, WriteIs, StatusWords, PcWords
  <2>2. Own(t)'
    BY <1>0, <1>5, <2>1, Numbers
      DEF Written, Unwritten, Own, EndedIn, GrantedIn, CountedIn, BeforeTheLease, Terminal, Accepted
  <2>3. QED
    BY <2>1, <2>2
<1>6. QED
  BY <1>1, <1>2, <1>3, <1>4, <1>5

LEMMA SaveCheckpointKeeps ==
  ASSUME TypeOK, NEW t \in Tasks, Own(t), SaveCheckpoint(t)
  PROVE  TypeOK' /\ Within(t) /\ Own(t)'
<1>0. /\ job[t] = "working"
      /\ UNCHANGED <<status, attempts, coord, gates, phase, batch, deferred, job, faults>>
      /\ checkpoint' \in [Tasks -> Nat] /\ checkpoint'[t] = coord[t].fence
      /\ \A u \in Tasks : u # t => checkpoint'[u] = checkpoint[u]
  BY Numbers DEF SaveCheckpoint, TypeOK
<1>1. TypeOK'
  BY <1>0 DEF TypeOK
<1>2. Within(t)
  BY <1>0 DEF Within, Elsewhere
<1>3. Own(t)'
  BY <1>0, Numbers DEF Own, EndedIn, GrantedIn, CountedIn, BeforeTheLease, Terminal, Accepted
<1>4. QED
  BY <1>1, <1>2, <1>3

LEMMA ExpireKeeps ==
  ASSUME TypeOK, NEW t \in Tasks, Own(t), Expire(t)
  PROVE  TypeOK' /\ Within(t) /\ Own(t)'
<1> DEFINE c == [coord[t] EXCEPT !.expired = TRUE]
<1>0. /\ UNCHANGED <<status, attempts, checkpoint, gates, phase, batch, deferred, job, faults>>
      /\ coord' = [coord EXCEPT ![t].expired = TRUE]
  BY DEF Expire
<1>1. coord[t] \in Coords
  BY CoordIs
<1>2. c \in Coords /\ c.status = coord[t].status /\ c.fence = coord[t].fence
  BY <1>1 DEF Coords, CoordStatuses
<1>3. /\ coord' \in [Tasks -> Coords] /\ coord'[t] = c
      /\ \A u \in Tasks : u # t => coord'[u] = coord[u]
  BY <1>0, <1>2, CoordIs
<1> HIDE DEF c
<1>4. TypeOK'
  BY <1>0, <1>3 DEF TypeOK, Coords, CoordStatuses
<1>5. Within(t)
  BY <1>0, <1>2, <1>3 DEF Within, Elsewhere
<1>6. Own(t)'
  BY <1>0, <1>2, <1>3, Numbers
    DEF Own, EndedIn, GrantedIn, CountedIn, BeforeTheLease, Terminal, Accepted
<1>7. QED
  BY <1>4, <1>5, <1>6
---------------------------------------------------------------------------
(* The invariant is inductive.                                             *)
LEMMA SameTask ==
  ASSUME NEW u, Own(u), status'[u] = status[u], attempts'[u] = attempts[u], coord'[u] = coord[u],
         checkpoint'[u] = checkpoint[u], gates'[u] = gates[u], job'[u] = job[u]
  PROVE  Own(u)'
BY DEF Own, EndedIn, GrantedIn, CountedIn

LEMMA TaskStepKeeps ==
  ASSUME IInv, NEW t \in Tasks, TypeOK', Within(t), Own(t)'
  PROVE  IInv'
<1>1. \A u \in Tasks : Own(u)'
  BY SameTask DEF IInv, Within, Elsewhere
<1>2. \A u \in Tasks : job[u] = "none" => job'[u] = "none"
  BY DEF Within, Elsewhere
<1>3. \A u \in Tasks : job[u] = "none" /\ coord[u].status = "open" => coord'[u].status = "open"
  BY DEF Within, Elsewhere
<1>4. \A u \in Tasks : status[u] = "completed" => status'[u] = "completed"
  BY DEF Within, Elsewhere, Terminal
<1>5. \A u \in Tasks : WaitedFor(u)'
  BY <1>2, <1>3, <1>4, GraphAssumption DEF IInv, WaitedFor
<1>6. JobsOfThePass'
  BY <1>2 DEF IInv, JobsOfThePass, Within
<1>7. OnePerWorktree'
  BY <1>2 DEF IInv, OnePerWorktree
<1>8. QED
  BY <1>1, <1>5, <1>6, <1>7 DEF IInv

LEMMA JobStepKeeps ==
  ASSUME IInv, NEW t \in Tasks, JobStep(t) \/ SaveCheckpoint(t) \/ Expire(t)
  PROVE  IInv'
<1>1. TypeOK /\ Own(t)
  BY DEF IInv
<1>2. TypeOK' /\ Within(t) /\ Own(t)'
  BY <1>1, StartJobKeeps, RecheckKeeps, RecoverKeeps, AdmitKeeps, ClaimKeeps, LeaseKeeps,
     LaunchKeeps, WorkerEndsKeeps, InteractKeeps, DecideKeeps, WriteJournalKeeps, ReconcileKeeps,
     CollectKeeps, RaisedKeeps, SaveCheckpointKeeps, ExpireKeeps DEF JobStep
<1>3. QED
  BY <1>2, TaskStepKeeps

(* The jobs of a pass are of different worktrees and of tasks that waited. *)
LEMMA BeginPassKeeps ==
  ASSUME IInv, BeginPass
  PROVE  IInv'
<1>0. /\ UNCHANGED <<attempts, coord, checkpoint, gates, faults>>
      /\ phase = "scan" /\ phase' = "pass" /\ batch' = Selected /\ deferred' = FALSE
      /\ status' = [t \in Tasks |->
                      IF t \in Selected /\ status[t] = "planned" THEN "ready" ELSE status[t]]
      /\ job' = [t \in Tasks |-> IF t \in Selected THEN "start" ELSE "none"]
  BY DEF BeginPass
<1>1. Selected \subseteq FirstOfWorktree /\ FirstOfWorktree \subseteq Ready
  BY DEF Selected, FirstOfWorktree
<1>2. \A t \in Ready : /\ t \in Tasks /\ status[t] \notin Terminal
                       /\ \A d \in Dependencies[t] : status[d] = "completed"
  BY DEF Ready, Pending
<1>3. TypeOK'
  BY <1>0, <1>1, <1>2, StatusWords, PcWords DEF IInv, TypeOK, Statuses
<1>4. JobsOfThePass'
  BY <1>0 DEF JobsOfThePass
<1>5. OnePerWorktree'
  <2> SUFFICES ASSUME NEW t \in Tasks, NEW u \in Tasks, t # u, job'[t] # "none", job'[u] # "none"
               PROVE  Worktree[t] # Worktree[u]
    BY DEF OnePerWorktree
  <2>1. t \in FirstOfWorktree /\ u \in FirstOfWorktree /\ t \in Ready /\ u \in Ready
    BY <1>0, <1>1
  <2>2. t < u \/ u < t
    BY GraphAssumption DEF Tasks
  <2>3. QED
    BY <2>1, <2>2 DEF FirstOfWorktree
<1>6. ASSUME NEW t \in Tasks
      PROVE  Own(t)' /\ WaitedFor(t)'
  <2>0. Own(t) /\ WaitedFor(t) /\ job[t] = "none" /\ TypeOK
    BY <1>0 DEF IInv, JobsOfThePass
  <2>1. \/ job'[t] = "start" /\ t \in Selected
        \/ job'[t] = "none"
    BY <1>0
  <2>2. \/ status'[t] = status[t]
        \/ status[t] = "planned" /\ status'[t] = "ready" /\ t \in Selected
    BY <1>0
  <2>3. EndedIn(t)'
    BY <1>0, <1>1, <1>2, <2>0, <2>1, <2>2 DEF Own, EndedIn, Terminal
  <2>4. GrantedIn(t)'
    BY <1>0, <2>0, <2>1, <2>2 DEF Own, GrantedIn, BeforeTheLease
  <2>5. CountedIn(t)'
    BY <1>0, <2>0, <2>1 DEF Own, CountedIn
  <2>6. \A d \in Tasks : status[d] = "completed" => status'[d] = "completed"
    BY <1>0
  <2>7. job'[t] # "none" \/ coord[t].status # "open" =>
          \A d \in Dependencies[t] : status[d] = "completed"
    BY <1>1, <1>2, <2>0, <2>1 DEF WaitedFor
  <2>8. WaitedFor(t)'
    BY <1>0, <2>6, <2>7, GraphAssumption DEF WaitedFor
  <2>9. QED
    BY <2>3, <2>4, <2>5, <2>8 DEF Own
<1>7. QED
  BY <1>3, <1>4, <1>5, <1>6 DEF IInv

LEMMA BlockDependentsKeeps ==
  ASSUME IInv, BlockDependents
  PROVE  IInv'
<1>0. /\ UNCHANGED <<attempts, coord, checkpoint, gates, batch, deferred, job, faults>>
      /\ phase' = "down" /\ \A t \in Tasks : job[t] = "none"
      /\ status' = [t \in Tasks |->
           IF t \in Pending /\ \E d \in Dependencies[t] : status[d] \in {"blocked", "failed"}
           THEN "blocked" ELSE status[t]]
  BY DEF BlockDependents, IInv, JobsOfThePass
<1>1. \A t \in Tasks : status'[t] = status[t] \/ (status[t] \notin Terminal /\ status'[t] = "blocked")
  BY <1>0 DEF Pending
<1>2. TypeOK'
  BY <1>0, StatusWords DEF IInv, TypeOK, Statuses
<1>3. JobsOfThePass' /\ OnePerWorktree'
  BY <1>0 DEF JobsOfThePass, OnePerWorktree
<1>4. ASSUME NEW t \in Tasks
      PROVE  Own(t)' /\ WaitedFor(t)'
  <2>0. Own(t) /\ WaitedFor(t) /\ job[t] = "none"
    BY <1>0 DEF IInv
  <2>1. EndedIn(t)'
    BY <1>0, <1>1, <2>0 DEF Own, EndedIn, Terminal
  <2>2. GrantedIn(t)'
    BY <1>0, <1>1, <2>0 DEF Own, GrantedIn, BeforeTheLease
  <2>3. CountedIn(t)'
    BY <1>0, <1>1, <2>0 DEF Own, CountedIn
  <2>4. WaitedFor(t)'
    BY <1>0, <1>1, <2>0, GraphAssumption DEF WaitedFor, Terminal
  <2>5. QED
    BY <2>1, <2>2, <2>3, <2>4 DEF Own
<1>5. QED
  BY <1>2, <1>3, <1>4 DEF IInv

LEMMA PhaseKeeps ==
  ASSUME IInv, Start \/ EndPass \/ Crash
  PROVE  IInv'
<1>1. /\ UNCHANGED durable /\ phase' \in {"down", "scan"} /\ batch' \subseteq Tasks
      /\ deferred' \in BOOLEAN /\ faults' \in Nat /\ job' = [t \in Tasks |-> "none"]
  <2>1. CASE Start
    BY <2>1 DEF Start, IInv, TypeOK, JobsOfThePass
  <2>2. CASE EndPass
    <3>1. \A t \in Tasks : job[t] = "none"
      BY <2>2 DEF EndPass, IInv, JobsOfThePass
    <3>2. job = [t \in Tasks |-> "none"]
      BY <3>1 DEF IInv, TypeOK
    <3>3. QED
      BY <2>2, <3>2 DEF EndPass, IInv, TypeOK
  <2>3. CASE Crash
    <3>1. faults \in Nat /\ faults' = faults + 1
      BY <2>3 DEF Crash, IInv, TypeOK
    <3>2. UNCHANGED durable /\ phase' = "down" /\ batch' = {} /\ job' = [t \in Tasks |-> "none"]
      BY <2>3 DEF Crash
    <3>3. deferred' \in BOOLEAN
      BY <2>3 DEF Crash
    <3>4. QED
      BY <3>1, <3>2, <3>3
  <2>4. QED
    BY <2>1, <2>2, <2>3
<1>2. TypeOK'
  BY <1>1, PcWords DEF IInv, TypeOK, durable
<1>3. JobsOfThePass' /\ OnePerWorktree'
  BY <1>1 DEF JobsOfThePass, OnePerWorktree
<1>4. ASSUME NEW t \in Tasks
      PROVE  Own(t)' /\ WaitedFor(t)'
  <2>1. Own(t) /\ WaitedFor(t) /\ job'[t] = "none"
    BY <1>1 DEF IInv
  <2>2. Own(t)'
    BY <1>1, <2>1 DEF Own, EndedIn, GrantedIn, CountedIn, BeforeTheLease, durable
  <2>3. WaitedFor(t)'
    BY <1>1, <2>1 DEF WaitedFor, durable
  <2>4. QED
    BY <2>2, <2>3
<1>5. QED
  BY <1>2, <1>3, <1>4 DEF IInv

LEMMA InitKeeps ==
  ASSUME Init
  PROVE  IInv
<1>1. TypeOK
  BY StatusWords, PcWords DEF Init, TypeOK, Statuses
<1>2. JobsOfThePass /\ OnePerWorktree
  BY DEF Init, JobsOfThePass, OnePerWorktree
<1>3. ASSUME NEW t \in Tasks
      PROVE  Own(t) /\ WaitedFor(t)
  BY LimitAssumption
    DEF Init, Own, EndedIn, GrantedIn, CountedIn, BeforeTheLease, Terminal, WaitedFor
<1>4. QED
  BY <1>1, <1>2, <1>3 DEF IInv

LEMMA Inductive == Spec => []IInv
<1>1. Init => IInv
  BY InitKeeps
<1>2. IInv /\ [Next]_vars => IInv'
  <2> SUFFICES ASSUME IInv, [Next]_vars
               PROVE  IInv'
    OBVIOUS
  <2>1. CASE Pass \/ Crash
    BY <2>1, PhaseKeeps, BeginPassKeeps, BlockDependentsKeeps DEF Pass
  <2>2. ASSUME NEW t \in Tasks, JobStep(t) \/ SaveCheckpoint(t) \/ Expire(t)
        PROVE  IInv'
    BY <2>2, JobStepKeeps
  <2>3. CASE UNCHANGED vars
    BY <2>3
      DEF vars, IInv, TypeOK, JobsOfThePass, OnePerWorktree, Own, EndedIn, GrantedIn, CountedIn, WaitedFor
  <2>4. QED
    BY <2>1, <2>2, <2>3 DEF Next
<1>3. QED
  BY <1>1, <1>2, PTL DEF Spec

---------------------------------------------------------------------------
(* The results.                                                            *)

(* Every variable of the orchestrator, its journal and its authorities     *)
(* keeps its type.                                                         *)
THEOREM TypeCorrect == Spec => []TypeOK
<1>1. IInv => TypeOK
  BY DEF IInv
<1>2. QED
  BY <1>1, Inductive, PTL

(* A task the journal calls completed is done for its authority and its    *)
(* gates accepted it, whatever crashed and whichever answers were lost     *)
(* (_run_task, _recover_or_fail).                                          *)
THEOREM CompletionIsAuthorised == Spec => []CompletedIsAuthorised
<1>1. IInv => CompletedIsAuthorised
  BY DEF IInv, Own, EndedIn, CompletedIsAuthorised
<1>2. QED
  BY <1>1, Inductive, PTL

(* What runs is what the journal says runs: after what it depends on,      *)
(* within its budget, and by a worker that the journal names (run).        *)
THEOREM TheJournalIsFollowed == Spec => []JournalIsFollowed
<1>1. ASSUME IInv
      PROVE  JournalIsFollowed
  <2>1. DependenciesFirst
    BY <1>1, GraphAssumption DEF IInv, WaitedFor, Own, EndedIn, DependenciesFirst
  <2>2. LeasesWithinBudget
    BY <1>1 DEF IInv, Own, CountedIn, LeasesWithinBudget
  <2>3. WorkersAreJournaled
    BY <1>1 DEF IInv, Own, CountedIn, GrantedIn, WorkersAreJournaled
  <2>4. QED
    BY <1>1, <2>1, <2>2, <2>3 DEF IInv, JournalIsFollowed
<1>2. QED
  BY <1>1, Inductive, PTL

(* Two workers never run in one worktree: the tasks of a pass are selected *)
(* one per worktree, and no pass begins while a job of the last is left    *)
(* (run).                                                                  *)
THEOREM WorktreesAreExclusive == Spec => []WorktreeIsExclusive
<1>1. IInv => WorktreeIsExclusive
  BY DEF IInv, OnePerWorktree, WorktreeIsExclusive
<1>2. QED
  BY <1>1, Inductive, PTL
=============================================================================
