--------------------------- MODULE TaskAuthority ---------------------------
(***************************************************************************)
(* What the Coordinator promises of one task, whoever calls it and however *)
(* often an answer is lost: the task is worked on in terms, one at a time. *)
(* A term is known by its fence, begins when the task was claimed or the   *)
(* term before it has run out, is written in only until its own end, and   *)
(* closes the task at most once.  DurableCoordinator and                   *)
(* ExecutionController implement it.                                       *)
(***************************************************************************)
EXTENDS Integers

VARIABLES
  phase,    \* "free", "claimed", "held" or "closed"
  fence,    \* the number of the last term
  until,    \* the end of the last term
  writes,   \* how many writes were committed: the revision of the task
  now       \* the authority's clock

vars == <<phase, fence, until, writes, now>>

Init == phase = "free" /\ fence = 0 /\ until = 0 /\ writes = 1 /\ now = 0

(* The task is taken; nothing may be written yet.                          *)
Claim ==
  /\ phase = "free"
  /\ phase' = "claimed"
  /\ writes' = writes + 1
  /\ UNCHANGED <<fence, until, now>>

(* A term begins, the first of a claimed task or one after a term that has *)
(* run out.                                                                *)
BeginTerm ==
  /\ phase = "claimed" \/ (phase = "held" /\ until <= now)
  /\ phase' = "held"
  /\ fence' = fence + 1
  /\ until' > now
  /\ writes' = writes + 1
  /\ UNCHANGED now

(* A write within the term, which may lengthen it.                         *)
Write ==
  /\ phase = "held" /\ now < until
  /\ until' >= until
  /\ writes' = writes + 1
  /\ UNCHANGED <<phase, fence, now>>

(* The end of the task, within the term.                                   *)
Close ==
  /\ phase = "held" /\ now < until
  /\ phase' = "closed"
  /\ until' = 0
  /\ writes' = writes + 1
  /\ UNCHANGED <<fence, now>>

Elapse ==
  /\ now' > now
  /\ UNCHANGED <<phase, fence, until, writes>>

Next == Claim \/ BeginTerm \/ Write \/ Close \/ Elapse

Spec == Init /\ [][Next]_vars
=============================================================================
