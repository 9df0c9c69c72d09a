-------------------------- MODULE JobLifecycle --------------------------
(***************************************************************************)
(* What both job schedulers promise about the life of a job, without       *)
(* queues, priorities, quotas or clocks: a job is worked on under one      *)
(* lease at a time, no two leases have the same fence, a lease that was    *)
(* taken back is never revived, a job is started no more often than it may *)
(* be and only after everything it depends on succeeded, and a job that is *)
(* over is over for good, with the outcome it had.  One call may take      *)
(* leases back and end jobs, several at once, and start one job.           *)
(***************************************************************************)
EXTENDS Integers

CONSTANTS Jobs, Dependencies, MaxAttempts

VARIABLES
  done,       \* the jobs that succeeded
  over,       \* those, and the jobs that failed or were cancelled
  holder,     \* the fence of each job's lease, 0 without one
  attempts,   \* how often each job was started
  fence       \* the latest fence

vars == <<done, over, holder, attempts, fence>>

Init ==
  /\ done = {}
  /\ over = {}
  /\ holder = [j \in Jobs |-> 0]
  /\ attempts = [j \in Jobs |-> 0]
  /\ fence = 0

(* Job j, which had no lease or loses it in this step, is leased anew.     *)
Start(j) ==
  /\ j \notin over \cup over'
  /\ attempts[j] < MaxAttempts[j]
  /\ Dependencies[j] \subseteq done
  /\ fence' = fence + 1
  /\ holder'[j] = fence'
  /\ attempts' = [attempts EXCEPT ![j] = attempts[j] + 1]

(* The lease of a job is kept or taken back.                               *)
KeepOrLose(j) == holder'[j] \in {holder[j], 0}

Next ==
  /\ over \subseteq over'
  /\ done = done' \cap over /\ done' \subseteq over'
  /\ \A j \in over' : holder'[j] = 0
  /\ \/ \E j \in Jobs : Start(j) /\ \A k \in Jobs \ {j} : KeepOrLose(k)
     \/ UNCHANGED <<attempts, fence>> /\ \A k \in Jobs : KeepOrLose(k)

Spec == Init /\ [][Next]_vars
===========================================================================
