--------------------------- MODULE LocalSupervisor ---------------------------
(* scripts/local_supervisor.py: helper processes of one state directory, started
   and collected by LocalSupervisor and its RunHandles, under a lease and a
   deadline, with crashes of the supervising process and recovery of the records
   it left.  One thread at a time uses a handle. *)
EXTENDS Naturals, FiniteSets, ProcessGroup

CONSTANTS
    RunIds,      \* run identities
    Leases,      \* [worker, id, expires]
    Commands,    \* [executable, helper, args, names]
    Executable, Helpers, Names,  \* what the policy allows
    Timeout,     \* timeout_ms, in ticks
    MaxTime,     \* bound: the last tick
    MaxPids      \* bound: processes started

VARIABLES
    now,
    active,      \* LocalSupervisor._active: run ids, never forgotten but by recover
    records,     \* the files of state_dir
    handles,     \* the RunHandle of a run, lost with the supervising process
    processes    \* pid -> its process, the run and the lease it was started for

supervisorVars == <<now, active, records, handles, processes>>

Pids == 1..MaxPids

Handles ==
    [pid : Pids, lease : Leases, deadline : Nat, byBudget : BOOLEAN,
     phase : {"started", "recorded", "waiting", "collected"},
     cancelled : BOOLEAN, overflow : BOOLEAN, disposition : STRING, clean : BOOLEAN]

Init ==
    /\ now = 0
    /\ active = {}
    /\ records = [r \in RunIds |-> None]
    /\ handles = [r \in RunIds |-> None]
    /\ processes = [p \in Pids |-> None]

Has(r, phase) == handles[r] # None /\ handles[r].phase = phase
Group(r) == processes[handles[r].pid].group
SetGroup(r, g) == processes' = [processes EXCEPT ![handles[r].pid].group = g]

-----------------------------------------------------------------------------
\* An executable and a helper of the policy, with relative arguments, and no
\* name in the environment that the policy does not list.
MayRun(command) ==
    /\ command.executable = Executable
    /\ command.helper \in Helpers
    /\ command.args = "relative"
MayPass(command) == command.names \subseteq Names

Min2(a, b) == IF a <= b THEN a ELSE b

FreshPids == {p \in Pids : processes[p] = None /\ \A q \in 1..(p - 1) : processes[q] # None}

\* Popen: from here on the process runs, and nothing on disk says so yet.
Launch(r, lease, command) ==
    /\ r \notin active
    /\ now < lease.expires
    /\ MayRun(command) /\ MayPass(command)
    /\ records[r] = None
    /\ \E p \in FreshPids :
         /\ processes' = [processes EXCEPT ![p] =
                            [run |-> r, lease |-> lease, recorded |-> FALSE, group |-> Started]]
         /\ handles' = [handles EXCEPT ![r] =
                          [pid |-> p, lease |-> lease,
                           deadline |-> Min2(now + Timeout, lease.expires),
                           byBudget |-> now + Timeout <= lease.expires,
                           phase |-> "started", cancelled |-> FALSE, overflow |-> FALSE,
                           disposition |-> "completed", clean |-> FALSE]]
    /\ active' = active \cup {r}
    /\ UNCHANGED <<now, records>>

WriteState(r) ==
    /\ Has(r, "started")
    /\ records' = [records EXCEPT ![r] = [pid |-> handles[r].pid, lease |-> handles[r].lease]]
    /\ processes' = [processes EXCEPT ![handles[r].pid].recorded = TRUE]
    /\ handles' = [handles EXCEPT ![r].phase = "recorded"]
    /\ UNCHANGED <<now, active>>

Wait(r) ==
    /\ Has(r, "recorded")
    /\ handles' = [handles EXCEPT ![r].phase = "waiting"]
    /\ UNCHANGED <<now, active, records, processes>>

\* A handle that is collected already only remembers that it was asked.
MayCancel(r, lease) ==
    /\ lease.id = handles[r].lease.id /\ lease.worker = handles[r].lease.worker
    /\ now < handles[r].lease.expires
Cancel(r, lease) ==
    /\ Has(r, "recorded") \/ Has(r, "collected")
    /\ MayCancel(r, lease)
    /\ \E g \in Terminated(Group(r)) : SetGroup(r, g)
    /\ handles' = [handles EXCEPT ![r].cancelled = TRUE,
                                  ![r].phase = IF @ = "recorded" THEN "waiting" ELSE @]
    /\ UNCHANGED <<now, active, records>>

\* Mutated form of the next definition.
DueByBudget(h) == h.byBudget /\ now >= h.deadline

\* The loop of _collect stops a leader that is there at the deadline ...
Due(h) == now >= h.deadline
Tick(r) ==
    /\ Has(r, "waiting")
    /\ Due(handles[r])
    /\ Runs(Group(r))
    /\ \E g \in Terminated(Group(r)) : SetGroup(r, g)
    /\ handles' = [handles EXCEPT ![r].disposition =
                     IF handles[r].byBudget THEN "timed_out" ELSE "lease_expired"]
    /\ UNCHANGED <<now, active, records>>

\* ... or whose output, perhaps written before it exited, fills the limit.
Overflow(r) ==
    /\ Has(r, "waiting") /\ ~handles[r].overflow
    /\ \E g \in Terminated(Group(r)) : SetGroup(r, g)
    /\ handles' = [handles EXCEPT ![r].overflow = TRUE, ![r].disposition = "output_overflow"]
    /\ UNCHANGED <<now, active, records>>

\* Mutated form of the next definition.
DispositionByCode(h, code) ==
    IF h.cancelled THEN "cancelled" ELSE IF code # 0 THEN "failed" ELSE h.disposition

DispositionOf(h, code) ==
    IF h.cancelled THEN "cancelled"
    ELSE IF h.overflow THEN "output_overflow"
    ELSE IF code # 0 /\ h.disposition = "completed" THEN "failed"
    ELSE h.disposition

\* Mutated form of the next definition.
EndedOrDue(r) == Drained(Group(r)) \/ Due(handles[r])

\* The loop ends at the end of both pipes; the tree counts as clean when the
\* leader's pid is gone.
Ended(r) == Drained(Group(r))
Collect(r) ==
    /\ Has(r, "waiting")
    /\ Ended(r)
    /\ handles' = [handles EXCEPT ![r].phase = "collected",
                                  ![r].disposition = DispositionOf(handles[r], Group(r).code),
                                  ![r].clean = ~Runs(Group(r))]
    /\ records' = [records EXCEPT ![r] = None]
    /\ UNCHANGED <<now, active, processes>>

\* Mutated form of the next definition.
PidIsMine(r) == handles[r] # None /\ handles[r].pid = records[r].pid

\* os.kill(pid, 0) finds a leader that exited until its parent has waited for it.
PidExists(r) ==
    \/ Runs(processes[records[r].pid].group)
    \/ handles[r] # None /\ handles[r].pid = records[r].pid

MayReplace(r, replacement) ==
    /\ now >= records[r].lease.expires
    /\ replacement.id # records[r].lease.id /\ replacement.worker # records[r].lease.worker

Recover(r, replacement) ==
    /\ records[r] # None
    /\ MayReplace(r, replacement)
    /\ ~PidExists(r)
    /\ records' = [records EXCEPT ![r] = None]
    /\ active' = active \ {r}
    /\ UNCHANGED <<now, handles, processes>>

\* A new supervisor over the same directory; the processes go on.
Crash ==
    /\ active # {}
    /\ active' = {} /\ handles' = [r \in RunIds |-> None]
    /\ UNCHANGED <<now, records, processes>>

-----------------------------------------------------------------------------
\* The world: time, and what the processes do.
Advance == now < MaxTime /\ now' = now + 1 /\ UNCHANGED <<active, records, handles, processes>>
Move(p) ==
    /\ processes[p] # None
    /\ \E g \in Moves(processes[p].group) : processes' = [processes EXCEPT ![p].group = g]
    /\ UNCHANGED <<now, active, records, handles>>
World == Advance \/ \E p \in Pids : Move(p)

Supervise == \E r \in RunIds : WriteState(r) \/ Tick(r) \/ Overflow(r) \/ Collect(r)

Next ==
    \/ World \/ Supervise \/ Crash
    \/ \E r \in RunIds, lease \in Leases :
          \/ \E command \in Commands : Launch(r, lease, command)
          \/ Cancel(r, lease) \/ Recover(r, lease)
    \/ \E r \in RunIds : Wait(r)
=============================================================================
