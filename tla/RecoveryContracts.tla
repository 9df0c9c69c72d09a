------------------------- MODULE RecoveryContracts -------------------------
(***************************************************************************)
(* The offline models of a journal that is recovered: four objects that    *)
(* append records under a fence, checkpoint, lose a write and go on.       *)
(*   session      DurableSession, scripts/durable_recovery.py              *)
(*   journal      Journal, scripts/durable_runtime_journal.py              *)
(*   kernel       RuntimeKernel, scripts/runtime_kernel.py                 *)
(*   checkpoints  RecoveryState, scripts/checkpoint_recovery.py            *)
(*                                                                         *)
(* The digest of a head is the number of records.  A worker stands for     *)
(* itself and its lease.  A write that crashed is never looked at again:   *)
(* pending only stops the object, as the state "ambiguous" does.           *)
(***************************************************************************)
EXTENDS Naturals, Sequences

CONSTANTS
    Workers,
    MaxFence,       \* bound
    MaxRecords      \* bound of the log, per kind

VARIABLES
    kind,
    log,            \* records: [op, event, worker, fence]
    state,
    holder,         \* [worker, fence]
    saved,          \* the heads of the checkpoints that were given out
    exported        \* the snapshot that a restart finds: [log, state, fence]

vars == <<kind, log, state, holder, saved, exported>>

Kinds  == {"session", "journal", "kernel", "checkpoints"}
Events == [session     |-> {"start", "progress", "interrupt", "complete"},
           journal     |-> {"start", "progress", "checkpoint", "complete", "cancel"},
           kernel      |-> {"admit", "dispatch", "observe", "complete", "reject"}]

Init ==
    /\ kind \in Kinds
    /\ log = <<>>
    /\ state = IF kind = "kernel" THEN "ready" ELSE "active"
    /\ holder \in [worker : Workers, fence : {1}]
    /\ saved = {}
    /\ exported = [log |-> log, state |-> state, fence |-> 1]

\* An operation is a known one or the next new one.
Ops == {log[i].op : i \in DOMAIN log} \cup {Len(log) + 1}

IsKnown(op) == \E i \in DOMAIN log : log[i].op = op

\* Mutated form of the next definition: an operation is written whenever it is asked for.
CommitAgain(op, event, worker) ==
    /\ Len(log) < MaxRecords[kind]
    /\ log' = Append(log, [op |-> op, event |-> event, worker |-> worker, fence |-> holder.fence])

\* A known operation is answered as before.
Commit(op, event, worker) ==
    IF IsKnown(op) THEN UNCHANGED log
    ELSE /\ Len(log) < MaxRecords[kind]
         /\ log' = Append(log, [op |-> op, event |-> event, worker |-> worker, fence |-> holder.fence])

\* Mutated form of the next definition: the caller's fence is not compared.
GuardsState(worker, fence) ==
    state \notin {"ambiguous", "blocked"} /\ (kind = "session" => state # "completed")

\* _guard; the kernel knows no fence, and only the session stops when it is complete.
Guards(worker, fence) ==
    /\ state \notin {"ambiguous", "blocked"}
    /\ kind = "session" => state # "completed"
    /\ worker = holder.worker /\ fence = holder.fence

StateAfter(event) ==
    CASE kind = "session" /\ event = "interrupt" -> "interrupted"
      [] kind = "session" /\ event = "complete"  -> "completed"
      [] kind = "journal" /\ event \in {"complete", "cancel"} -> "terminal"
      [] kind = "kernel" /\ event \in {"complete", "reject"}  -> "terminal"
      [] OTHER -> state

\* append and record.
Write(op, event, worker, fence) ==
    /\ kind # "checkpoints" /\ Guards(worker, fence)
    /\ IsKnown(op) => \E i \in DOMAIN log : log[i].op = op /\ log[i].event = event
    /\ Commit(op, event, worker)
    /\ state' = IF IsKnown(op) THEN state ELSE StateAfter(event)
    /\ UNCHANGED <<kind, holder, saved, exported>>

\* The write may or may not have reached the disk.
Crash(op, worker, fence) ==
    /\ kind \in {"session", "journal"} /\ Guards(worker, fence) /\ ~IsKnown(op)
    /\ state' = "ambiguous"
    /\ UNCHANGED <<kind, log, holder, saved, exported>>

Checkpoint ==
    /\ \/ kind = "session" /\ state \in {"active", "interrupted"} /\ log # <<>>
       \/ kind = "journal" /\ state \in {"active", "terminal"}
    /\ saved' = saved \cup {Len(log)}
    /\ state' = IF state = "interrupted" THEN "recoverable" ELSE state
    /\ UNCHANGED <<kind, log, holder, exported>>

\* Mutated form of the next definition: the fence of the interrupted worker will do.
MayRecoverAt(head, fence) == state = "ambiguous" /\ head = Len(log) /\ fence >= holder.fence

MayRecover(head, fence) == state = "ambiguous" /\ head = Len(log) /\ fence > holder.fence

\* crash_recover and recover: from a checkpoint of the present head.
RecoverCrash(head, worker, fence) ==
    /\ kind \in {"session", "journal"} /\ MayRecover(head, fence)
    /\ kind = "journal" => worker = holder.worker
    /\ holder' = [worker |-> worker, fence |-> fence]
    /\ state' = IF kind = "session" THEN "recoverable" ELSE "active"
    /\ UNCHANGED <<kind, log, saved, exported>>

ReplayCheckpoint(head) ==
    /\ kind = "session" /\ state = "recoverable" /\ head = Len(log)
    /\ state' = "active"
    /\ UNCHANGED <<kind, log, holder, saved, exported>>

\* export, and the restart of a process that restores what was exported.
Export ==
    /\ kind \in {"journal", "kernel"}
    /\ exported' = [log |-> log, state |-> state, fence |-> holder.fence]
    /\ UNCHANGED <<kind, log, state, holder, saved>>
Restart ==
    /\ kind \in {"journal", "kernel"}
    /\ log' = exported.log /\ state' = exported.state
    /\ holder' = [holder EXCEPT !.fence = exported.fence]
    /\ UNCHANGED <<kind, saved, exported>>

-----------------------------------------------------------------------------
(* RecoveryState: every event is recorded, under a worker. *)

Moves == [interrupt     |-> [from |-> {"active"}, to |-> "interrupting"],
          interrupt_ack |-> [from |-> {"interrupting"}, to |-> "interrupted"],
          host_failed   |-> [from |-> {"active"}, to |-> "interrupted"],
          replay        |-> [from |-> {"recovering"}, to |-> "replayed"],
          resume        |-> [from |-> {"recovering", "replayed"}, to |-> "active"],
          complete      |-> [from |-> {"active"}, to |-> "completed"],
          fail          |-> [from |-> {"active"}, to |-> "failed"]]

Record(op, event, worker, after) ==
    /\ kind = "checkpoints" /\ worker = holder.worker /\ Len(log) < MaxRecords[kind]
    /\ log' = Append(log, [op |-> op, event |-> event, worker |-> worker, fence |-> holder.fence])
    /\ state' = after
    /\ UNCHANGED <<kind, exported>>

Move(event, worker) ==
    /\ state \in Moves[event].from
    /\ Record(0, event, worker, Moves[event].to)
    /\ UNCHANGED <<holder, saved>>

\* _checkpoint and _retry.
SaveWork(op, worker) ==
    /\ state = "active" /\ ~IsKnown(op)
    /\ Record(op, "checkpoint", worker, state)
    /\ saved' = saved \cup {Len(log) + 1} /\ UNCHANGED holder
RetryWork(op, worker) ==
    /\ op > 0 /\ IsKnown(op)
    /\ Record(op, "retry", worker, state)
    /\ UNCHANGED <<holder, saved>>

\* Mutated form of the next definition: the interrupted worker may recover itself.
ReplacesAnyone(new) == new \in Workers

Replaces(new) == new # holder.worker

RecoverWork(worker, new) ==
    /\ state = "interrupted" /\ saved # {} /\ Replaces(new)
    /\ Record(0, "recover", worker, "recovering")
    /\ holder' = [holder EXCEPT !.worker = new]
    /\ UNCHANGED saved

Next ==
    \/ \E op \in Ops, w \in Workers :
          \/ \E event \in UNION {Events[k] : k \in DOMAIN Events}, f \in 1..MaxFence :
                kind # "checkpoints" /\ event \in Events[kind] /\ Write(op, event, w, f)
          \/ \E f \in 1..MaxFence : Crash(op, w, f)
          \/ SaveWork(op, w) \/ RetryWork(op, w)
    \/ Checkpoint \/ Export \/ Restart
    \/ \E head \in saved :
          ReplayCheckpoint(head) \/ \E w \in Workers, f \in 1..MaxFence : RecoverCrash(head, w, f)
    \/ \E w \in Workers : (\E event \in DOMAIN Moves : Move(event, w)) \/ \E new \in Workers : RecoverWork(w, new)

Spec == Init /\ [][Next]_vars

-----------------------------------------------------------------------------
(* Properties. *)

TypeOK ==
    /\ Len(log) <= MaxRecords[kind] /\ saved \subseteq 0..MaxRecords[kind]
    /\ holder \in [worker : Workers, fence : 1..MaxFence]
    /\ \A i \in DOMAIN log : log[i].worker \in Workers /\ log[i].fence \in 1..MaxFence

\* The journal is written once for each operation, under fences that only grow, and
\* under one fence by one worker.
LogsAreFenced ==
    kind # "checkpoints" => \A i, j \in DOMAIN log : i < j =>
        /\ log[i].op # log[j].op
        /\ log[i].fence <= log[j].fence
        /\ log[i].fence = log[j].fence => log[i].worker = log[j].worker

\* A worker that was interrupted or lost its host does nothing more until another one
\* was called to recover its checkpoint and went on itself.
InterruptedWorkersStop ==
    kind = "checkpoints" => \A i, j \in DOMAIN log :
        (/\ log[i].event \in {"interrupt_ack", "host_failed"} /\ i < j
         /\ log[j].event \in {"checkpoint", "complete", "fail", "interrupt", "host_failed"})
        => \E k \in i..(j - 1) : log[k].event = "recover" /\ log[k + 1].worker # log[i].worker

\* An append whose outcome is unknown ends with a newer fence, from a checkpoint of just
\* what is known to be written, or with a restart.
AmbiguityIsFenced ==
    [][state = "ambiguous" /\ state' # "ambiguous" =>
          \/ log' = log /\ holder'.fence > holder.fence /\ Len(log) \in saved
          \/ kind = "journal" /\ log' = exported.log]_vars

\* VIOLATED (checkpoint_recovery.py:44).  The worker that was replaced comes back when the
\* one after it is replaced.
FencedWorkersStayOut ==
    kind = "checkpoints" => \A i, j \in DOMAIN log :
        i < j /\ log[i].event = "recover" => log[j].worker # log[i].worker

\* VIOLATED (durable_recovery.py).  A checkpoint from before the last record cannot be
\* recovered from: the session stays ambiguous.
AmbiguousCanRecover == state = "ambiguous" => Len(log) \in saved

\* VIOLATED (durable_runtime_journal.py, runtime_kernel.py).  Records follow the end.
TerminalIsLast ==
    kind \in {"journal", "kernel"} => \A i \in DOMAIN log : log[i].event \in {"complete", "cancel", "reject"} => i = Len(log)

\* VIOLATED (durable_runtime_journal.py).  The restart of an older export takes the fence
\* back with it.
FencesNeverGoBack == [][holder'.fence >= holder.fence]_vars
=============================================================================
