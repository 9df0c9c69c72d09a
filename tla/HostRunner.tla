----------------------------- MODULE HostRunner -----------------------------
(***************************************************************************)
(* The two runners of one bounded command beside the local supervisor:     *)
(* the Bubblewrap sandbox (scripts/host_sandbox.py), which reads the pipes *)
(* in a loop of its own, and `awr host-run` (awr_cli/host_supervisor.py),  *)
(* which leaves that to subprocess.communicate.  A behaviour is one run of *)
(* one of them.                                                            *)
(***************************************************************************)
EXTENDS Naturals, ProcessGroup

CONSTANT OutputLimit    \* output_bytes, output_limit: in chunks

VARIABLES
    runner,     \* "sandbox" or "host"
    phase,      \* "new", "refused", "ready", "collecting", "reaping", "done", "raised"
    proc,       \* the process and its descendant
    late,       \* the deadline has passed
    written,    \* chunks in the pipes
    kept,       \* chunks in the buffers
    timedOut, overflow,
    status      \* of the result, or None

vars == <<runner, phase, proc, late, written, kept, timedOut, overflow, status>>

Init ==
    /\ runner \in {"sandbox", "host"} /\ phase = "new"
    /\ proc = None /\ late = FALSE /\ written = 0 /\ kept = 0
    /\ timedOut = FALSE /\ overflow = FALSE /\ status = None

\* What the probe finds: no runtime or POSIX limits, a probe that failed or hung,
\* or every control.  host-run has no probe; asked for a network control, it refuses.
Probes == {"unavailable", "failed", "enforceable"}

Admit(found) ==
    /\ phase = "new"
    /\ phase' = IF found = "enforceable" THEN "ready" ELSE "refused"
    /\ UNCHANGED <<runner, proc, late, written, kept, timedOut, overflow, status>>

\* A budget, an argv or an environment that is out of bounds is refused before the start.
Launch(bounded) ==
    /\ phase = "ready"
    /\ phase' = IF bounded THEN "collecting" ELSE "refused"
    /\ proc' = IF bounded THEN Started ELSE None
    /\ UNCHANGED <<runner, late, written, kept, timedOut, overflow, status>>

\* Inside the PID namespace nothing outlives the leader.
Jailed(p) == IF runner = "sandbox" /\ ~Runs(p) THEN [p EXCEPT !.child = "none", !.piped = FALSE] ELSE p

ProcessMoves ==
    /\ phase \in {"collecting", "reaping"}
    /\ proc' \in {Jailed(p) : p \in Moves(proc)}
    /\ UNCHANGED <<runner, phase, late, written, kept, timedOut, overflow, status>>

Writes ==
    /\ phase \in {"collecting", "reaping"} /\ ~Drained(proc)
    /\ written + kept <= OutputLimit /\ written' = written + 1
    /\ UNCHANGED <<runner, phase, proc, late, kept, timedOut, overflow, status>>

DeadlinePasses ==
    /\ phase = "collecting" /\ ~late /\ late' = TRUE
    /\ UNCHANGED <<runner, phase, proc, written, kept, timedOut, overflow, status>>

-----------------------------------------------------------------------------
(* The sandbox. *)

\* Mutated form of the next definition.
CancelledGently(p) == {p} \cup {Jailed(q) : q \in Signalled(p)}

\* cancel: SIGTERM, then SIGKILL; nothing when the leader has exited.
Cancelled(p) == {Jailed(q) : q \in Terminated(p)}

\* Mutated form of the next definition.
DueAlways(p) == late

\* The deadline counts only while the leader runs.
Due(p) == late /\ Runs(p)

\* One turn of _collect: the deadline first, then at most one chunk.
Collect ==
    /\ runner = "sandbox" /\ phase = "collecting"
    /\ timedOut' = (timedOut \/ Due(proc))
    /\ \E p \in IF Due(proc) THEN Cancelled(proc) ELSE {proc} :
          LET full == written > 0 /\ kept = OutputLimit IN
          /\ overflow' = (overflow \/ full)
          /\ proc' \in IF full THEN Cancelled(p) ELSE {p}
          /\ written' = IF written > 0 THEN written - 1 ELSE 0
          /\ kept' = IF written > 0 /\ ~full THEN kept + 1 ELSE kept
    /\ UNCHANGED <<runner, phase, late, status>>

\* The process was killed and is still not reaped a second later: the exception
\* leaves run, and the process.
CancelRaises ==
    /\ runner = "sandbox" /\ phase = "collecting"
    /\ Due(proc) \/ (written > 0 /\ kept = OutputLimit /\ Runs(proc))
    /\ timedOut' = (timedOut \/ Due(proc))
    /\ phase' = "raised"
    /\ UNCHANGED <<runner, proc, late, written, kept, overflow, status>>

\* Mutated form of the next definition.
StatusByCode(p, timed, over) ==
    CASE p.code = 0 -> "ok" [] timed -> "timeout" [] over -> "output_overflow" [] OTHER -> "failed"

StatusOf(p, timed, over) ==
    CASE timed -> "timeout"
      [] over /\ runner = "sandbox" -> "output_overflow"
      [] p.code = 0 -> "ok"
      [] OTHER -> "failed"

\* Both pipes are at their end and the leader has been waited for.
CollectEnds ==
    /\ runner = "sandbox" /\ phase = "collecting"
    /\ written = 0 /\ Drained(proc)
    /\ phase' = "done" /\ status' = StatusOf(proc, timedOut, overflow)
    /\ UNCHANGED <<runner, proc, late, written, kept, timedOut, overflow>>

-----------------------------------------------------------------------------
(* host-run: communicate, and once more after the kill. *)

CommunicateEnds ==
    /\ runner = "host" /\ phase \in {"collecting", "reaping"}
    /\ Drained(proc)
    /\ phase' = "done" /\ kept' = written /\ written' = 0
    /\ overflow' = (written > OutputLimit)
    /\ status' = StatusOf(proc, timedOut, written > OutputLimit)
    /\ UNCHANGED <<runner, proc, late, timedOut>>

\* Mutated form of the next definition.
KilledLeader(p) == IF Runs(p) THEN [p EXCEPT !.leader = "exited", !.code = 1, !.stopped = TRUE] ELSE p

\* SIGKILL to the group: what has left the group is not reached.
Killed(p) ==
    LET gone == IF p.child = "escaped" THEN p ELSE [p EXCEPT !.child = "none", !.piped = FALSE] IN
    IF Runs(p) THEN [gone EXCEPT !.leader = "exited", !.code = 1, !.stopped = TRUE] ELSE gone

TimeoutExpires ==
    /\ runner = "host" /\ phase = "collecting" /\ late
    /\ phase' = "reaping" /\ timedOut' = TRUE
    /\ proc' = Killed(proc)
    /\ UNCHANGED <<runner, late, written, kept, overflow, status>>

Loop == Collect \/ CollectEnds \/ CommunicateEnds \/ TimeoutExpires
Next ==
    \/ \E found \in Probes : Admit(found)
    \/ \E bounded \in BOOLEAN : Launch(bounded)
    \/ ProcessMoves \/ Writes \/ DeadlinePasses \/ CancelRaises
    \/ Loop

\* The runner runs, and the clock does; of the command nothing is assumed.
Fairness == WF_vars(Loop) /\ WF_vars(DeadlinePasses)
Spec == Init /\ [][Next]_vars /\ Fairness

-----------------------------------------------------------------------------
(* Properties. *)

TypeOK ==
    /\ written + kept <= OutputLimit + 1
    /\ kept <= OutputLimit \/ (runner = "host" /\ overflow)
    /\ (proc # None) = (phase \in {"collecting", "reaping", "done", "raised"})
    /\ (status # None) = (phase = "done")

\* The result is of the command: "ok" of one that ended by itself, in time and
\* within its output; "timeout" of one the runner stopped, or whose descendant
\* kept host-run waiting; and behind the sandbox's result nothing of it is left.
ResultsAreOfTheCommand ==
    phase = "done" =>
       /\ ~Runs(proc)
       /\ status = "ok" => proc.code = 0 /\ (runner = "sandbox" => ~proc.stopped)
       /\ status = "timeout" => late /\ (runner = "sandbox" => proc.stopped)
       /\ runner = "sandbox" => ~Lives(proc)
       /\ status = "timeout" => proc.child \in {"none", "escaped"}

\* A run that was started comes to an end, whatever the command does, unless it
\* is host-run's and a descendant has left the process group with its pipes.
Collecting == phase \in {"collecting", "reaping"}
RunsEnd == Collecting ~> (~Collecting \/ proc.child = "escaped")

\* VIOLATED.  Every run ends: the second communicate has no timeout.
AllRunsEnd == Collecting ~> ~Collecting

\* VIOLATED.  host-run leaves nothing behind: the group is killed on a timeout
\* only, and the result says process_group_cleanup whatever happened.
GroupIsCleanedUp == phase = "done" => ~Lives(proc)

\* VIOLATED.  What was stopped is reported as stopped: of a command that did not
\* end in a second after SIGKILL there is no result.
StartedRunsHaveResults == phase # "raised"
=============================================================================
