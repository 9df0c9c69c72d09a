---------------------------- MODULE ProcessGroup ----------------------------
(* The operating system's side of a helper: a process that leads a session of its
   own, with at most one descendant, which may have left the group and may hold
   the ends of the pipes; and what signals to the group do to them.  Code of the
   repository meets it through subprocess.Popen and os.killpg. *)
CONSTANTS
    None,
    Forks    \* <<kind, holds the pipes>> of the descendants a leader may have

\* "tame" ends on SIGTERM, "stubborn" does not, "escaped" is in another group.
Children == {"none", "tame", "stubborn", "escaped"}
Processes ==
    [leader : {"running", "exited"}, code : {0, 1}, stopped : BOOLEAN,
     child : Children, piped : BOOLEAN]

\* Popen with start_new_session.
Started == [leader |-> "running", code |-> 0, stopped |-> FALSE, child |-> "none", piped |-> FALSE]

\* poll() is None; something of it is there; both pipes are at their end.
Runs(p) == p.leader = "running"
Lives(p) == Runs(p) \/ p.child # "none"
Drained(p) == ~Runs(p) /\ ~p.piped

Exited(p, code) == [p EXCEPT !.leader = "exited", !.code = code]
Stopped(p, code) == [Exited(p, code) EXCEPT !.stopped = TRUE]
WithoutChild(p) == [p EXCEPT !.child = "none", !.piped = FALSE]

\* What the processes do by themselves.
Moves(p) ==
    (IF Runs(p) THEN {Exited(p, code) : code \in {0, 1}} ELSE {})
        \cup (IF Runs(p) /\ p.child = "none"
              THEN {[p EXCEPT !.child = f[1], !.piped = f[2]] : f \in Forks} ELSE {})
        \cup (IF p.child # "none" THEN {WithoutChild(p)} ELSE {})

\* SIGTERM to the group of a leader that is there and ends on it, with any status.
Signalled(p) ==
    IF ~Runs(p) THEN {p}
    ELSE {Stopped(IF p.child = "tame" THEN WithoutChild(p) ELSE p, code) : code \in {0, 1}}

\* The same, and SIGKILL when the leader is still there a moment later.
Terminated(p) ==
    Signalled(p)
        \cup (IF Runs(p) THEN {Stopped(IF p.child = "escaped" THEN p ELSE WithoutChild(p), 1)} ELSE {})
=============================================================================
