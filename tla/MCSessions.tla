----------------------------- MODULE MCSessions -----------------------------
(* The runners of helper processes, side by side; a behaviour uses one.      *)
(*   session  an agent's session over the local supervisor: two successive   *)
(*            leases, a helper that is allowed and one that is not, and a    *)
(*            descendant that does not heed SIGTERM and holds the pipes      *)
(*   command  one bounded command, in the sandbox or by host-run, with a     *)
(*            descendant of any kind                                         *)
EXTENDS AgentSession

VARIABLES inUse, runner, phase, proc, late, written, kept, timedOut, overflow, status

MCLeases == {[worker |-> "w1", id |-> "l1", expires |-> 3], [worker |-> "w2", id |-> "l2", expires |-> 4]}
MCCommands == {[executable |-> "python", helper |-> "helper", args |-> "relative", names |-> {}],
               [executable |-> "python", helper |-> "other", args |-> "relative", names |-> {"LANG"}]}
MCForks == {<<"stubborn", TRUE>>}
EveryFork == {<<"tame", TRUE>>, <<"stubborn", TRUE>>, <<"stubborn", FALSE>>, <<"escaped", TRUE>>, <<"escaped", FALSE>>}

Host == INSTANCE HostRunner WITH Forks <- EveryFork, OutputLimit <- 2

hostVars == <<runner, phase, proc, late, written, kept, timedOut, overflow, status>>
MCVars   == <<inUse, vars, hostVars>>

AtSession(A) == inUse = "session" /\ A /\ UNCHANGED <<inUse, hostVars>>
AtCommand(A) == inUse = "command" /\ A /\ UNCHANGED <<inUse, vars>>

MCInit ==
    /\ inUse \in {"session", "command"} /\ Init /\ Host!Init
    /\ inUse = "session" => runner = "host"      \* the one that is idle
MCNext == AtSession(Next) \/ AtCommand(Host!Next)

\* The fairness of the two components: the loop that collects output turns and time
\* passes; nothing is promised of a helper.
MCSpec ==
    /\ MCInit /\ [][MCNext]_MCVars
    /\ WF_MCVars(AtSession(Supervisor!Advance /\ UNCHANGED sessionVars))
    /\ WF_MCVars(AtSession(\E r \in RunIds : Supervisor!Tick(r) /\ UNCHANGED sessionVars))
    /\ WF_MCVars(AtCommand(Host!Loop)) /\ WF_MCVars(AtCommand(Host!DeadlinePasses))

\* What is said of a run is what its process did: that it ended by itself, or was
\* stopped and for which reason (local_supervisor.py, host_sandbox.py,
\* awr_cli/host_supervisor.py).
VerdictsAreTrue ==
    IF inUse = "session" THEN TypeOK /\ VerdictsAreTheProcesss
                         ELSE Host!TypeOK /\ Host!ResultsAreOfTheCommand

\* A run that was recorded has one process at a time over crashes, retries and
\* recoveries, and a session one helper (local_supervisor.py, agent_sessions.py).
RunsAreAlone == RecordedRunsAreAlone /\ OneHelperAtATime

\* Whoever waits for a helper sees its leader end, and a bounded command comes to its
\* end unless a descendant of host-run's took the pipes out of the process group.
CommandsEnd == LeadersAreStopped /\ Host!RunsEnd
=============================================================================
