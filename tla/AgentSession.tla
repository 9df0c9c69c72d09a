---------------------------- MODULE AgentSession ----------------------------
(* scripts/agent_sessions.py: an AdapterSession, each of whose operations runs one
   helper under a LocalSupervisor and then appends one event.  The process that
   holds the session may die; a new one starts a session of the same identity
   over the same state directory. *)
EXTENDS Naturals, Sequences, FiniteSets

CONSTANTS
    None,
    Leases, Commands, Executable, Helpers, Names, Timeout, MaxTime, MaxPids, Forks,
    Offered,     \* modes the profile's capabilities allow, of "request" and "stream"
    MaxEvents,   \* max_output_events
    Oversized,   \* modes whose event is larger than twice max_request_bytes
    MaxFailures  \* bound: operations that failed

Modes == {"start", "request", "stream", "interrupt", "resume", "close"}
RunIds == (1..(MaxEvents + 1)) \X Modes

VARIABLES
    now, active, records, handles, processes,
    lease, state, sequence, events, checkpoint,
    call,        \* the operation under way: its mode, run and chunks left
    failures

supervisorVars == <<now, active, records, handles, processes>>
sessionVars == <<lease, state, sequence, events, checkpoint, call, failures>>
vars == <<supervisorVars, sessionVars>>

Supervisor == INSTANCE LocalSupervisor

Init ==
    /\ Supervisor!Init
    /\ lease \in {l \in Leases : \A k \in Leases : l.expires <= k.expires}
    /\ state = "new" /\ sequence = 0 /\ events = <<>> /\ checkpoint = None
    /\ call = None /\ failures = 0

-----------------------------------------------------------------------------
\* The same worker and lease, still in force (_guard_lease).
Holds(supplied) ==
    /\ supplied.worker = lease.worker /\ supplied.id = lease.id
    /\ now < lease.expires

Allowed(mode) ==
    CASE mode = "start" -> {"new"}
      [] mode \in {"request", "stream", "interrupt"} -> {"started"}
      [] mode = "resume" -> {"interrupted"}
      [] mode = "close" -> {"started", "interrupted"}

Admitted(mode, count, known) ==
    /\ state \in Allowed(mode)
    /\ mode \in {"request", "stream"} => mode \in Offered
    /\ IF mode = "stream" THEN count \in 1..(MaxEvents - sequence) ELSE count = 1
    /\ mode = "resume" => known = checkpoint

\* The run is named after the next event, whether or not that event will be.
RunId(mode) == <<sequence + 1, mode>>

Execute(mode, count, command) ==
    /\ Supervisor!Launch(RunId(mode), lease, command)
    /\ call' = [mode |-> mode, run |-> RunId(mode), left |-> count]

Begin(mode, count, known, supplied, command) ==
    /\ call = None
    /\ Holds(supplied)
    /\ Admitted(mode, count, known)
    /\ Execute(mode, count, command)
    /\ state' = IF mode = "stream" THEN "streaming" ELSE state
    /\ UNCHANGED <<lease, sequence, events, checkpoint, failures>>

NextChunk(command) ==
    /\ call # None /\ call.run = None
    /\ Execute("stream", call.left, command)
    /\ UNCHANGED <<lease, state, sequence, events, checkpoint, failures>>

\* What the supervisor does for the call; an interruption cancels at once.
Proceed ==
    /\ call # None /\ call.run # None
    /\ \/ Supervisor!WriteState(call.run)
       \/ call.mode # "interrupt" /\ Supervisor!Wait(call.run)
       \/ call.mode = "interrupt" /\ handles[call.run].phase = "recorded"
            /\ Supervisor!Cancel(call.run, lease)
    /\ UNCHANGED sessionVars

\* A handle is dropped with the call that used it.
LetGo == handles' = [handles EXCEPT ![call.run] = None] /\ UNCHANGED <<now, active, records, processes>>

Fail ==
    /\ failures < MaxFailures /\ failures' = failures + 1
    /\ call' = None
    /\ state' = IF state = "streaming" THEN "started" ELSE state
    /\ UNCHANGED <<lease, sequence, events, checkpoint>>

\* The lease ran out between the launch and the cancellation: nobody waits for
\* the helper any more.
Abandon ==
    /\ call # None /\ call.run # None /\ call.mode = "interrupt"
    /\ Supervisor!Has(call.run, "recorded")
    /\ ~Supervisor!MayCancel(call.run, lease)
    /\ Fail
    /\ UNCHANGED supervisorVars

\* The next chunk is refused by the supervisor, for the lease or for the run.
Refused ==
    /\ call # None /\ call.run = None
    /\ RunId("stream") \in active \/ now >= lease.expires \/ records[RunId("stream")] # None
    /\ Fail
    /\ UNCHANGED supervisorVars

Returned == call # None /\ call.run # None /\ Supervisor!Has(call.run, "collected")
Succeeded == handles[call.run].disposition =
               IF call.mode = "interrupt" THEN "cancelled" ELSE "completed"

\* A helper that ended otherwise, or whose output is no envelope.
Failed ==
    /\ Returned
    /\ ~Succeeded \/ call.mode # "interrupt"
    /\ Fail /\ LetGo

StateAfter(mode) ==
    CASE mode \in {"start", "resume"} -> "started"
      [] mode = "interrupt" -> "interrupted"
      [] mode = "close" -> "closed"
      [] OTHER -> state

\* Mutated form of the next definition.
EmitAlways(mode) ==
    /\ sequence' = sequence + 1
    /\ events' = Append(events, [sequence |-> sequence + 1, type |-> mode])

\* The sequence moves before the size of the event is looked at.
Emit(mode) ==
    IF sequence >= MaxEvents THEN UNCHANGED <<sequence, events>>
    ELSE /\ sequence' = sequence + 1
         /\ events' = IF mode \in Oversized THEN events
                      ELSE Append(events, [sequence |-> sequence + 1, type |-> mode])

\* The state changes first; the event may still be refused.
Complete ==
    /\ Returned /\ Succeeded
    /\ Emit(call.mode)
    /\ checkpoint' = IF call.mode = "interrupt" THEN sequence ELSE checkpoint
    /\ IF call.mode = "stream" /\ call.left > 1 /\ events' # events
       THEN call' = [mode |-> "stream", run |-> None, left |-> call.left - 1] /\ UNCHANGED state
       ELSE call' = None /\ state' = IF state = "streaming" THEN "started" ELSE StateAfter(call.mode)
    /\ LetGo /\ UNCHANGED <<lease, failures>>

\* The process dies, with the session; its successor has a lease of its own.
Restart(l) ==
    /\ failures < MaxFailures /\ failures' = failures + 1
    /\ l.worker # lease.worker /\ l.expires > lease.expires
    /\ Supervisor!Crash
    /\ lease' = l
    /\ state' = "new" /\ sequence' = 0 /\ events' = <<>> /\ checkpoint' = None /\ call' = None

Background ==
    /\ Supervisor!World \/ \E r \in RunIds : Supervisor!Tick(r) \/ Supervisor!Overflow(r) \/ Supervisor!Collect(r)
                        \/ \E l \in Leases : Supervisor!Recover(r, l)
    /\ UNCHANGED sessionVars

Next ==
    \/ \E mode \in Modes, count \in 1..MaxEvents, known \in 0..MaxEvents, l \in Leases, c \in Commands :
          Begin(mode, count, known, l, c)
    \/ \E c \in Commands : NextChunk(c)
    \/ Proceed \/ Abandon \/ Refused \/ Failed \/ Complete
    \/ \E l \in Leases : Restart(l)
    \/ Background

\* Time passes and the loop of _collect turns; nothing else is promised.
Spec == Init /\ [][Next]_vars
          /\ WF_vars(Supervisor!Advance /\ UNCHANGED sessionVars)
          /\ WF_vars(\E r \in RunIds : Supervisor!Tick(r) /\ UNCHANGED sessionVars)

-----------------------------------------------------------------------------
TypeOK ==
    /\ now \in 0..MaxTime /\ active \subseteq RunIds
    /\ \A r \in RunIds : records[r] # None => records[r].lease \in Leases
    /\ \A r \in RunIds : handles[r] \in Supervisor!Handles \cup {None}
    /\ \A p \in 1..MaxPids : processes[p] # None => processes[p].group \in Supervisor!Processes
    /\ lease \in Leases /\ sequence \in 0..MaxEvents
    /\ state \in {"new", "started", "streaming", "interrupted", "closed"}
    /\ checkpoint \in (0..MaxEvents) \cup {None}

\* The verdict on a run is about its process: "completed" and "failed" only if it
\* exited by itself, with and without the status 0; a time-out or a lost lease
\* only once that instant had come; "cancelled" only for whoever held the lease.
\* (_collect, RunHandle.cancel.)
VerdictsAreTheProcesss ==
    \A r \in RunIds : Supervisor!Has(r, "collected") =>
       LET h == handles[r]  g == Supervisor!Group(r) IN
       /\ h.disposition \in {"completed", "failed"} =>
             ~g.stopped /\ (h.disposition = "completed" <=> g.code = 0)
       /\ h.disposition \in {"timed_out", "lease_expired"} => now >= h.deadline
       /\ g.stopped => h.disposition \notin {"completed", "failed"}

\* Of the processes that were recorded, one run has at most one that is still
\* there, over crashes, retries and recoveries.  (launch, recover.)
RecordedRunsAreAlone ==
    \A p, q \in 1..MaxPids :
       /\ processes[p] # None /\ processes[q] # None /\ p # q
       /\ processes[p].run = processes[q].run
       /\ processes[p].recorded /\ processes[q].recorded
       => ~(Supervisor!Runs(processes[p].group) /\ Supervisor!Runs(processes[q].group))

\* One session runs one helper at a time, although an interruption may leave its
\* helper behind.  (AdapterSession._execute against the supervisor's deadlines.)
OneHelperAtATime ==
    \A p, q \in 1..MaxPids :
       /\ processes[p] # None /\ processes[q] # None /\ p # q
       /\ processes[p].lease = processes[q].lease
       => ~(Supervisor!Runs(processes[p].group) /\ Supervisor!Runs(processes[q].group))

\* Whoever waits for a helper sees its leader end, at the latest for the deadline.
\* (_collect; that the wait itself ends is not so: WaitsEnd.)
WaitsForALeader == \E r \in RunIds : Supervisor!Has(r, "waiting") /\ Supervisor!Runs(Supervisor!Group(r))
LeadersAreStopped == WaitsForALeader ~> ~WaitsForALeader

\* VIOLATED: a helper that was collected has left nothing running, as
\* process_tree_clean says.
CleanMeansClean ==
    \A r \in RunIds : Supervisor!Has(r, "collected") /\ handles[r].clean =>
       ~Supervisor!Lives(Supervisor!Group(r))
\* VIOLATED: a wait ends after its deadline.
Waits == \E r \in RunIds : Supervisor!Has(r, "waiting")
WaitsEnd == Waits ~> ~Waits
\* VIOLATED (a crash between Popen and the record): one process for each run.
OneProcessPerRun ==
    \A p, q \in 1..MaxPids :
       processes[p] # None /\ processes[q] # None /\ p # q /\ processes[p].run = processes[q].run =>
          ~(Supervisor!Runs(processes[p].group) /\ Supervisor!Runs(processes[q].group))
\* VIOLATED (a helper that failed): an operation may be tried again; the run id
\* of the next event is spent.
FailuresMayBeRetried ==
    call = None /\ now < lease.expires =>
       \A mode \in Modes : state \in Allowed(mode) => RunId(mode) \notin active
\* VIOLATED (the last event used up): a closed session says so.
ClosedIsAnnounced == state = "closed" => \E i \in DOMAIN events : events[i].type = "close"
\* VIOLATED (a small max_request_bytes): events are numbered without a gap.
EventsAreContiguous == \A i \in DOMAIN events : events[i].sequence = i
=============================================================================
