------------------------ MODULE CoordinatorContracts ------------------------
(***************************************************************************)
(* The offline models of the Coordinator the runtime was written against:  *)
(* a file-backed harness (coordinator_state.py), a transport with retries  *)
(* (coordinator_transport.py), a fencing machine (lease_claim_fencing.py), *)
(* a supervisor's lease (supervisor.py), and the state file that the       *)
(* command line keeps for one task (awr_cli/coordinator_local.py).  A      *)
(* behaviour is of one of them; they share the shape of a task, a log and  *)
(* answered operations.                                                    *)
(***************************************************************************)
EXTENDS Naturals, Sequences, SequencesExt, FiniteSets

CONSTANTS
    Owners,
    Operations,     \* operation ids
    MaxTime,        \* bounds the clock
    MaxLog,         \* bounds the log
    None

VARIABLES
    contract,       \* which of the five this behaviour is of
    now,
    task,           \* [revision, status, owner, expires, fence]
    log,            \* committed events: [op, kind, by, expected, fence, from]
    ops,            \* operation id |-> [request, answer], or None
    told            \* history: operation id |-> the answers its callers were given

vars == <<contract, now, task, log, ops, told>>

\* Which contract a behaviour is of.
Contracts == {"harness", "transport", "fencing", "supervisor", "local"}
Times == 0..(MaxTime + 1)

Init ==
    /\ contract \in Contracts
    /\ now = 0
    /\ task = [revision |-> 1, status |-> IF contract = "supervisor" THEN "admitted" ELSE "open",
               owner |-> IF contract = "supervisor" THEN CHOOSE o \in Owners : TRUE ELSE None,
               expires |-> IF contract = "supervisor" THEN 1 ELSE 0, fence |-> 0]
    /\ log = <<>>
    /\ ops = [o \in Operations |-> None]
    /\ told = [o \in Operations |-> {}]

Tell(op, answer) == told' = [told EXCEPT ![op] = @ \cup {answer}]

\* A known operation with the same request is answered as before, with another one refused.
Repeated(op, request) == ops[op] # None /\ ops[op].request = request

\* Mutated form of the next definition.
UnknownAlways(op) == Len(log) < MaxLog

Unknown(op) == ops[op] = None /\ Len(log) < MaxLog

Replay(op, request) ==
    /\ Repeated(op, request)
    /\ Tell(op, ops[op].answer)
    /\ UNCHANGED <<contract, now, task, log, ops>>

\* _apply of the harness, _commit of the transport: the event and the answer.
Commit(op, request, answer, fence) ==
    /\ log' = Append(log, [op |-> op, kind |-> request.kind, by |-> request.by,
                           expected |-> request.expected, fence |-> fence, from |-> task.revision])
    /\ ops' = [ops EXCEPT ![op] = [request |-> request, answer |-> answer]]

-----------------------------------------------------------------------------
(* coordinator_state.py.  The document is saved by _apply, and again once    *)
(* the task was updated; "whole" is FALSE when the process stops in between. *)

\* Mutated form of the next definition.
CommonAnyOwner(request) ==
    /\ request.expected = task.revision
    /\ task.status = "in_progress" /\ now < task.expires

\* _common, asked before the operation is looked up.
Common(request) ==
    /\ request.expected = task.revision
    /\ task.status = "in_progress" /\ task.owner = request.by /\ now < task.expires

HarnessApply(op, request) ==
    /\ Unknown(op)
    /\ Commit(op, request, <<task.revision, Len(log) + 1>>, 0)
    /\ Tell(op, <<task.revision, Len(log) + 1>>)
    /\ UNCHANGED <<contract, now>>

\* A claim is looked up first: at whatever revision it is repeated.
RepeatClaim(op) ==
    ops[op] # None /\ ops[op].request.kind = "claim" /\ Replay(op, ops[op].request)

Claim(op, request, whole) ==
    /\ request.expected = task.revision /\ task.status = "open" /\ task.owner = None
    /\ request.expires > now
    /\ HarnessApply(op, request)
    /\ task' = IF whole THEN [task EXCEPT !.revision = @ + 1, !.status = "in_progress",
                                          !.owner = request.by, !.expires = request.expires]
               ELSE [task EXCEPT !.revision = @ + 1]

\* An answer that is repeated still sets the end of the lease, as the first did.
Heartbeat(op, request, whole) ==
    /\ Common(request)
    /\ IF ops[op] = None THEN HarnessApply(op, request)
       ELSE /\ Repeated(op, request) /\ Tell(op, ops[op].answer)
            /\ UNCHANGED <<contract, now, log, ops>>
    /\ task' = IF whole THEN [task EXCEPT !.expires = request.expires] ELSE task

StateEvent(op, request) ==
    /\ Common(request)
    /\ \/ Replay(op, request)
       \/ HarnessApply(op, request) /\ task' = [task EXCEPT !.revision = @ + 1]

Release(op, request, status, whole) ==
    /\ Common(request)
    /\ HarnessApply(op, request)
    /\ task' = IF whole THEN [task EXCEPT !.revision = @ + 1, !.status = status, !.owner = None, !.expires = 0]
               ELSE [task EXCEPT !.revision = @ + 1]

Harness ==
    /\ contract = "harness"
    /\ \E op \in Operations, by \in Owners, expires \in Times, whole \in BOOLEAN :
       LET request(kind) == [kind |-> kind, by |-> by, expected |-> task.revision, expires |-> expires]
       IN \/ RepeatClaim(op)
          \/ Claim(op, request("claim"), whole)
          \/ Heartbeat(op, request("heartbeat"), whole)
          \/ StateEvent(op, [request("state_event") EXCEPT !.expires = 0])
          \/ \E status \in {"open", "done", "blocked"} :
                Release(op, [request("release") EXCEPT !.expires = 0], status, whole)

-----------------------------------------------------------------------------
(* coordinator_transport.py.  A call that met a failure before the commit is *)
(* retried or raised and leaves nothing behind; one whose answer was lost    *)
(* after the commit is told as unknown.                                      *)

Handle(op, request) ==
    \/ Replay(op, request)
    \/ /\ Unknown(op) /\ request.expected = task.revision
       /\ IF request.kind = "write_event"
          THEN /\ Commit(op, request, <<task.revision + 1, Len(log) + 1>>, 0)
               /\ Tell(op, <<task.revision + 1, Len(log) + 1>>)
               /\ task' = [task EXCEPT !.revision = @ + 1]
          ELSE /\ ops' = [ops EXCEPT ![op] = [request |-> request, answer |-> <<task.revision, Len(log)>>]]
               /\ Tell(op, <<task.revision, Len(log)>>)
               /\ UNCHANGED <<task, log>>
       /\ UNCHANGED <<contract, now>>

\* The injected loss: the event is committed before its revision is compared.
Ambiguous(op, request) ==
    /\ Unknown(op) /\ request.kind = "write_event"
    /\ Commit(op, request, <<task.revision + 1, Len(log) + 1>>, 0)
    /\ task' = [task EXCEPT !.revision = @ + 1]
    /\ UNCHANGED <<contract, now, told>>

Transport ==
    /\ contract = "transport"
    /\ \E op \in Operations, by \in Owners, expected \in 1..task.revision, kind \in {"read_revision", "write_event"} :
          LET request == [kind |-> kind, by |-> by, expected |-> expected]
          IN Handle(op, request) \/ Ambiguous(op, request)

-----------------------------------------------------------------------------
(* lease_claim_fencing.py.  A request says when it was made: "at".           *)

\* Mutated form of the next definition.
FenceAgain == task.fence

NextFence == task.fence + 1

FencingApplies(op, request, changed) ==
    /\ now' = request.at
    /\ task' = changed
    /\ Commit(op, request, changed, changed.fence)
    /\ Tell(op, changed)
    /\ UNCHANGED contract

\* The fields are set before the request is found to be invalid.
ClaimFence(op, request) ==
    /\ task.status = "open" /\ task.owner = None
    /\ LET claimed == [task EXCEPT !.owner = request.by, !.fence = NextFence, !.expires = request.expires]
       IN IF request.expires <= request.at
          THEN task' = claimed /\ UNCHANGED <<contract, now, log, ops, told>>
          ELSE FencingApplies(op, request, [claimed EXCEPT !.status = "in_progress", !.revision = @ + 1])

\* Mutated form of the next definition.
TakesOver(request) == request.expires > request.at

\* Handed on while the lease runs, recovered by another once it is over.
Replaces(request) ==
    /\ IF request.kind = "handoff" THEN request.at < task.expires ELSE request.at >= task.expires
    /\ request.expires > request.at

ApplyFence(op, request) ==
    /\ request.expected = task.revision /\ request.fence = task.fence
    /\ \/ /\ request.kind = "heartbeat" /\ request.by = task.owner
          /\ request.at < task.expires /\ request.at > now /\ request.expires > task.expires
          /\ FencingApplies(op, request, [task EXCEPT !.expires = request.expires])
       \/ /\ \/ request.kind = "handoff" /\ request.by = task.owner
             \/ request.kind = "recover_expired"      \* "by" is the one that takes over
          /\ Replaces(request)      \* nothing asks whether anybody owns the task
          /\ \E new \in Owners :
                /\ request.kind = "recover_expired" => request.by = new
                /\ FencingApplies(op, request, [task EXCEPT !.owner = new, !.expires = request.expires,
                                                            !.fence = NextFence, !.revision = @ + 1])
       \/ /\ request.kind = "release" /\ request.by = task.owner /\ request.at < task.expires
          /\ FencingApplies(op, request, [task EXCEPT !.owner = None, !.expires = 0, !.status = "open",
                                                      !.revision = @ + 1])

Fencing ==
    /\ contract = "fencing"
    /\ \E op \in Operations :
          \/ ops[op] # None /\ Replay(op, ops[op].request)
          \/ /\ Unknown(op)
             /\ \E by \in Owners, at \in now..MaxTime, expires \in Times :
                   LET request(kind) == [kind |-> kind, by |-> by, expected |-> task.revision, fence |-> task.fence,
                                         at |-> at, expires |-> expires]
                   IN \/ ClaimFence(op, request("claim"))
                      \/ \E kind \in {"heartbeat", "handoff", "recover_expired", "release"} : ApplyFence(op, request(kind))

-----------------------------------------------------------------------------
(* supervisor.py: no operation ids; a step names the holder of the lease.    *)

Moves ==
    [start |-> <<"admitted", "active">>, cancel |-> <<"active", "cancelling">>,
     cancel_ack |-> <<"cancelling", "closed">>, complete |-> <<"active", "closed">>, fail |-> <<"active", "failed">>]
Resumed == {"handed_off", "recovered"}

Supervise(by, at, expires) ==
    LET step(kind, who, changed) ==
           /\ now' = at /\ task' = changed
           /\ log' = Append(log, [op |-> None, kind |-> kind, by |-> who, expected |-> 0, fence |-> 0, from |-> 0])
        lease(kind, status, who) ==
           \E new \in Owners :
              /\ step(kind, IF who = None THEN new ELSE who,
                      [task EXCEPT !.owner = new, !.expires = expires, !.status = status])
    IN /\ contract = "supervisor" /\ Len(log) < MaxLog
       /\ at >= now /\ UNCHANGED <<contract, ops, told>>
       /\ \/ /\ by = task.owner /\ at < task.expires
             /\ \/ at > now /\ expires > task.expires /\ step("heartbeat", by, [task EXCEPT !.expires = expires])
                \/ expires > at /\ lease("handoff", "handed_off", by)
                \/ \E m \in DOMAIN Moves :
                      task.status = Moves[m][1] /\ step(m, by, [task EXCEPT !.status = Moves[m][2]])
                \/ task.status \in Resumed /\ step("resume", by, [task EXCEPT !.status = "active"])
          \/ at >= task.expires /\ lease("stale_recover", "recovered", None)

-----------------------------------------------------------------------------
(* awr_cli/coordinator_local.py: one file, written whole under a lock.  The  *)
(* lease is named after its fence and has no end: here it is "expires".      *)

LocalSaves(kind, by, changed) ==
    /\ task' = changed
    /\ log' = Append(log, [op |-> None, kind |-> kind, by |-> by, expected |-> task.revision,
                           fence |-> changed.fence, from |-> task.revision])
    /\ UNCHANGED <<contract, now, ops, told>>

\* The task that was claimed stays open until it is done or blocked.
LocalClaim(by) ==
    /\ task.status = "open" /\ task.owner = None
    /\ LocalSaves("claim", by, [task EXCEPT !.revision = @ + 1, !.owner = by, !.fence = NextFence,
                                            !.expires = NextFence])

\* A heartbeat leaves the revision, and is an event each time.
LocalHeartbeat(by, lease) ==
    by = task.owner /\ lease = task.expires /\ LocalSaves("heartbeat", by, task)

LocalComplete(by, lease, status) ==
    /\ by = task.owner /\ lease = task.expires
    /\ LocalSaves("terminal", by, [task EXCEPT !.revision = @ + 1, !.status = status, !.expires = 0])

Local ==
    /\ contract = "local" /\ Len(log) < MaxLog
    /\ \E by \in Owners, lease \in 1..task.fence, status \in {"done", "blocked"} :
          LocalHeartbeat(by, lease) \/ LocalComplete(by, lease, status)

LocalBegins == contract = "local" /\ Len(log) < MaxLog /\ \E by \in Owners : LocalClaim(by)

Tick ==
    /\ contract \in {"harness"} /\ now < MaxTime /\ now' = now + 1
    /\ UNCHANGED <<contract, task, log, ops, told>>

Next ==
    \/ Harness \/ Transport \/ Fencing
    \/ \E by \in Owners, at \in 0..MaxTime, expires \in Times : Supervise(by, at, expires)
    \/ Local \/ LocalBegins \/ Tick
Spec == Init /\ [][Next]_vars

-----------------------------------------------------------------------------
(* Properties. *)

TypeOK ==
    /\ contract \in Contracts /\ now \in Times
    /\ task.owner \in Owners \cup {None} /\ task.expires \in Times
    /\ Len(log) <= MaxLog
    /\ task.revision <= 1 + Len(log) /\ task.fence >= 0

\* However often a request is repeated, whoever stops in between, and whatever
\* answer was lost, an operation is committed at most once and answered alike.
AnsweredAlike ==
    /\ \A o \in Operations : Cardinality(told[o]) <= 1
    /\ contract \notin {"supervisor", "local"} => \A i, j \in DOMAIN log : log[i].op = log[j].op => i = j

\* A holder's term ends by its own step or after its lease's end, and the log says
\* by whose: a process that stops between the two saves of a step does not change it.
TermStep ==
    task.owner # None /\ task'.owner # task.owner =>
       /\ Len(log') = Len(log) + 1
       /\ Last(log').by = task.owner \/ now' >= task.expires
HoldersEndTheirTerms == [][TermStep]_vars

\* In the harness's log, and in the state file's, the events between two claims are those
\* of the claimant, and the state file's end with the one that completed the task.
EventsAreTheHolders ==
    /\ contract = "local" => \A i \in DOMAIN log : log[i].kind = "terminal" => i = Len(log)
    /\ contract \in {"harness", "local"} =>
       \A i, j \in DOMAIN log :
          i < j /\ log[i].kind = "claim" /\ (\A k \in (i + 1)..j : log[k].kind # "claim") => log[j].by = log[i].by

\* A fence is issued once: of two terms that followed one another the later has the greater one.
FencesAreIssuedOnce ==
    \A i, j \in DOMAIN log :
       i < j /\ log[j].kind \in {"claim", "handoff", "recover_expired"} /\ contract = "fencing" =>
          log[i].fence < log[j].fence

\* VIOLATED.  A claim that was answered holds: when the process stops between the
\* two saves of claim the operation is recorded and the task still open.
AnsweredClaimsHold ==
    contract = "harness" /\ log # <<>> /\ Last(log).kind = "claim" => task.owner = Last(log).by

\* VIOLATED.  A heartbeat never shortens a lease: repeating an earlier one does.
LeasesAreExtended ==
    [][contract = "harness" /\ task'.owner = task.owner => task'.expires >= task.expires]_vars

\* VIOLATED.  A request that is refused changes nothing: a claim of the fencing
\* machine whose lease is over already leaves the task owned and open for ever.
RefusalsChangeNothing == [][task' # task => log' # log \/ contract = "harness"]_vars

\* VIOLATED.  A task that has an owner is in progress: a task nobody owns is
\* recovered as an expired one, and is then open, owned, and claimed by nobody.
OwnedIsInProgress == contract = "fencing" /\ task.owner # None => task.status = "in_progress"

\* VIOLATED.  An event is committed at the revision its caller expected: the
\* transport's injected loss commits before the revision is compared.
CommitsAreCurrent == \A i \in DOMAIN log : contract = "transport" => log[i].expected = log[i].from

\* VIOLATED.  A supervisor's closed or failed session stays so: handoff and
\* stale_recover ask for no state.
ClosedStaysClosed ==
    [][contract = "supervisor" /\ task.status \in {"closed", "failed"} => task'.status = task.status]_vars
=============================================================================
