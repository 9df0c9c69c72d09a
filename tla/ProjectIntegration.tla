------------------------- MODULE ProjectIntegration -------------------------
(***************************************************************************)
(* ProjectIntegrationRuntime (scripts/project_integration.py) over the     *)
(* ProjectIsolationRegistry (scripts/project_isolation.py) and the port of *)
(* the evidence authority: a project registers, hands in a task, works on  *)
(* it, publishes artifacts, hands their evidence to the authority and      *)
(* reconciles the end.  The registry says which worktree is whose, which   *)
(* artifact came from where and who may read it, and cleans worktrees, by  *)
(* a call whose answer may be lost.                                        *)
(*                                                                         *)
(* All contexts are of one task at one revision: a context is a project,   *)
(* its tenant, a worktree and the fence of a claim, which stands for the   *)
(* lease, the worker and the session.  A digest is what it is of.  The     *)
(* authority answers as it likes, at once or later, about the binding it   *)
(* was asked about or another one.  The ends besides "succeeded" are       *)
(* alike.                                                                  *)
(***************************************************************************)
EXTENDS Naturals, FiniteSets

CONSTANTS
    Declarations,   \* of projects: [project, tenant, capabilities]
    Contexts,       \* [project, tenant, worktree, fence]
    Leases,         \* the scheduler's claims: [task, worktree, fence]
    ArtifactIds,
    Contents,
    CleanupIds,
    Tasks,          \* what may be handed in: [input, requires]
    Sessions,       \* [session, capabilities]
    Evidence,
    Operations,     \* operation ids at the authority
    StartIds, TerminalIds,
    PortAnswers,    \* its answers besides "pending"
    Reported,       \* the ends that are reported
    None

VARIABLES
    projects,       \* project |-> its tenant, or None
    worktrees,      \* worktree |-> [context, state, cleanupFence], or None
    artifacts,      \* [project, worktree, artifact] |-> [context, content], or None
    dependencies,   \* grants: [consumer, key, record]
    operations,     \* cleanup id |-> [request, result], or None
    registered,     \* project |-> its declaration, or None
    runs,           \* [project, worktree] |-> a run, or None
    remembered,     \* operation id |-> the request it was used for, or None
    port            \* operation id |-> [request, status], or None

isolationVars == <<projects, worktrees, artifacts, dependencies, operations>>
vars == <<isolationVars, registered, runs, remembered, port>>

\* The shapes of what a project hands in, which never change; a project has a tenant.
IsRegistration(d) ==
    /\ d = [project |-> d.project, tenant |-> d.tenant, capabilities |-> d.capabilities]
    /\ d.tenant # None
IsContext(c) ==
    /\ c = [project |-> c.project, tenant |-> c.tenant, worktree |-> c.worktree, fence |-> c.fence]
    /\ c.fence \in Nat \ {0}
IsIntake(t)  == t = [input |-> t.input, requires |-> t.requires]
IsSession(s) == s = [session |-> s.session, capabilities |-> s.capabilities]

ASSUME ShapeAssumption ==
    /\ \A d \in Declarations : IsRegistration(d)
    /\ \A c \in Contexts : IsContext(c)
    /\ \A t \in Tasks : IsIntake(t)
    /\ \A s \in Sessions : IsSession(s)

-----------------------------------------------------------------------------
(* The isolation registry. *)

Projects  == {d.project : d \in Declarations}
Worktrees == {c.worktree : c \in Contexts}
Keys      == [project : Projects, worktree : Worktrees, artifact : ArtifactIds]
Records   == [context : Contexts, content : Contents]

IsolationInit ==
    /\ projects = [p \in Projects |-> None]
    /\ worktrees = [w \in Worktrees |-> None]
    /\ artifacts = [k \in Keys |-> None]
    /\ dependencies = {}
    /\ operations = [id \in CleanupIds |-> None]

\* register_project.
MayBeRegistered(d) == projects[d.project] \in {None, d.tenant}
RegisterProject(d) ==
    /\ MayBeRegistered(d)
    /\ projects' = [projects EXCEPT ![d.project] = d.tenant]

\* validate: the claim a context is made for, if it is shown.
Matches(context, lease) ==
    lease = None \/ lease = [task |-> "task", worktree |-> context.worktree, fence |-> context.fence]

\* Mutated form of the next definition: the other projects of the tenant are let in.
IsFreeForTenant(context) ==
    worktrees[context.worktree] # None => worktrees[context.worktree].context.tenant = context.tenant

IsFreeFor(context) ==
    worktrees[context.worktree] # None => worktrees[context.worktree].context = context

\* allocate_worktree; a worktree that was cleaned is still its old claim's.
MayAllocate(context, lease) ==
    /\ Matches(context, lease)
    /\ projects[context.project] = context.tenant
    /\ IsFreeFor(context)
Allocate(context, lease) ==
    /\ MayAllocate(context, lease)
    /\ worktrees' = IF worktrees[context.worktree] # None THEN worktrees
                    ELSE [worktrees EXCEPT ![context.worktree] =
                             [context |-> context, state |-> "active", cleanupFence |-> None]]

\* _require_worktree: of the same project; the claim is not compared.
IsKnown(context) ==
    /\ worktrees[context.worktree] # None
    /\ worktrees[context.worktree].context.project = context.project
    /\ worktrees[context.worktree].context.tenant = context.tenant
IsActive(context) ==
    /\ IsKnown(context)
    /\ worktrees[context.worktree].state = "active"
    /\ worktrees[context.worktree].context = context

\* put_artifact: the same again, or refused as a rewrite.
Key(context, artifact) == [project |-> context.project, worktree |-> context.worktree, artifact |-> artifact]
MayPut(context, artifact, content) ==
    /\ IsActive(context)
    /\ artifacts[Key(context, artifact)] \in {None, [context |-> context, content |-> content]}
PutArtifact(context, artifact, content) ==
    /\ MayPut(context, artifact, content)
    /\ artifacts' = [artifacts EXCEPT ![Key(context, artifact)] = [context |-> context, content |-> content]]

\* allow_dependency: what is granted is the record as it is now.
AllowDependency(consumer, key) ==
    /\ projects[consumer] # None /\ projects[consumer] = projects[key.project]
    /\ artifacts[key] # None
    /\ dependencies' = dependencies \cup {[consumer |-> consumer, key |-> key, record |-> artifacts[key]]}
    /\ UNCHANGED <<projects, worktrees, artifacts, operations>>

\* read_dependency: there must be one grant.
Grants(consumer, producer, artifact) ==
    {g \in dependencies : g.consumer = consumer /\ g.key.project = producer /\ g.key.artifact = artifact}
IsReadable(consumer, producer, artifact) ==
    \E g \in dependencies :
        /\ Grants(consumer, producer, artifact) = {g}
        /\ artifacts[g.key] = g.record

Remember(id, request, result) ==
    operations' = [operations EXCEPT ![id] = [request |-> request, result |-> result]]

\* cleanup_worktree: an interrupted one raises after it was remembered.
CleanupWorktree(context, id, interrupted) ==
    /\ IsKnown(context) /\ operations[id] = None
    /\ worktrees[context.worktree].state # "cleaned"
    /\ worktrees' = [worktrees EXCEPT ![context.worktree] =
                         [worktrees[context.worktree] EXCEPT
                             !.state = IF interrupted THEN "cleanup_pending" ELSE "cleaned",
                             !.cleanupFence = context.fence]]
    /\ Remember(id, [operation |-> "cleanup", context |-> context, interrupted |-> interrupted],
                IF interrupted THEN "pending" ELSE "cleaned")
    /\ UNCHANGED <<projects, artifacts, dependencies>>

\* recover_cleanup, under a newer fence than the interrupted one.
RecoverCleanup(context, id) ==
    /\ IsKnown(context) /\ operations[id] = None
    /\ worktrees[context.worktree].state = "cleanup_pending"
    /\ context.fence > worktrees[context.worktree].cleanupFence
    /\ worktrees' = [worktrees EXCEPT ![context.worktree].state = "cleaned"]
    /\ Remember(id, [operation |-> "recover_cleanup", context |-> context], "recovered_cleaned")
    /\ UNCHANGED <<projects, artifacts, dependencies>>

\* What callers of the registry do besides running tasks.
UseRegistry ==
    \/ \E consumer \in Projects, key \in Keys : AllowDependency(consumer, key)
    \/ \E c \in Contexts, id \in CleanupIds :
          (\E interrupted \in BOOLEAN : CleanupWorktree(c, id, interrupted)) \/ RecoverCleanup(c, id)

-----------------------------------------------------------------------------
(* The integration runtime. *)

RunKey(context) == [project |-> context.project, worktree |-> context.worktree]
RunKeys == {RunKey(c) : c \in Contexts}
Working == {"executing", "evidence_pending"}

NewRun(d, task, context, session) ==
    [declaration |-> d, task |-> task, context |-> context, session |-> session, state |-> "admitted",
     artifacts |-> {}, evidence |-> None, status |-> None, operation |-> None, terminal |-> None]

Init ==
    /\ IsolationInit
    /\ registered = [p \in Projects |-> None]
    /\ runs = [k \in RunKeys |-> None]
    /\ remembered = [id \in StartIds \cup TerminalIds |-> None]
    /\ port = [id \in Operations |-> None]

Register(d) ==
    /\ registered[d.project] \in {None, d}
    /\ RegisterProject(d)
    /\ registered' = [registered EXCEPT ![d.project] = d]
    /\ UNCHANGED <<worktrees, artifacts, dependencies, operations, runs, remembered, port>>

\* intake; a known run is answered again, or refused as changed.
Intake(d, task, context, session, lease) ==
    /\ context.project = d.project /\ context.tenant = d.tenant
    /\ registered[d.project] = d
    /\ task.requires \subseteq d.capabilities \cap session.capabilities
    /\ runs[RunKey(context)] = None
    /\ Allocate(context, lease)
    /\ runs' = [runs EXCEPT ![RunKey(context)] = NewRun(d, task, context, session)]
    /\ UNCHANGED <<projects, artifacts, dependencies, operations, registered, remembered, port>>

IsRun(k, states) == runs[k] # None /\ runs[k].state \in states
Put(k, run) == runs' = [runs EXCEPT ![k] = run]

Begin(k, id) ==
    /\ IsRun(k, {"admitted"}) /\ remembered[id] = None
    /\ Put(k, [runs[k] EXCEPT !.state = "executing"])
    /\ remembered' = [remembered EXCEPT ![id] = [operation |-> "begin", run |-> k]]
    /\ UNCHANGED <<isolationVars, registered, port>>

PublishArtifact(k, artifact, content) ==
    /\ IsRun(k, Working)
    /\ PutArtifact(runs[k].context, artifact, content)
    /\ Put(k, [runs[k] EXCEPT !.artifacts = runs[k].artifacts \cup {[id |-> artifact, content |-> content]}])
    /\ UNCHANGED <<projects, worktrees, dependencies, operations, registered, remembered, port>>

\* The authority logs the request and answers a known one as before.
Request(id, request) ==
    /\ port[id] # None => port[id].request = request
    /\ IF port[id] # None THEN UNCHANGED port
       ELSE \E status \in {"pending"} \cup PortAnswers :
                port' = [port EXCEPT ![id] = [request |-> request, status |-> status]]

\* handoff_evidence, the first time; once handed off it is only compared.
HandoffEvidence(k, artifact, evidence, id) ==
    LET envelope == [run |-> k, artifact |-> artifact, evidence |-> evidence] IN
    /\ IsRun(k, Working) /\ artifact \in runs[k].artifacts
    /\ runs[k].evidence = None
    /\ Request(id, envelope)
    /\ \/ Put(k, [runs[k] EXCEPT !.evidence = envelope, !.status = port'[id].status,
                                  !.operation = id, !.state = "evidence_pending"])
       \/ UNCHANGED runs     \* the result is of another binding
    /\ UNCHANGED <<isolationVars, registered, remembered>>

\* The authority decides what it put off; what it decided it never takes back.
Resolve(id) ==
    /\ port[id] # None /\ port[id].status = "pending"
    /\ \E status \in PortAnswers : port' = [port EXCEPT ![id].status = status]
    /\ UNCHANGED <<isolationVars, registered, runs, remembered>>

\* observe_evidence: only an acceptance counts; it makes the run go on, over or not.
ObserveEvidence(k) ==
    /\ runs[k] # None /\ runs[k].operation # None
    /\ port[runs[k].operation].status = "accepted"
    /\ Put(k, [runs[k] EXCEPT !.status = "accepted", !.state = "executing"])
    /\ UNCHANGED <<isolationVars, registered, remembered, port>>

\* Mutated form of the next definition: evidence that was handed off is enough.
MaySucceedUnaccepted(run, evidence) ==
    run.evidence # None /\ run.evidence.evidence = evidence

MaySucceed(run, evidence) ==
    run.evidence # None /\ run.status = "accepted" /\ run.evidence.evidence = evidence

\* Mutated form of the next definition: the run's state is asked, not its end.
IsOpenByState(run) == run.state # "terminal"

IsOpen(run) == run.terminal = None

\* reconcile_terminal; a known end is answered again, or refused as contradictory.
ReconcileTerminal(k, status, evidence, id) ==
    /\ IsRun(k, Working \cup {"terminal"})
    /\ status = "succeeded" => MaySucceed(runs[k], evidence)
    /\ IsOpen(runs[k]) /\ remembered[id] = None
    /\ Put(k, [runs[k] EXCEPT !.terminal = [status |-> status, evidence |-> evidence], !.state = "terminal"])
    /\ remembered' = [remembered EXCEPT ![id] = [operation |-> "terminal", run |-> k]]
    /\ UNCHANGED <<isolationVars, registered, port>>

Next ==
    \/ \E d \in Declarations : Register(d)
    \/ \E d \in Declarations, t \in Tasks, c \in Contexts, s \in Sessions, l \in Leases \cup {None} :
          Intake(d, t, c, s, l)
    \/ \E k \in RunKeys :
          \/ \E id \in StartIds : Begin(k, id)
          \/ \E a \in ArtifactIds, content \in Contents : PublishArtifact(k, a, content)
          \/ \E a \in [id : ArtifactIds, content : Contents], e \in Evidence, id \in Operations :
                HandoffEvidence(k, a, e, id)
          \/ ObserveEvidence(k)
          \/ \E s \in Reported, e \in Evidence \cup {None}, id \in TerminalIds : ReconcileTerminal(k, s, e, id)
    \/ \E id \in Operations : Resolve(id)
    \/ UseRegistry /\ UNCHANGED <<registered, runs, remembered, port>>

Spec == Init /\ [][Next]_vars

-----------------------------------------------------------------------------
(* Properties. *)

Tenants    == {d.tenant : d \in Declarations}
Fences     == {c.fence : c \in Contexts}
Placements == [context : Contexts, state : {"active", "cleanup_pending", "cleaned"}, cleanupFence : Fences \cup {None}]
Granted    == [consumer : Projects, key : Keys, record : Records]
Cleanups ==
    [request : [operation : {"cleanup"}, context : Contexts, interrupted : BOOLEAN], result : {"pending", "cleaned"}]
    \cup [request : [operation : {"recover_cleanup"}, context : Contexts], result : {"recovered_cleaned"}]

Artifacts  == [id : ArtifactIds, content : Contents]
Envelopes  == [run : RunKeys, artifact : Artifacts, evidence : Evidence]
Statuses   == {"pending"} \cup PortAnswers
Ends       == [status : Reported, evidence : Evidence \cup {None}]
Runs ==
    [declaration : Declarations, task : Tasks, context : Contexts, session : Sessions,
     state : Working \cup {"admitted", "terminal"}, artifacts : SUBSET Artifacts,
     evidence : Envelopes \cup {None}, status : Statuses \cup {None}, operation : Operations \cup {None},
     terminal : Ends \cup {None}]
Remembered == [operation : {"begin", "terminal"}, run : RunKeys]
Requests   == [request : Envelopes, status : Statuses]

\* None is no value of what may also be missing.
ASSUME NoneAssumption ==
    /\ None \notin Declarations /\ None \notin Placements /\ None \notin Records /\ None \notin Cleanups
    /\ None \notin Runs /\ None \notin Envelopes /\ None \notin Ends /\ None \notin Requests
    /\ None \notin Operations /\ None \notin Evidence /\ None \notin Statuses

TypeOK ==
    /\ projects \in [Projects -> Tenants \cup {None}]
    /\ worktrees \in [Worktrees -> Placements \cup {None}]
    /\ artifacts \in [Keys -> Records \cup {None}]
    /\ dependencies \subseteq Granted
    /\ operations \in [CleanupIds -> Cleanups \cup {None}]
    /\ registered \in [Projects -> Declarations \cup {None}]
    /\ runs \in [RunKeys -> Runs \cup {None}]
    /\ remembered \in [StartIds \cup TerminalIds -> Remembered \cup {None}]
    /\ port \in [Operations -> Requests \cup {None}]

\* A run works in a worktree that the registry keeps for its very claim and for no
\* other run, whatever else was handed in, cleaned or refused; and what it believes
\* to have published, the registry has.
RunsMatchTheRegistry ==
    \A k \in RunKeys : runs[k] # None =>
        /\ worktrees[k.worktree] # None /\ worktrees[k.worktree].context = runs[k].context
        /\ \A j \in RunKeys \ {k} : runs[j] # None => j.worktree # k.worktree
        /\ registered[k.project] = runs[k].declaration
        /\ \A a \in runs[k].artifacts :
              artifacts[Key(runs[k].context, a.id)] = [context |-> runs[k].context, content |-> a.content]

\* A run succeeds only on evidence that the authority accepted, in answer to this
\* run's own request, about an artifact the run published.
SuccessIsEvidenced ==
    \A k \in RunKeys : runs[k] # None /\ runs[k].terminal # None /\ runs[k].terminal.status = "succeeded" =>
        /\ runs[k].evidence # None /\ runs[k].evidence.artifact \in runs[k].artifacts
        /\ port[runs[k].operation] = [request |-> runs[k].evidence, status |-> "accepted"]
        /\ runs[k].terminal.evidence = runs[k].evidence.evidence

\* What a run ended with stays, though an acceptance that is observed late makes the
\* run go on, and reports under other operation ids keep coming.
TerminalIsImmutable ==
    [][\A k \in RunKeys : runs[k] # None /\ runs[k].terminal # None =>
          runs'[k].terminal = runs[k].terminal /\ runs'[k].evidence = runs[k].evidence]_vars

\* VIOLATED.  An artifact is published after the end ("artifact_after_terminal" is
\* what the code refuses it with): observing the acceptance reopened the run.
NothingAfterTerminal ==
    [][\A k \in RunKeys : runs[k] # None /\ runs[k].terminal # None =>
          runs'[k].artifacts = runs[k].artifacts /\ runs'[k].state = "terminal"]_vars

\* What the registry said stays so: an artifact is the one its worktree's claim
\* published, what was granted was of the same tenant and is still what was granted,
\* and what a cleanup was answered - if only when it is repeated - is the case.
RegistryKeepsItsWord ==
    /\ \A k \in Keys : artifacts[k] # None =>
          /\ worktrees[k.worktree] # None
          /\ artifacts[k].context = worktrees[k.worktree].context
          /\ projects[k.project] = artifacts[k].context.tenant
    /\ \A g \in dependencies :
          artifacts[g.key] = g.record /\ projects[g.consumer] = projects[g.key.project]
    /\ \A id \in CleanupIds : operations[id] # None =>
          LET worktree == worktrees[operations[id].request.context.worktree] IN
          worktree.state \in {"cleaned"} \cup (IF operations[id].result = "pending" THEN {"cleanup_pending"} ELSE {})

\* VIOLATED where two runs begin.  A grant of the same artifact from a second worktree
\* of its project takes the first one away.
GrantsStayReadable ==
    \A g \in dependencies : IsReadable(g.consumer, g.key.project, g.key.artifact)

\* VIOLATED.  The fence of a cleanup is not compared with the worktree's: an earlier
\* claim cleans the worktree of a later one, and a pending cleanup needs no recovery.
CleanupIsFenced ==
    \A w \in Worktrees : worktrees[w] # None /\ worktrees[w].cleanupFence # None =>
        worktrees[w].cleanupFence >= worktrees[w].context.fence

RunsMatchTheirProjects == TypeOK /\ RegistryKeepsItsWord /\ RunsMatchTheRegistry
=============================================================================
