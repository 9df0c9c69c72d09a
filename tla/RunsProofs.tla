----------------------------- MODULE RunsProofs -----------------------------
(***************************************************************************)
(* Machine-checked proofs about the runs of projects: the runtime over the *)
(* isolation registry, the journal of a run, the stream of a session, and  *)
(* the checkouts and the home that all of it is set up in.  They hold for  *)
(* any projects, claims, tasks, artifacts, authorities, leases,            *)
(* observations, correlations, processes, checkouts, names and bounds.     *)
(*                                                                         *)
(* The argument about projects is that all but the worktrees' state and    *)
(* the runs' progress is written once (WrittenOnce): a tenant, the claim   *)
(* of a worktree, an artifact, a grant, what a cleanup was answered, and   *)
(* an acceptance.  So what a run relied on when it did a step, it may rely *)
(* on afterwards.  About a journal, that every command adds one event in   *)
(* its place (Writes).  About a stream, that an event is told of one turn, *)
(* the open one, of which no more is told than its queue took.  About a    *)
(* checkout and the home, that a file is written after those it depends    *)
(* on (Follows, Installs), so that a process that stops, or is killed,     *)
(* leaves the beginning of a layout; that needs processes that take turns, *)
(* for no command locks what it writes.                                    *)
(***************************************************************************)
EXTENDS MCRuns, Sequences, FiniteSetTheorems, TLAPS

(* A worktree is kept for a claim of a registered project on it; who was   *)
(* granted an artifact is registered; a cleaned worktree was allocated.    *)
PlacedOK ==
  \A w \in Worktrees : worktrees[w] # None =>
     /\ worktrees[w].context.worktree = w
     /\ worktrees[w].context.project \in Projects
     /\ projects[worktrees[w].context.project] = worktrees[w].context.tenant
     /\ worktrees[w].context.tenant # None
GrantedOK == \A g \in dependencies : projects[g.consumer] # None
CleanedOK ==
  \A id \in CleanupIds : operations[id] # None => worktrees[operations[id].request.context.worktree] # None

RegistryInv == TypeOK /\ PlacedOK /\ GrantedOK /\ CleanedOK /\ RegistryKeepsItsWord

(* What a run is about.                                                    *)
IsPlaced(k) ==
  /\ RunKey(runs[k].context) = k
  /\ worktrees[k.worktree] # None /\ worktrees[k.worktree].context = runs[k].context
  /\ runs[k].declaration.project = k.project /\ registered[k.project] = runs[k].declaration
  /\ \A a \in runs[k].artifacts :
        artifacts[Key(runs[k].context, a.id)] = [context |-> runs[k].context, content |-> a.content]

(* What a run knows of its evidence: the request it named is the one that  *)
(* the authority has, and an acceptance is the authority's.                *)
IsHandedOff(k) ==
  /\ runs[k].evidence = None <=> runs[k].operation = None
  /\ runs[k].evidence # None =>
        /\ runs[k].evidence.artifact \in runs[k].artifacts
        /\ port[runs[k].operation] # None
        /\ port[runs[k].operation].request = runs[k].evidence
        /\ runs[k].status = "accepted" => port[runs[k].operation].status = "accepted"

(* A run that is over was at work before, and may only go on, by an        *)
(* acceptance, if evidence had been handed off.                            *)
IsEnded(k) ==
  runs[k].terminal # None =>
    /\ runs[k].state # "admitted"
    /\ runs[k].evidence = None => runs[k].state = "terminal"
    /\ runs[k].terminal.status = "succeeded" => MaySucceed(runs[k], runs[k].terminal.evidence)

RunsInv ==
  /\ RegistryInv
  /\ \A k \in RunKeys : runs[k] # None => IsPlaced(k) /\ IsHandedOff(k) /\ IsEnded(k)

(* What is written once.                                                   *)
WrittenOnce ==
  /\ \A p \in Projects : projects[p] # None => projects'[p] = projects[p]
  /\ \A w \in Worktrees : worktrees[w] # None =>
        /\ worktrees'[w] # None /\ worktrees'[w].context = worktrees[w].context
        /\ worktrees[w].state = "cleaned" => worktrees'[w].state = "cleaned"
        /\ worktrees[w].state = "cleanup_pending" => worktrees'[w].state \in {"cleanup_pending", "cleaned"}
  /\ \A k \in Keys : artifacts[k] # None => artifacts'[k] = artifacts[k]
  /\ \A p \in Projects : registered[p] # None => registered'[p] = registered[p]
  /\ \A id \in Operations : port[id] # None =>
        /\ port'[id] # None /\ port'[id].request = port[id].request
        /\ port[id].status = "accepted" => port'[id].status = "accepted"

---------------------------------------------------------------------------
(* What projects hand in has the parts that its shape names.               *)
LEMMA ContextsAre ==
  ASSUME NEW c \in Contexts
  PROVE  /\ c.worktree \in Worktrees /\ c.fence \in Fences /\ c.fence \in Nat
         /\ RunKey(c) \in RunKeys
         /\ c = [project |-> c.project, tenant |-> c.tenant, worktree |-> c.worktree, fence |-> c.fence]
BY ShapeAssumption DEF IsContext, Worktrees, Fences, RunKeys

LEMMA DeclarationsAre ==
  ASSUME NEW d \in Declarations
  PROVE  d.project \in Projects /\ d.tenant \in Tenants /\ d.tenant # None
BY ShapeAssumption DEF IsRegistration, Projects, Tenants

LEMMA TenantsAreNamed == None \notin Tenants
BY DeclarationsAre DEF Tenants

LEMMA RunKeysAre ==
  ASSUME NEW k \in RunKeys
  PROVE  k.worktree \in Worktrees /\ k = [project |-> k.project, worktree |-> k.worktree]
BY ContextsAre DEF RunKeys, RunKey

(* A claim of a worktree that is kept is known with its project.           *)
LEMMA PlacedAre ==
  ASSUME TypeOK, PlacedOK, NEW w \in Worktrees, worktrees[w] # None
  PROVE  /\ worktrees[w] \in Placements
         /\ worktrees[w].context \in Contexts /\ worktrees[w].context.worktree = w
         /\ worktrees[w].context.project \in Projects
         /\ projects[worktrees[w].context.project] = worktrees[w].context.tenant
         /\ projects[worktrees[w].context.project] # None
<1>1. worktrees[w] \in Placements
  BY DEF TypeOK
<1>2. worktrees[w].context \in Contexts
  BY <1>1 DEF Placements
<1>3. QED
  BY <1>1, <1>2 DEF PlacedOK

(* ---- Every step keeps the types and what is written once. ---- *)

(* A change of a run that keeps its type.                                  *)
LEMMA PutTypes ==
  ASSUME NEW k \in RunKeys, NEW run \in Runs, runs \in [RunKeys -> Runs \cup {None}], Put(k, run)
  PROVE  /\ runs' \in [RunKeys -> Runs \cup {None}]
         /\ runs'[k] = run /\ \A j \in RunKeys \ {k} : runs'[j] = runs[j]
BY DEF Put

LEMMA RegisterKeeps ==
  ASSUME TypeOK, NEW d \in Declarations, Register(d)
  PROVE  TypeOK' /\ WrittenOnce /\ projects'[d.project] = d.tenant
<1>1. d.project \in Projects /\ d.tenant \in Tenants
  BY DeclarationsAre
<1>2. projects' \in [Projects -> Tenants \cup {None}] /\ registered' \in [Projects -> Declarations \cup {None}]
  BY <1>1 DEF Register, RegisterProject, TypeOK
<1>3. UNCHANGED <<worktrees, artifacts, dependencies, operations, runs, remembered, port>>
  BY DEF Register
<1>4. TypeOK'
  BY <1>2, <1>3 DEF TypeOK
<1>5. /\ projects[d.project] \in {None, d.tenant} /\ projects' = [projects EXCEPT ![d.project] = d.tenant]
      /\ registered[d.project] \in {None, d} /\ registered' = [registered EXCEPT ![d.project] = d]
  BY DEF Register, RegisterProject, MayBeRegistered
<1>6. projects \in [Projects -> Tenants \cup {None}] /\ registered \in [Projects -> Declarations \cup {None}]
  BY DEF TypeOK
<1>7. WrittenOnce
  BY <1>1, <1>3, <1>5, <1>6 DEF WrittenOnce
<1>8. QED
  BY <1>1, <1>4, <1>5, <1>6, <1>7

LEMMA IntakeKeeps ==
  ASSUME TypeOK, NEW d \in Declarations, NEW t \in Tasks, NEW c \in Contexts, NEW s \in Sessions,
         NEW l \in Leases \cup {None}, Intake(d, t, c, s, l)
  PROVE  /\ TypeOK' /\ WrittenOnce
         /\ runs[RunKey(c)] = None /\ runs' = [runs EXCEPT ![RunKey(c)] = NewRun(d, t, c, s)]
         /\ worktrees'[c.worktree] # None /\ worktrees'[c.worktree].context = c
         /\ \A w \in Worktrees \ {c.worktree} : worktrees'[w] = worktrees[w]
         /\ worktrees[c.worktree] # None => worktrees'[c.worktree] = worktrees[c.worktree]
<1>1. c.worktree \in Worktrees /\ RunKey(c) \in RunKeys
  BY ContextsAre
<1> DEFINE new == [context |-> c, state |-> "active", cleanupFence |-> None]
<1>2. new \in Placements /\ new.context = c
  BY DEF Placements
<1>3. /\ worktrees' = IF worktrees[c.worktree] # None THEN worktrees ELSE [worktrees EXCEPT ![c.worktree] = new]
      /\ worktrees[c.worktree] # None => worktrees[c.worktree].context = c
  BY DEF Intake, Allocate, MayAllocate, IsFreeFor
<1> HIDE DEF new
<1>4. worktrees \in [Worktrees -> Placements \cup {None}]
  BY DEF TypeOK
<1>5. /\ worktrees' \in [Worktrees -> Placements \cup {None}]
      /\ worktrees'[c.worktree] # None /\ worktrees'[c.worktree].context = c
      /\ \A w \in Worktrees \ {c.worktree} : worktrees'[w] = worktrees[w]
      /\ worktrees[c.worktree] # None => worktrees'[c.worktree] = worktrees[c.worktree]
  BY <1>1, <1>2, <1>3, <1>4, NoneAssumption
<1>6. NewRun(d, t, c, s) \in Runs
  BY DEF NewRun, Runs, Working
<1>7. /\ runs[RunKey(c)] = None /\ runs' = [runs EXCEPT ![RunKey(c)] = NewRun(d, t, c, s)]
      /\ UNCHANGED <<projects, artifacts, dependencies, operations, registered, remembered, port>>
  BY DEF Intake
<1>8. runs' \in [RunKeys -> Runs \cup {None}]
  BY <1>1, <1>6, <1>7 DEF TypeOK
<1>9. TypeOK'
  BY <1>5, <1>7, <1>8 DEF TypeOK
<1>10. WrittenOnce
  BY <1>1, <1>5, <1>7 DEF WrittenOnce
<1>11. QED
  BY <1>5, <1>7, <1>9, <1>10

LEMMA BeginKeeps ==
  ASSUME TypeOK, NEW k \in RunKeys, NEW id \in StartIds, Begin(k, id)
  PROVE  TypeOK' /\ WrittenOnce
<1> DEFINE run == [runs[k] EXCEPT !.state = "executing"]
<1>1. runs[k] \in Runs
  BY DEF TypeOK, Begin, IsRun
<1>2. run \in Runs
  BY <1>1 DEF Runs, Working
<1>3. runs' \in [RunKeys -> Runs \cup {None}]
  BY <1>2, PutTypes DEF TypeOK, Begin
<1>4. remembered' \in [StartIds \cup TerminalIds -> Remembered \cup {None}]
  BY DEF TypeOK, Begin, Remembered
<1>5. UNCHANGED <<isolationVars, registered, port>>
  BY DEF Begin
<1>6. QED
  BY <1>3, <1>4, <1>5 DEF TypeOK, WrittenOnce, isolationVars

LEMMA PublishKeeps ==
  ASSUME TypeOK, PlacedOK, NEW k \in RunKeys, NEW a \in ArtifactIds, NEW content \in Contents,
         PublishArtifact(k, a, content)
  PROVE  /\ TypeOK' /\ WrittenOnce
         /\ LET c == runs[k].context IN
            /\ c \in Contexts /\ IsActive(c) /\ Key(c, a) \in Keys
            /\ artifacts' = [artifacts EXCEPT ![Key(c, a)] = [context |-> c, content |-> content]]
<1> DEFINE c   == runs[k].context
           run == [runs[k] EXCEPT !.artifacts = runs[k].artifacts \cup {[id |-> a, content |-> content]}]
<1>1. runs[k] \in Runs
  BY DEF TypeOK, PublishArtifact, IsRun
<1>2. c \in Contexts
  BY <1>1 DEF Runs
<1>3. run \in Runs
  BY <1>1 DEF Runs, Artifacts
<1>4. runs' \in [RunKeys -> Runs \cup {None}]
  BY <1>3, PutTypes DEF TypeOK, PublishArtifact
<1>5. UNCHANGED <<projects, worktrees, dependencies, operations, registered, remembered, port>>
  BY DEF PublishArtifact
<1>6. /\ IsActive(c) /\ artifacts[Key(c, a)] \in {None, [context |-> c, content |-> content]}
      /\ artifacts' = [artifacts EXCEPT ![Key(c, a)] = [context |-> c, content |-> content]]
  BY DEF PublishArtifact, PutArtifact, MayPut
<1> HIDE DEF c, run
<1>7. c.worktree \in Worktrees
  BY <1>2, ContextsAre
<1>8. c.project \in Projects
  BY <1>6, <1>7 DEF IsActive, IsKnown, PlacedOK
<1>9. Key(c, a) \in Keys
  BY <1>7, <1>8 DEF Key, Keys
<1>10. [context |-> c, content |-> content] \in Records
  BY <1>2 DEF Records
<1>11. artifacts \in [Keys -> Records \cup {None}]
  BY DEF TypeOK
<1>12. artifacts' \in [Keys -> Records \cup {None}]
  BY <1>6, <1>9, <1>10, <1>11
<1>13. TypeOK'
  BY <1>4, <1>5, <1>12 DEF TypeOK
<1>14. \A key \in Keys : artifacts[key] # None => artifacts'[key] = artifacts[key]
  BY <1>6, <1>9, <1>11
<1>15. WrittenOnce
  BY <1>5, <1>14 DEF WrittenOnce
<1>16. QED
  BY <1>2, <1>6, <1>9, <1>13, <1>15 DEF c

(* The authority has the request that was handed in, and says of it what   *)
(* it said before if it knew it.                                           *)
LEMMA RequestKeeps ==
  ASSUME port \in [Operations -> Requests \cup {None}], NEW id \in Operations, NEW request \in Envelopes,
         Request(id, request)
  PROVE  /\ port' \in [Operations -> Requests \cup {None}]
         /\ port'[id] \in Requests /\ port'[id] # None /\ port'[id].request = request
         /\ \A o \in Operations : port[o] # None => port'[o] = port[o]
<1>1. CASE port[id] # None
  <2>1. port' = port /\ port[id].request = request
    BY <1>1 DEF Request
  <2>2. QED
    BY <2>1, <1>1
<1>2. CASE port[id] = None
  <2>1. PICK status \in Statuses : port' = [port EXCEPT ![id] = [request |-> request, status |-> status]]
    BY <1>2 DEF Request, Statuses
  <2>2. [request |-> request, status |-> status] \in Requests
    BY DEF Requests
  <2>3. QED
    BY <2>1, <2>2, <1>2, NoneAssumption
<1>3. QED
  BY <1>1, <1>2

LEMMA HandoffKeeps ==
  ASSUME TypeOK, NEW k \in RunKeys, NEW a \in Artifacts, NEW e \in Evidence, NEW id \in Operations,
         HandoffEvidence(k, a, e, id)
  PROVE  /\ TypeOK' /\ WrittenOnce
         /\ port'[id] # None /\ port'[id] \in Requests
         /\ port'[id].request = [run |-> k, artifact |-> a, evidence |-> e]
<1> DEFINE envelope == [run |-> k, artifact |-> a, evidence |-> e]
           run == [runs[k] EXCEPT !.evidence = envelope, !.status = port'[id].status,
                                  !.operation = id, !.state = "evidence_pending"]
<1>1. envelope \in Envelopes
  BY DEF Envelopes
<1>2. Request(id, envelope)
  BY DEF HandoffEvidence
<1>3. /\ port' \in [Operations -> Requests \cup {None}]
      /\ port'[id] \in Requests /\ port'[id] # None /\ port'[id].request = envelope
      /\ \A o \in Operations : port[o] # None => port'[o] = port[o]
  BY <1>1, <1>2, RequestKeeps DEF TypeOK
<1>4. port'[id].status \in Statuses
  BY <1>3 DEF Requests
<1>5. Put(k, run) \/ UNCHANGED runs
  BY DEF HandoffEvidence
<1>6. runs[k] \in Runs
  BY DEF TypeOK, HandoffEvidence, IsRun
<1>7. run \in Runs
  BY <1>1, <1>4, <1>6 DEF Runs, Working
<1>8. runs' \in [RunKeys -> Runs \cup {None}]
  BY <1>5, <1>7, PutTypes DEF TypeOK
<1>9. UNCHANGED <<isolationVars, registered, remembered>>
  BY DEF HandoffEvidence
<1>10. TypeOK'
  BY <1>3, <1>8, <1>9 DEF TypeOK, isolationVars
<1>11. WrittenOnce
  BY <1>3, <1>9 DEF WrittenOnce, isolationVars
<1>12. QED
  BY <1>3, <1>10, <1>11

LEMMA ResolveKeeps ==
  ASSUME TypeOK, NEW id \in Operations, Resolve(id)
  PROVE  TypeOK' /\ WrittenOnce
<1>1. port[id] \in Requests /\ port[id].status = "pending"
  BY DEF TypeOK, Resolve
<1>2. PICK status \in PortAnswers : port' = [port EXCEPT ![id].status = status]
  BY DEF Resolve
<1>3. PICK answer : answer = [port[id] EXCEPT !.status = status]
  OBVIOUS
<1>4. answer \in Requests /\ answer.request = port[id].request
  BY <1>1, <1>3 DEF Requests, Statuses
<1>5. port \in [Operations -> Requests \cup {None}]
  BY DEF TypeOK
<1>6. port' = [port EXCEPT ![id] = answer]
  BY <1>2, <1>3, <1>5
<1>7. port' \in [Operations -> Requests \cup {None}]
  BY <1>4, <1>5, <1>6
<1>8. UNCHANGED <<isolationVars, registered, runs, remembered>>
  BY DEF Resolve
<1>9. TypeOK'
  BY <1>7, <1>8 DEF TypeOK, isolationVars
<1>10. \A o \in Operations : port[o] # None =>
          /\ port'[o] # None /\ port'[o].request = port[o].request
          /\ port[o].status = "accepted" => port'[o].status = "accepted"
  BY <1>1, <1>4, <1>5, <1>6, NoneAssumption
<1>11. WrittenOnce
  BY <1>8, <1>10 DEF WrittenOnce, isolationVars
<1>12. QED
  BY <1>9, <1>11

LEMMA ObserveKeeps ==
  ASSUME TypeOK, NEW k \in RunKeys, IsHandedOff(k), ObserveEvidence(k)
  PROVE  TypeOK' /\ WrittenOnce
<1> DEFINE run == [runs[k] EXCEPT !.status = "accepted", !.state = "executing"]
<1>1. runs[k] \in Runs /\ runs[k].operation # None
  BY DEF TypeOK, ObserveEvidence
<1>2. runs[k].operation \in Operations
  BY <1>1 DEF Runs
<1>3. port[runs[k].operation].status = "accepted"
  BY DEF ObserveEvidence
<1>4. "accepted" \in Statuses
  <2>1. port[runs[k].operation] # None
    BY <1>1, <1>2, NoneAssumption DEF IsHandedOff
  <2>2. port[runs[k].operation] \in Requests
    BY <1>2, <2>1 DEF TypeOK
  <2>3. QED
    BY <1>3, <2>2 DEF Requests
<1>5. run \in Runs
  BY <1>1, <1>4 DEF Runs, Working
<1>6. runs' \in [RunKeys -> Runs \cup {None}]
  BY <1>5, PutTypes DEF TypeOK, ObserveEvidence
<1>7. UNCHANGED <<isolationVars, registered, remembered, port>>
  BY DEF ObserveEvidence
<1>8. QED
  BY <1>6, <1>7 DEF TypeOK, WrittenOnce, isolationVars

LEMMA ReconcileKeeps ==
  ASSUME TypeOK, NEW k \in RunKeys, NEW status \in Reported, NEW e \in Evidence \cup {None}, NEW id \in TerminalIds,
         ReconcileTerminal(k, status, e, id)
  PROVE  TypeOK' /\ WrittenOnce
<1> DEFINE run == [runs[k] EXCEPT !.terminal = [status |-> status, evidence |-> e], !.state = "terminal"]
<1>1. runs[k] \in Runs
  BY DEF TypeOK, ReconcileTerminal, IsRun
<1>2. run \in Runs
  BY <1>1 DEF Runs, Ends
<1>3. runs' \in [RunKeys -> Runs \cup {None}]
  BY <1>2, PutTypes DEF TypeOK, ReconcileTerminal
<1>4. remembered' \in [StartIds \cup TerminalIds -> Remembered \cup {None}]
  BY DEF TypeOK, ReconcileTerminal, Remembered
<1>5. UNCHANGED <<isolationVars, registered, port>>
  BY DEF ReconcileTerminal
<1>6. QED
  BY <1>3, <1>4, <1>5 DEF TypeOK, WrittenOnce, isolationVars

RuntimeVars == <<registered, runs, remembered, port>>

LEMMA AllowKeeps ==
  ASSUME TypeOK, NEW consumer \in Projects, NEW key \in Keys, AllowDependency(consumer, key), UNCHANGED RuntimeVars
  PROVE  TypeOK' /\ WrittenOnce
<1>1. UNCHANGED <<projects, worktrees, artifacts, operations, registered, runs, remembered, port>>
  BY DEF AllowDependency, RuntimeVars
<1>2. artifacts[key] \in Records
  BY DEF AllowDependency, TypeOK
<1>3. [consumer |-> consumer, key |-> key, record |-> artifacts[key]] \in Granted
  BY <1>2 DEF Granted
<1>4. dependencies' \subseteq Granted
  BY <1>3 DEF AllowDependency, TypeOK
<1>5. QED
  BY <1>1, <1>4 DEF TypeOK, WrittenOnce

(* A cleanup changes the state of the worktree and is remembered.          *)
LEMMA CleanupKeeps ==
  ASSUME TypeOK, NEW c \in Contexts, NEW id \in CleanupIds, NEW interrupted \in BOOLEAN,
         CleanupWorktree(c, id, interrupted), UNCHANGED RuntimeVars
  PROVE  /\ TypeOK' /\ WrittenOnce
         /\ worktrees'[c.worktree].state = (IF interrupted THEN "cleanup_pending" ELSE "cleaned")
         /\ operations'[id].request.context = c
         /\ operations'[id].result = (IF interrupted THEN "pending" ELSE "cleaned")
         /\ \A o \in CleanupIds \ {id} : operations'[o] = operations[o]
<1> DEFINE w == c.worktree
           state == IF interrupted THEN "cleanup_pending" ELSE "cleaned"
           result == IF interrupted THEN "pending" ELSE "cleaned"
           request == [operation |-> "cleanup", context |-> c, interrupted |-> interrupted]
           new == [worktrees[w] EXCEPT !.state = state, !.cleanupFence = c.fence]
<1>1. w \in Worktrees /\ c.fence \in Fences
  BY ContextsAre
<1>2. worktrees[w] \in Placements /\ worktrees[w].state # "cleaned"
  BY <1>1 DEF TypeOK, CleanupWorktree, IsKnown
<1>3. new \in Placements /\ new.context = worktrees[w].context /\ new.state = state
  BY <1>1, <1>2 DEF Placements
<1>4. worktrees' = [worktrees EXCEPT ![w] = new]
  BY DEF CleanupWorktree
<1>5. operations' = [operations EXCEPT ![id] = [request |-> request, result |-> result]]
  BY DEF CleanupWorktree, Remember
<1>6. [request |-> request, result |-> result] \in Cleanups
  BY DEF Cleanups
<1>7. UNCHANGED <<projects, artifacts, dependencies, registered, runs, remembered, port>>
  BY DEF CleanupWorktree, RuntimeVars
<1>8. request.context = c
  OBVIOUS
<1>9. /\ worktrees \in [Worktrees -> Placements \cup {None}]
      /\ operations \in [CleanupIds -> Cleanups \cup {None}]
  BY DEF TypeOK
<1>10. state \in {"cleanup_pending", "cleaned"}
  OBVIOUS
<1> HIDE DEF new, request
<1>11. operations' \in [CleanupIds -> Cleanups \cup {None}]
  BY <1>5, <1>6, <1>9
<1>12. worktrees' \in [Worktrees -> Placements \cup {None}]
  BY <1>1, <1>3, <1>4, <1>9
<1>13. TypeOK'
  BY <1>7, <1>11, <1>12 DEF TypeOK
<1>14. WrittenOnce
  BY <1>1, <1>2, <1>3, <1>4, <1>7, <1>9, <1>10, NoneAssumption DEF WrittenOnce
<1>15. worktrees'[w].state = state
  BY <1>1, <1>3, <1>4, <1>9
<1>16. operations'[id].request.context = c /\ operations'[id].result = result
  BY <1>5, <1>8, <1>9
<1>17. QED
  BY <1>5, <1>9, <1>13, <1>14, <1>15, <1>16

LEMMA RecoverKeeps ==
  ASSUME TypeOK, NEW c \in Contexts, NEW id \in CleanupIds, RecoverCleanup(c, id), UNCHANGED RuntimeVars
  PROVE  /\ TypeOK' /\ WrittenOnce
         /\ worktrees'[c.worktree].state = "cleaned"
         /\ operations'[id].request.context = c /\ operations'[id].result = "recovered_cleaned"
         /\ \A o \in CleanupIds \ {id} : operations'[o] = operations[o]
<1> DEFINE w == c.worktree
           request == [operation |-> "recover_cleanup", context |-> c]
<1>1. w \in Worktrees
  BY ContextsAre
<1>2. worktrees[w] \in Placements
  BY <1>1 DEF TypeOK, RecoverCleanup, IsKnown
<1>3. worktrees' = [worktrees EXCEPT ![w].state = "cleaned"]
  BY DEF RecoverCleanup
<1>4. PICK new : new = [worktrees[w] EXCEPT !.state = "cleaned"]
  OBVIOUS
<1>5. new \in Placements /\ new.context = worktrees[w].context /\ new.state = "cleaned"
  BY <1>2, <1>4 DEF Placements
<1>6. operations' = [operations EXCEPT ![id] = [request |-> request, result |-> "recovered_cleaned"]]
  BY DEF RecoverCleanup, Remember
<1>7. [request |-> request, result |-> "recovered_cleaned"] \in Cleanups
  BY DEF Cleanups
<1>8. UNCHANGED <<projects, artifacts, dependencies, registered, runs, remembered, port>>
  BY DEF RecoverCleanup, RuntimeVars
<1>9. request.context = c
  OBVIOUS
<1>10. /\ worktrees \in [Worktrees -> Placements \cup {None}]
       /\ operations \in [CleanupIds -> Cleanups \cup {None}]
  BY DEF TypeOK
<1> HIDE DEF request
<1>11. worktrees' = [worktrees EXCEPT ![w] = new]
  BY <1>3, <1>4, <1>10
<1>12. operations' \in [CleanupIds -> Cleanups \cup {None}] /\ worktrees' \in [Worktrees -> Placements \cup {None}]
  BY <1>5, <1>6, <1>7, <1>10, <1>11
<1>13. TypeOK'
  BY <1>8, <1>12 DEF TypeOK
<1>14. WrittenOnce
  BY <1>1, <1>5, <1>8, <1>10, <1>11, NoneAssumption DEF WrittenOnce
<1>15. worktrees'[w].state = "cleaned"
  BY <1>1, <1>5, <1>10, <1>11
<1>16. operations'[id].request.context = c /\ operations'[id].result = "recovered_cleaned"
  BY <1>6, <1>9, <1>10
<1>17. QED
  BY <1>6, <1>10, <1>13, <1>14, <1>15, <1>16

(* ---- The registry keeps its word. ---- *)

IsWord(key) ==
  /\ worktrees[key.worktree] # None
  /\ artifacts[key].context = worktrees[key.worktree].context
  /\ projects[key.project] = artifacts[key].context.tenant
IsGrant(g) ==
  artifacts[g.key] = g.record /\ projects[g.consumer] = projects[g.key.project] /\ projects[g.consumer] # None
IsCleaned(id) ==
  LET w == operations[id].request.context.worktree IN
  /\ worktrees[w] # None
  /\ worktrees[w].state \in {"cleaned"} \cup (IF operations[id].result = "pending" THEN {"cleanup_pending"} ELSE {})
IsKept(w) ==
  /\ worktrees[w].context.worktree = w /\ worktrees[w].context.project \in Projects
  /\ projects[worktrees[w].context.project] = worktrees[w].context.tenant
  /\ worktrees[w].context.tenant # None

(* The registry's invariant, by worktree, artifact, grant and cleanup.     *)
LEMMA RegistryParts ==
  RegistryInv <=>
    /\ TypeOK
    /\ \A w \in Worktrees : worktrees[w] # None => IsKept(w)
    /\ \A key \in Keys : artifacts[key] # None => IsWord(key)
    /\ \A g \in dependencies : IsGrant(g)
    /\ \A id \in CleanupIds : operations[id] # None => IsCleaned(id)
BY DEF RegistryInv, PlacedOK, GrantedOK, CleanedOK, RegistryKeepsItsWord, IsKept, IsWord, IsGrant, IsCleaned

LEMMA RegistryPartsNext ==
    /\ TypeOK'
    /\ \A w \in Worktrees : worktrees'[w] # None => IsKept(w)'
    /\ \A key \in Keys : artifacts'[key] # None => IsWord(key)'
    /\ \A g \in dependencies' : IsGrant(g)'
    /\ \A id \in CleanupIds : operations'[id] # None => IsCleaned(id)'
  => RegistryInv'
BY DEF RegistryInv, PlacedOK, GrantedOK, CleanedOK, RegistryKeepsItsWord, IsKept, IsWord, IsGrant, IsCleaned

(* What is written once, and what is new and right, is all that is needed. *)
LEMMA WordIsKept ==
  ASSUME RegistryInv, TypeOK', WrittenOnce,
         \A w \in Worktrees : worktrees[w] = None /\ worktrees'[w] # None => IsKept(w)',
         \A key \in Keys : artifacts[key] = None /\ artifacts'[key] # None => IsWord(key)',
         \A g \in dependencies' \ dependencies : IsGrant(g)',
         \A id \in CleanupIds : operations'[id] # None /\ operations'[id] # operations[id] => IsCleaned(id)'
  PROVE  RegistryInv'
<1>1. /\ TypeOK
      /\ \A w \in Worktrees : worktrees[w] # None => IsKept(w)
      /\ \A key \in Keys : artifacts[key] # None => IsWord(key)
      /\ \A g \in dependencies : IsGrant(g)
      /\ \A id \in CleanupIds : operations[id] # None => IsCleaned(id)
  BY RegistryParts
<1>2. ASSUME NEW w \in Worktrees, worktrees'[w] # None PROVE IsKept(w)'
  <2>1. CASE worktrees[w] # None
    <3>1. IsKept(w) /\ worktrees'[w].context = worktrees[w].context
      BY <1>1, <2>1 DEF WrittenOnce
    <3>2. \A p \in Projects : projects[p] # None => projects'[p] = projects[p]
      BY DEF WrittenOnce
    <3>3. QED
      BY <3>1, <3>2 DEF IsKept
  <2>2. QED
    BY <1>2, <2>1
<1>3. ASSUME NEW key \in Keys, artifacts'[key] # None PROVE IsWord(key)'
  <2>1. CASE artifacts[key] # None
    <3>1. key.worktree \in Worktrees /\ key.project \in Projects
      BY DEF Keys
    <3>2. IsWord(key) /\ IsKept(key.worktree) /\ artifacts'[key] = artifacts[key]
      BY <1>1, <2>1, <3>1 DEF WrittenOnce, IsWord
    <3>3. /\ worktrees'[key.worktree] # None
          /\ worktrees'[key.worktree].context = worktrees[key.worktree].context
      BY <3>1, <3>2 DEF WrittenOnce, IsWord
    <3>4. projects[key.project] # None
      BY <3>2 DEF IsWord, IsKept
    <3>5. projects'[key.project] = projects[key.project]
      BY <3>1, <3>4 DEF WrittenOnce
    <3>6. QED
      BY <3>2, <3>3, <3>5 DEF IsWord
  <2>2. QED
    BY <1>3, <2>1
<1>4. ASSUME NEW g \in dependencies' PROVE IsGrant(g)'
  <2>1. CASE g \in dependencies
    <3>1. g \in Granted
      BY <1>1, <2>1 DEF TypeOK
    <3>2. g.consumer \in Projects /\ g.key \in Keys /\ g.key.project \in Projects /\ g.record # None
      BY <3>1, NoneAssumption DEF Granted, Keys
    <3>3. IsGrant(g)
      BY <1>1, <2>1
    <3>4. artifacts'[g.key] = artifacts[g.key]
      BY <3>2, <3>3 DEF IsGrant, WrittenOnce
    <3>5. projects'[g.consumer] = projects[g.consumer] /\ projects'[g.key.project] = projects[g.key.project]
      BY <3>2, <3>3 DEF IsGrant, WrittenOnce
    <3>6. QED
      BY <3>3, <3>4, <3>5 DEF IsGrant
  <2>2. QED
    BY <2>1
<1>5. ASSUME NEW id \in CleanupIds, operations'[id] # None PROVE IsCleaned(id)'
  <2>1. CASE operations'[id] = operations[id]
    <3>1. operations[id] \in Cleanups
      BY <1>1, <1>5, <2>1 DEF TypeOK
    <3>2. operations[id].request.context \in Contexts
      BY <3>1 DEF Cleanups
    <3>3. PICK w \in Worktrees : w = operations[id].request.context.worktree
      BY <3>2, ContextsAre
    <3>4. IsCleaned(id)
      BY <1>1, <1>5, <2>1
    <3>5. /\ worktrees[w] # None
          /\ worktrees[w].state \in {"cleaned"} \cup (IF operations[id].result = "pending" THEN {"cleanup_pending"} ELSE {})
      BY <3>3, <3>4 DEF IsCleaned
    <3>6. /\ worktrees'[w] # None
          /\ worktrees[w].state = "cleaned" => worktrees'[w].state = "cleaned"
          /\ worktrees[w].state = "cleanup_pending" => worktrees'[w].state \in {"cleanup_pending", "cleaned"}
      BY <3>5 DEF WrittenOnce
    <3>7. QED
      BY <2>1, <3>3, <3>5, <3>6 DEF IsCleaned
  <2>2. QED
    BY <1>5, <2>1
<1>6. QED
  BY <1>2, <1>3, <1>4, <1>5, RegistryPartsNext

(* Steps that leave the registry to itself.                                *)
LEMMA RegistryRests ==
  ASSUME RegistryInv, TypeOK', WrittenOnce, UNCHANGED <<worktrees, artifacts, dependencies, operations>>
  PROVE  RegistryInv'
BY WordIsKept

LEMMA RegistryTakesIntake ==
  ASSUME RegistryInv, NEW d \in Declarations, NEW t \in Tasks, NEW c \in Contexts, NEW s \in Sessions,
         NEW l \in Leases \cup {None}, Intake(d, t, c, s, l)
  PROVE  RegistryInv' /\ WrittenOnce
<1>1. TypeOK
  BY DEF RegistryInv
<1>2. /\ TypeOK' /\ WrittenOnce
      /\ worktrees'[c.worktree].context = c
      /\ \A w \in Worktrees \ {c.worktree} : worktrees'[w] = worktrees[w]
  BY <1>1, IntakeKeeps
<1>3. UNCHANGED <<projects, artifacts, dependencies, operations>>
  BY DEF Intake
<1>4. c.project = d.project /\ c.tenant = d.tenant /\ projects[c.project] = c.tenant
  BY DEF Intake, Allocate, MayAllocate
<1>5. c.project \in Projects /\ c.tenant # None
  BY <1>4, DeclarationsAre
<1>6. IsKept(c.worktree)'
  BY <1>2, <1>3, <1>4, <1>5 DEF IsKept
<1>7. \A w \in Worktrees : worktrees[w] = None /\ worktrees'[w] # None => IsKept(w)'
  <2>1. SUFFICES ASSUME NEW w \in Worktrees, worktrees[w] = None, worktrees'[w] # None PROVE IsKept(w)'
    OBVIOUS
  <2>2. w = c.worktree
    BY <1>2, <2>1
  <2>3. QED
    BY <1>6, <2>2
<1>8. QED
  BY <1>2, <1>3, <1>7, WordIsKept

LEMMA RegistryTakesArtifact ==
  ASSUME RegistryInv, NEW k \in RunKeys, NEW a \in ArtifactIds, NEW content \in Contents,
         PublishArtifact(k, a, content)
  PROVE  RegistryInv' /\ WrittenOnce
<1>1. TypeOK /\ PlacedOK
  BY DEF RegistryInv
<1>2. PICK c : c = runs[k].context
  OBVIOUS
<1>3. PICK key : key = Key(c, a)
  OBVIOUS
<1>4. /\ TypeOK' /\ WrittenOnce /\ c \in Contexts /\ IsActive(c) /\ key \in Keys
      /\ artifacts' = [artifacts EXCEPT ![key] = [context |-> c, content |-> content]]
  BY <1>1, <1>2, <1>3, PublishKeeps
<1>5. UNCHANGED <<projects, worktrees, dependencies, operations>>
  BY DEF PublishArtifact
<1>6. key.worktree = c.worktree /\ key.project = c.project /\ c.worktree \in Worktrees
  BY <1>3, <1>4, ContextsAre DEF Key
<1>7. worktrees[c.worktree] # None /\ worktrees[c.worktree].context = c
  BY <1>4 DEF IsActive, IsKnown
<1>8. projects[c.project] = c.tenant
  BY <1>1, <1>6, <1>7 DEF PlacedOK
<1>9. artifacts'[key].context = c
  BY <1>1, <1>4 DEF TypeOK
<1>10. IsWord(key)'
  BY <1>5, <1>6, <1>7, <1>8, <1>9 DEF IsWord
<1>11. \A other \in Keys : artifacts[other] = None /\ artifacts'[other] # None => IsWord(other)'
  <2>1. SUFFICES ASSUME NEW other \in Keys, artifacts[other] = None, artifacts'[other] # None PROVE IsWord(other)'
    OBVIOUS
  <2>2. other = key
    BY <1>1, <1>4, <2>1 DEF TypeOK
  <2>3. QED
    BY <1>10, <2>2
<1>12. QED
  BY <1>4, <1>5, <1>11, WordIsKept

LEMMA RegistryGrants ==
  ASSUME RegistryInv, NEW consumer \in Projects, NEW key \in Keys, AllowDependency(consumer, key), UNCHANGED RuntimeVars
  PROVE  RegistryInv' /\ WrittenOnce
<1>1. TypeOK' /\ WrittenOnce
  BY AllowKeeps DEF RegistryInv
<1>2. /\ UNCHANGED <<projects, worktrees, artifacts, operations>>
      /\ projects[consumer] # None /\ projects[consumer] = projects[key.project]
      /\ dependencies' = dependencies \cup {[consumer |-> consumer, key |-> key, record |-> artifacts[key]]}
  BY DEF AllowDependency
<1>3. \A g \in dependencies' \ dependencies : IsGrant(g)'
  BY <1>2 DEF IsGrant
<1>4. QED
  BY <1>1, <1>2, <1>3, WordIsKept

LEMMA RegistryCleans ==
  ASSUME RegistryInv, NEW c \in Contexts, NEW id \in CleanupIds, UNCHANGED RuntimeVars,
         (\E interrupted \in BOOLEAN : CleanupWorktree(c, id, interrupted)) \/ RecoverCleanup(c, id)
  PROVE  RegistryInv' /\ WrittenOnce
<1>1. TypeOK
  BY DEF RegistryInv
<1>2. /\ UNCHANGED <<projects, artifacts, dependencies>>
      /\ IsKnown(c)
      /\ \E new : worktrees' = [worktrees EXCEPT ![c.worktree] = new]
  BY DEF CleanupWorktree, RecoverCleanup
<1>3. /\ TypeOK' /\ WrittenOnce
      /\ operations'[id].request.context = c
      /\ \/ worktrees'[c.worktree].state = "cleaned"
         \/ worktrees'[c.worktree].state = "cleanup_pending" /\ operations'[id].result = "pending"
      /\ \A o \in CleanupIds \ {id} : operations'[o] = operations[o]
  <2>1. CASE \E interrupted \in BOOLEAN : CleanupWorktree(c, id, interrupted)
    BY <1>1, <2>1, CleanupKeeps
  <2>2. CASE RecoverCleanup(c, id)
    BY <1>1, <2>2, RecoverKeeps
  <2>3. QED
    BY <2>1, <2>2
<1>4. worktrees[c.worktree] # None /\ c.worktree \in Worktrees
  BY <1>2, ContextsAre DEF IsKnown
<1>5. worktrees'[c.worktree] # None
  BY <1>3, <1>4 DEF WrittenOnce
<1>6. IsCleaned(id)'
  BY <1>3, <1>5 DEF IsCleaned
<1>7. \A o \in CleanupIds : operations'[o] # None /\ operations'[o] # operations[o] => IsCleaned(o)'
  <2>1. SUFFICES ASSUME NEW o \in CleanupIds, operations'[o] # operations[o] PROVE IsCleaned(o)'
    OBVIOUS
  <2>2. o = id
    BY <1>3, <2>1
  <2>3. QED
    BY <1>6, <2>2
<1>8. \A w \in Worktrees : worktrees[w] = None => worktrees'[w] = None
  BY <1>1, <1>2, <1>4 DEF TypeOK
<1>9. QED
  BY <1>2, <1>3, <1>7, <1>8, WordIsKept

(* The registry keeps its word whatever the runs do.                       *)
LEMMA RegistryStep ==
  ASSUME RunsInv, Next
  PROVE  RegistryInv' /\ WrittenOnce
<1>0. /\ RegistryInv /\ TypeOK
      /\ \A k \in RunKeys : runs[k] # None => IsHandedOff(k)
  BY DEF RunsInv, RegistryInv
<1>1. ASSUME NEW d \in Declarations, Register(d) PROVE RegistryInv' /\ WrittenOnce
  BY <1>0, <1>1, RegisterKeeps, RegistryRests DEF Register
<1>2. ASSUME NEW d \in Declarations, NEW t \in Tasks, NEW c \in Contexts, NEW s \in Sessions,
             NEW l \in Leases \cup {None}, Intake(d, t, c, s, l)
      PROVE  RegistryInv' /\ WrittenOnce
  BY <1>0, <1>2, RegistryTakesIntake
<1>3. ASSUME NEW k \in RunKeys, NEW id \in StartIds, Begin(k, id) PROVE RegistryInv' /\ WrittenOnce
  BY <1>0, <1>3, BeginKeeps, RegistryRests DEF Begin, isolationVars
<1>4. ASSUME NEW k \in RunKeys, NEW a \in ArtifactIds, NEW content \in Contents, PublishArtifact(k, a, content)
      PROVE  RegistryInv' /\ WrittenOnce
  BY <1>0, <1>4, RegistryTakesArtifact
<1>5. ASSUME NEW k \in RunKeys, NEW a \in Artifacts, NEW e \in Evidence, NEW id \in Operations,
             HandoffEvidence(k, a, e, id)
      PROVE  RegistryInv' /\ WrittenOnce
  BY <1>0, <1>5, HandoffKeeps, RegistryRests DEF HandoffEvidence, isolationVars
<1>6. ASSUME NEW k \in RunKeys, ObserveEvidence(k) PROVE RegistryInv' /\ WrittenOnce
  BY <1>0, <1>6, ObserveKeeps, RegistryRests DEF ObserveEvidence, isolationVars
<1>7. ASSUME NEW k \in RunKeys, NEW status \in Reported, NEW e \in Evidence \cup {None}, NEW id \in TerminalIds,
             ReconcileTerminal(k, status, e, id)
      PROVE  RegistryInv' /\ WrittenOnce
  BY <1>0, <1>7, ReconcileKeeps, RegistryRests DEF ReconcileTerminal, isolationVars
<1>8. ASSUME NEW id \in Operations, Resolve(id) PROVE RegistryInv' /\ WrittenOnce
  BY <1>0, <1>8, ResolveKeeps, RegistryRests DEF Resolve, isolationVars
<1>9. ASSUME UseRegistry, UNCHANGED RuntimeVars PROVE RegistryInv' /\ WrittenOnce
  BY <1>0, <1>9, RegistryGrants, RegistryCleans DEF UseRegistry
<1>10. QED
  BY <1>1, <1>2, <1>3, <1>4, <1>5, <1>6, <1>7, <1>8, <1>9 DEF Next, RuntimeVars, Artifacts

(* ---- What the runs rely on. ---- *)

RunIsSound(k) == runs[k] # None => IsPlaced(k) /\ IsHandedOff(k) /\ IsEnded(k)

(* A run of the same claim and declaration is placed as before.            *)
LEMMA PlacedIsKept ==
  ASSUME TypeOK, TypeOK', WrittenOnce, PlacedOK, NEW k \in RunKeys, runs[k] # None, IsPlaced(k),
         runs'[k] # None, runs'[k].context = runs[k].context, runs'[k].declaration = runs[k].declaration,
         \A a \in runs'[k].artifacts :
            \/ a \in runs[k].artifacts
            \/ artifacts'[Key(runs[k].context, a.id)] = [context |-> runs[k].context, content |-> a.content]
  PROVE  IsPlaced(k)'
<1>1. PICK c : c = runs[k].context
  OBVIOUS
<1>2. runs[k] \in Runs /\ c \in Contexts
  BY <1>1 DEF TypeOK, Runs
<1>3. k.worktree \in Worktrees /\ RunKey(c) = k /\ c.worktree = k.worktree /\ c.project = k.project
  BY <1>1, RunKeysAre DEF IsPlaced, RunKey
<1>4. c.project \in Projects
  BY <1>1, <1>3 DEF IsPlaced, PlacedOK
<1>5. worktrees'[k.worktree] # None /\ worktrees'[k.worktree].context = c
  BY <1>1, <1>3 DEF IsPlaced, WrittenOnce
<1>6. registered'[k.project] = registered[k.project]
  <2>1. registered[k.project] \in Declarations
    BY <1>2 DEF IsPlaced, Runs
  <2>2. QED
    BY <2>1, <1>3, <1>4, NoneAssumption DEF WrittenOnce
<1>7. \A a \in runs'[k].artifacts : artifacts'[Key(c, a.id)] = [context |-> c, content |-> a.content]
  <2>1. SUFFICES ASSUME NEW a \in runs'[k].artifacts, a \in runs[k].artifacts
                 PROVE  artifacts'[Key(c, a.id)] = [context |-> c, content |-> a.content]
    BY <1>1
  <2>2. a.id \in ArtifactIds /\ a.content \in Contents
    BY <1>2, <2>1 DEF Runs, Artifacts
  <2>3. Key(c, a.id) \in Keys
    BY <1>3, <1>4, <2>2 DEF Key, Keys
  <2>4. [context |-> c, content |-> a.content] \in Records
    BY <1>2, <2>2 DEF Records
  <2>5. artifacts[Key(c, a.id)] = [context |-> c, content |-> a.content]
    BY <1>1, <2>1 DEF IsPlaced
  <2>6. QED
    BY <2>3, <2>4, <2>5, NoneAssumption DEF WrittenOnce
<1>8. QED
  BY <1>1, <1>3, <1>5, <1>6, <1>7 DEF IsPlaced

(* A run whose evidence is the same is told the same of it.                *)
LEMMA HandedOffIsKept ==
  ASSUME TypeOK, WrittenOnce, NEW k \in RunKeys, runs[k] # None, IsHandedOff(k),
         runs'[k].evidence = runs[k].evidence, runs'[k].operation = runs[k].operation,
         runs[k].artifacts \subseteq runs'[k].artifacts,
         runs'[k].status = "accepted" => runs[k].status = "accepted" \/ port[runs[k].operation].status = "accepted"
  PROVE  IsHandedOff(k)'
<1>1. PICK o : o = runs[k].operation
  OBVIOUS
<1>2. CASE o = None
  BY <1>1, <1>2 DEF IsHandedOff
<1>3. CASE o # None
  <2>1. o \in Operations
    BY <1>1, <1>3 DEF TypeOK, Runs
  <2>2. /\ port[o] # None /\ port[o].request = runs[k].evidence
        /\ runs[k].evidence # None /\ runs[k].evidence.artifact \in runs[k].artifacts
        /\ runs[k].status = "accepted" => port[o].status = "accepted"
    BY <1>1, <1>3 DEF IsHandedOff
  <2>3. /\ port'[o] # None /\ port'[o].request = port[o].request
        /\ port[o].status = "accepted" => port'[o].status = "accepted"
    BY <2>1, <2>2 DEF WrittenOnce
  <2>4. QED
    BY <1>1, <1>3, <2>2, <2>3 DEF IsHandedOff
<1>4. QED
  BY <1>2, <1>3

LEMMA RunRests ==
  ASSUME RegistryInv, TypeOK', WrittenOnce, NEW k \in RunKeys, RunIsSound(k), runs'[k] = runs[k]
  PROVE  RunIsSound(k)'
<1>1. SUFFICES ASSUME runs[k] # None PROVE IsPlaced(k)' /\ IsHandedOff(k)' /\ IsEnded(k)'
  BY DEF RunIsSound
<1>2. TypeOK /\ PlacedOK
  BY DEF RegistryInv
<1>3. IsPlaced(k) /\ IsHandedOff(k) /\ IsEnded(k)
  BY <1>1 DEF RunIsSound
<1>4. IsPlaced(k)'
  BY <1>1, <1>2, <1>3, PlacedIsKept
<1>5. IsHandedOff(k)'
  BY <1>1, <1>2, <1>3, HandedOffIsKept
<1>6. IsEnded(k)'
  BY <1>3 DEF IsEnded
<1>7. QED
  BY <1>4, <1>5, <1>6

(* What a step did to the run, and that the run is sound afterwards.       *)
LEMMA NewRunIsSound ==
  ASSUME RegistryInv, RegistryInv', WrittenOnce,
         NEW d \in Declarations, NEW t \in Tasks, NEW c \in Contexts, NEW s \in Sessions,
         NEW l \in Leases \cup {None}, Intake(d, t, c, s, l)
  PROVE  RunIsSound(RunKey(c))'
<1>1. PICK k : k = RunKey(c)
  OBVIOUS
<1>2. k \in RunKeys /\ k.worktree = c.worktree /\ k.project = c.project
  BY <1>1, ContextsAre DEF RunKey
<1>3. /\ runs' = [runs EXCEPT ![k] = NewRun(d, t, c, s)]
      /\ worktrees'[c.worktree] # None /\ worktrees'[c.worktree].context = c
  BY <1>1, IntakeKeeps DEF RegistryInv
<1>4. runs'[k] = NewRun(d, t, c, s)
  BY <1>2, <1>3 DEF RegistryInv, TypeOK
<1>5. d.project = c.project /\ registered'[d.project] = d
  BY DEF Intake
<1>6. IsPlaced(k)'
  BY <1>1, <1>2, <1>3, <1>4, <1>5 DEF IsPlaced, NewRun
<1>7. IsHandedOff(k)' /\ IsEnded(k)'
  BY <1>4 DEF IsHandedOff, IsEnded, NewRun
<1>8. QED
  BY <1>1, <1>6, <1>7 DEF RunIsSound

LEMMA BegunRunIsSound ==
  ASSUME RegistryInv, TypeOK', WrittenOnce, NEW k \in RunKeys, RunIsSound(k), NEW id \in StartIds, Begin(k, id)
  PROVE  RunIsSound(k)' /\ \A j \in RunKeys \ {k} : runs'[j] = runs[j]
<1>1. TypeOK /\ PlacedOK
  BY DEF RegistryInv
<1>2. runs[k] \in Runs /\ runs[k] # None /\ runs[k].state = "admitted"
  BY <1>1 DEF Begin, IsRun, TypeOK
<1>3. PICK run : run = [runs[k] EXCEPT !.state = "executing"]
  OBVIOUS
<1>4. /\ run \in Runs
      /\ \A a \in run.artifacts : a \in runs[k].artifacts
      /\ run.context = runs[k].context /\ run.declaration = runs[k].declaration
      /\ run.artifacts = runs[k].artifacts /\ run.evidence = runs[k].evidence
      /\ run.operation = runs[k].operation /\ run.status = runs[k].status /\ run.terminal = runs[k].terminal
  BY <1>2, <1>3 DEF Runs, Working
<1>5. runs'[k] = run /\ \A j \in RunKeys \ {k} : runs'[j] = runs[j]
  BY <1>1, <1>3, <1>4, PutTypes DEF Begin, TypeOK
<1>6. IsPlaced(k) /\ IsHandedOff(k) /\ IsEnded(k)
  BY <1>2 DEF RunIsSound
<1>7. IsPlaced(k)'
  BY <1>1, <1>2, <1>4, <1>5, <1>6, PlacedIsKept, NoneAssumption
<1>8. IsHandedOff(k)'
  BY <1>1, <1>2, <1>4, <1>5, <1>6, HandedOffIsKept
<1>9. IsEnded(k)'
  BY <1>2, <1>4, <1>5, <1>6 DEF IsEnded
<1>10. QED
  BY <1>5, <1>7, <1>8, <1>9 DEF RunIsSound

LEMMA PublishingRunIsSound ==
  ASSUME RegistryInv, TypeOK', WrittenOnce, NEW k \in RunKeys, RunIsSound(k),
         NEW a \in ArtifactIds, NEW content \in Contents, PublishArtifact(k, a, content)
  PROVE  RunIsSound(k)' /\ \A j \in RunKeys \ {k} : runs'[j] = runs[j]
<1>1. TypeOK /\ PlacedOK
  BY DEF RegistryInv
<1>2. runs[k] \in Runs /\ runs[k] # None /\ runs[k].state \in Working
  BY <1>1 DEF PublishArtifact, IsRun, TypeOK
<1>3. PICK c : c = runs[k].context
  OBVIOUS
<1>4. PICK new : new = [id |-> a, content |-> content]
  OBVIOUS
<1>5. PICK run : run = [runs[k] EXCEPT !.artifacts = runs[k].artifacts \cup {new}]
  OBVIOUS
<1>6. new \in Artifacts /\ new.id = a /\ new.content = content
  BY <1>4 DEF Artifacts
<1>7. /\ run \in Runs
      /\ run.context = c /\ run.declaration = runs[k].declaration
      /\ run.artifacts = runs[k].artifacts \cup {new} /\ run.evidence = runs[k].evidence
      /\ run.operation = runs[k].operation /\ run.status = runs[k].status /\ run.terminal = runs[k].terminal
      /\ run.state = runs[k].state
  BY <1>2, <1>3, <1>5, <1>6 DEF Runs
<1>8. runs'[k] = run /\ \A j \in RunKeys \ {k} : runs'[j] = runs[j]
  BY <1>1, <1>4, <1>5, <1>7, PutTypes DEF PublishArtifact, TypeOK
<1>9. artifacts'[Key(c, a)] = [context |-> c, content |-> content]
  <2>1. Key(c, a) \in Keys /\ artifacts' = [artifacts EXCEPT ![Key(c, a)] = [context |-> c, content |-> content]]
    BY <1>1, <1>3, PublishKeeps
  <2>2. QED
    BY <1>1, <2>1 DEF TypeOK
<1>10. IsPlaced(k) /\ IsHandedOff(k) /\ IsEnded(k)
  BY <1>2 DEF RunIsSound
<1>11. IsPlaced(k)'
  <2>1. \A b \in run.artifacts :
           b \in runs[k].artifacts \/ artifacts'[Key(c, b.id)] = [context |-> c, content |-> b.content]
    BY <1>6, <1>7, <1>9
  <2>2. QED
    BY <1>1, <1>2, <1>3, <1>7, <1>8, <1>10, <2>1, PlacedIsKept, NoneAssumption
<1>12. IsHandedOff(k)'
  BY <1>1, <1>2, <1>7, <1>8, <1>10, HandedOffIsKept
<1>13. IsEnded(k)'
  BY <1>2, <1>7, <1>8, <1>10 DEF IsEnded, MaySucceed
<1>14. QED
  BY <1>8, <1>11, <1>12, <1>13 DEF RunIsSound

LEMMA HandingRunIsSound ==
  ASSUME RegistryInv, TypeOK', WrittenOnce, NEW k \in RunKeys, RunIsSound(k),
         NEW a \in Artifacts, NEW e \in Evidence, NEW id \in Operations, HandoffEvidence(k, a, e, id)
  PROVE  RunIsSound(k)' /\ \A j \in RunKeys \ {k} : runs'[j] = runs[j]
<1>1. TypeOK /\ PlacedOK
  BY DEF RegistryInv
<1>2. /\ runs[k] \in Runs /\ runs[k] # None /\ runs[k].state \in Working
      /\ runs[k].evidence = None /\ a \in runs[k].artifacts
  BY <1>1 DEF HandoffEvidence, IsRun, TypeOK
<1>3. PICK envelope : envelope = [run |-> k, artifact |-> a, evidence |-> e]
  OBVIOUS
<1>4. envelope \in Envelopes /\ envelope.artifact = a
  BY <1>3 DEF Envelopes
<1>5. port'[id] # None /\ port'[id] \in Requests /\ port'[id].request = envelope
  BY <1>1, <1>3, HandoffKeeps
<1>6. PICK status \in Statuses : status = port'[id].status
  BY <1>5 DEF Requests
<1>7. CASE UNCHANGED runs
  BY <1>7, RunRests
<1>8. CASE ~ UNCHANGED runs
  <2>1. PICK run : run = [runs[k] EXCEPT !.evidence = envelope, !.status = status,
                                         !.operation = id, !.state = "evidence_pending"]
    OBVIOUS
  <2>2. Put(k, run)
    BY <1>3, <1>6, <1>8, <2>1 DEF HandoffEvidence
  <2>3. /\ run \in Runs
        /\ run.context = runs[k].context /\ run.declaration = runs[k].declaration
        /\ run.artifacts = runs[k].artifacts /\ run.evidence = envelope
        /\ run.operation = id /\ run.status = status /\ run.terminal = runs[k].terminal
    BY <1>2, <1>4, <2>1 DEF Runs, Working
  <2>4. runs'[k] = run /\ \A j \in RunKeys \ {k} : runs'[j] = runs[j]
    BY <1>1, <2>2, <2>3, PutTypes DEF TypeOK
  <2>5. IsPlaced(k) /\ IsEnded(k)
    BY <1>2 DEF RunIsSound
  <2>6. IsPlaced(k)'
    BY <1>1, <1>2, <2>3, <2>4, <2>5, PlacedIsKept, NoneAssumption
  <2>7. IsHandedOff(k)'
    BY <1>2, <1>4, <1>5, <1>6, <2>3, <2>4, NoneAssumption DEF IsHandedOff
  <2>8. runs[k].terminal = None
    BY <1>2, <2>5 DEF IsEnded, Working
  <2>9. IsEnded(k)'
    BY <2>3, <2>4, <2>8 DEF IsEnded
  <2>10. QED
    BY <2>4, <2>6, <2>7, <2>9 DEF RunIsSound
<1>9. QED
  BY <1>7, <1>8

LEMMA ObservingRunIsSound ==
  ASSUME RegistryInv, TypeOK', WrittenOnce, NEW k \in RunKeys, RunIsSound(k), ObserveEvidence(k)
  PROVE  RunIsSound(k)' /\ \A j \in RunKeys \ {k} : runs'[j] = runs[j]
<1>1. TypeOK /\ PlacedOK
  BY DEF RegistryInv
<1>2. /\ runs[k] \in Runs /\ runs[k] # None /\ runs[k].operation # None
      /\ port[runs[k].operation].status = "accepted"
  BY <1>1 DEF ObserveEvidence, TypeOK
<1>3. IsPlaced(k) /\ IsHandedOff(k) /\ IsEnded(k)
  BY <1>2 DEF RunIsSound
<1>4. "accepted" \in Statuses
  <2>1. runs[k].operation \in Operations
    BY <1>2 DEF Runs
  <2>2. port[runs[k].operation] \in Requests
    BY <1>1, <1>2, <1>3, <2>1 DEF TypeOK, IsHandedOff
  <2>3. QED
    BY <1>2, <2>2 DEF Requests
<1>5. PICK run : run = [runs[k] EXCEPT !.status = "accepted", !.state = "executing"]
  OBVIOUS
<1>6. /\ run \in Runs
      /\ run.context = runs[k].context /\ run.declaration = runs[k].declaration
      /\ run.artifacts = runs[k].artifacts /\ run.evidence = runs[k].evidence
      /\ run.operation = runs[k].operation /\ run.status = "accepted" /\ run.terminal = runs[k].terminal
      /\ run.state = "executing"
  BY <1>2, <1>4, <1>5 DEF Runs, Working
<1>7. runs'[k] = run /\ \A j \in RunKeys \ {k} : runs'[j] = runs[j]
  BY <1>1, <1>5, <1>6, PutTypes DEF ObserveEvidence, TypeOK
<1>8. IsPlaced(k)'
  BY <1>1, <1>2, <1>3, <1>6, <1>7, PlacedIsKept, NoneAssumption
<1>9. IsHandedOff(k)'
  BY <1>1, <1>2, <1>3, <1>6, <1>7, HandedOffIsKept
<1>10. runs[k].evidence # None
  BY <1>2, <1>3 DEF IsHandedOff
<1>11. IsEnded(k)'
  BY <1>3, <1>6, <1>7, <1>10 DEF IsEnded, MaySucceed
<1>12. QED
  BY <1>7, <1>8, <1>9, <1>11 DEF RunIsSound

LEMMA EndingRunIsSound ==
  ASSUME RegistryInv, TypeOK', WrittenOnce, NEW k \in RunKeys, RunIsSound(k), NEW status \in Reported,
         NEW e \in Evidence \cup {None}, NEW id \in TerminalIds, ReconcileTerminal(k, status, e, id)
  PROVE  RunIsSound(k)' /\ \A j \in RunKeys \ {k} : runs'[j] = runs[j]
<1>1. TypeOK /\ PlacedOK
  BY DEF RegistryInv
<1>2. /\ runs[k] \in Runs /\ runs[k] # None
      /\ status = "succeeded" => MaySucceed(runs[k], e)
  BY <1>1 DEF ReconcileTerminal, IsRun, TypeOK
<1>3. IsPlaced(k) /\ IsHandedOff(k)
  BY <1>2 DEF RunIsSound
<1>4. PICK end : end = [status |-> status, evidence |-> e]
  OBVIOUS
<1>5. end \in Ends /\ end.status = status /\ end.evidence = e
  BY <1>4 DEF Ends
<1>6. PICK run : run = [runs[k] EXCEPT !.terminal = end, !.state = "terminal"]
  OBVIOUS
<1>7. /\ run \in Runs
      /\ run.context = runs[k].context /\ run.declaration = runs[k].declaration
      /\ run.artifacts = runs[k].artifacts /\ run.evidence = runs[k].evidence
      /\ run.operation = runs[k].operation /\ run.status = runs[k].status /\ run.terminal = end
      /\ run.state = "terminal"
  BY <1>2, <1>5, <1>6 DEF Runs
<1>8. runs'[k] = run /\ \A j \in RunKeys \ {k} : runs'[j] = runs[j]
  BY <1>1, <1>4, <1>6, <1>7, PutTypes DEF ReconcileTerminal, TypeOK
<1>9. IsPlaced(k)'
  BY <1>1, <1>2, <1>3, <1>7, <1>8, PlacedIsKept, NoneAssumption
<1>10. IsHandedOff(k)'
  BY <1>1, <1>2, <1>3, <1>7, <1>8, HandedOffIsKept
<1>11. IsEnded(k)'
  BY <1>2, <1>5, <1>7, <1>8 DEF IsEnded, MaySucceed
<1>12. QED
  BY <1>8, <1>9, <1>10, <1>11 DEF RunIsSound

(* ---- The invariant and what follows from it. ---- *)

LEMMA RunsStart ==
  ASSUME Init
  PROVE  RunsInv
<1>1. TypeOK
  BY DEF Init, IsolationInit, TypeOK
<1>2. /\ \A w \in Worktrees : worktrees[w] = None
      /\ \A key \in Keys : artifacts[key] = None
      /\ dependencies = {}
      /\ \A id \in CleanupIds : operations[id] = None
      /\ \A k \in RunKeys : runs[k] = None
  BY DEF Init, IsolationInit
<1>3. RegistryInv
  BY <1>1, <1>2, RegistryParts
<1>4. QED
  BY <1>2, <1>3 DEF RunsInv

ChangesSoundly(k) == RunIsSound(k)' /\ \A j \in RunKeys \ {k} : runs'[j] = runs[j]

LEMMA RunsStep ==
  ASSUME RunsInv, [Next]_vars
  PROVE  RunsInv'
<1>1. CASE Next
  <2>0. RegistryInv /\ \A k \in RunKeys : RunIsSound(k)
    BY DEF RunsInv, RunIsSound
  <2>1. RegistryInv' /\ WrittenOnce
    BY <1>1, RegistryStep
  <2>2. TypeOK'
    BY <2>1 DEF RegistryInv
  <2>3. \A k \in RunKeys : runs'[k] = runs[k] => RunIsSound(k)'
    BY <2>0, <2>1, <2>2, RunRests
  <2>4. (\E k \in RunKeys : ChangesSoundly(k)) \/ UNCHANGED runs
    <3>1. ASSUME NEW d \in Declarations, NEW t \in Tasks, NEW c \in Contexts, NEW s \in Sessions,
                 NEW l \in Leases \cup {None}, Intake(d, t, c, s, l)
          PROVE  \E k \in RunKeys : ChangesSoundly(k)
      <4>1. RunKey(c) \in RunKeys
        BY ContextsAre
      <4>2. RunIsSound(RunKey(c))'
        BY <2>0, <2>1, <3>1, NewRunIsSound
      <4>3. \A j \in RunKeys \ {RunKey(c)} : runs'[j] = runs[j]
        BY <2>0, <3>1 DEF Intake, RegistryInv, TypeOK
      <4>4. QED
        BY <4>1, <4>2, <4>3 DEF ChangesSoundly
    <3>2. ASSUME NEW k \in RunKeys, NEW id \in StartIds, Begin(k, id)
          PROVE  ChangesSoundly(k)
      BY <2>0, <2>1, <2>2, <3>2, BegunRunIsSound DEF ChangesSoundly
    <3>3. ASSUME NEW k \in RunKeys, NEW a \in ArtifactIds, NEW content \in Contents, PublishArtifact(k, a, content)
          PROVE  ChangesSoundly(k)
      BY <2>0, <2>1, <2>2, <3>3, PublishingRunIsSound DEF ChangesSoundly
    <3>4. ASSUME NEW k \in RunKeys, NEW a \in Artifacts, NEW e \in Evidence, NEW id \in Operations,
                 HandoffEvidence(k, a, e, id)
          PROVE  ChangesSoundly(k)
      BY <2>0, <2>1, <2>2, <3>4, HandingRunIsSound DEF ChangesSoundly
    <3>5. ASSUME NEW k \in RunKeys, ObserveEvidence(k)
          PROVE  ChangesSoundly(k)
      BY <2>0, <2>1, <2>2, <3>5, ObservingRunIsSound DEF ChangesSoundly
    <3>6. ASSUME NEW k \in RunKeys, NEW status \in Reported, NEW e \in Evidence \cup {None}, NEW id \in TerminalIds,
                 ReconcileTerminal(k, status, e, id)
          PROVE  ChangesSoundly(k)
      BY <2>0, <2>1, <2>2, <3>6, EndingRunIsSound DEF ChangesSoundly
    <3>7. ASSUME NEW d \in Declarations, Register(d) PROVE UNCHANGED runs
      BY <3>7 DEF Register
    <3>8. ASSUME NEW id \in Operations, Resolve(id) PROVE UNCHANGED runs
      BY <3>8 DEF Resolve
    <3>9. ASSUME UNCHANGED <<registered, runs, remembered, port>> PROVE UNCHANGED runs
      BY <3>9
    <3>10. QED
      BY <1>1, <3>1, <3>2, <3>3, <3>4, <3>5, <3>6, <3>7, <3>8, <3>9 DEF Next, Artifacts
  <2>5. \A k \in RunKeys : RunIsSound(k)'
    BY <2>3, <2>4 DEF ChangesSoundly
  <2>6. QED
    BY <2>1, <2>5 DEF RunsInv, RunIsSound
<1>2. CASE UNCHANGED vars
  BY <1>2 DEF vars, isolationVars, RunsInv, RegistryInv, TypeOK, PlacedOK, GrantedOK, CleanedOK,
              RegistryKeepsItsWord, IsPlaced, IsHandedOff, IsEnded, MaySucceed
<1>3. QED
  BY <1>1, <1>2

LEMMA RunsAlways == Spec => []RunsInv
BY RunsStart, RunsStep, PTL DEF Spec

LEMMA RunsInvMatches ==
  ASSUME RunsInv
  PROVE  RunsMatchTheirProjects
<1>1. TypeOK /\ RegistryKeepsItsWord
  BY DEF RunsInv, RegistryInv
<1>2. \A k \in RunKeys : runs[k] # None => IsPlaced(k)
  BY DEF RunsInv
<1>3. ASSUME NEW k \in RunKeys, runs[k] # None, NEW j \in RunKeys \ {k}, runs[j] # None, j.worktree = k.worktree
      PROVE  FALSE
  <2>1. runs[k].context = runs[j].context
    BY <1>2, <1>3 DEF IsPlaced
  <2>2. QED
    BY <1>2, <1>3, <2>1 DEF IsPlaced
<1>4. RunsMatchTheRegistry
  BY <1>2, <1>3 DEF RunsMatchTheRegistry, IsPlaced
<1>5. QED
  BY <1>1, <1>4 DEF RunsMatchTheirProjects

(* The types of project_integration.py and project_isolation.py; what the  *)
(* registry answered stays so (RegistryKeepsItsWord); and a run works in a *)
(* worktree that is kept for its claim and no other run's, with the        *)
(* artifacts that it published (RunsMatchTheRegistry).                     *)
THEOREM RunsKeepTheirProjects == Spec => []RunsMatchTheirProjects
BY RunsAlways, RunsInvMatches, PTL

(* A run succeeds only on evidence that the authority accepted, in answer  *)
(* to this run's own request, about an artifact that the run published     *)
(* (reconcile_terminal).                                                   *)
THEOREM SuccessNeedsAcceptance == Spec => []SuccessIsEvidenced
<1>1. RunsInv => SuccessIsEvidenced
  <2>1. SUFFICES ASSUME RunsInv, NEW k \in RunKeys, runs[k] # None, runs[k].terminal # None,
                        runs[k].terminal.status = "succeeded"
                 PROVE  /\ runs[k].evidence # None /\ runs[k].evidence.artifact \in runs[k].artifacts
                        /\ port[runs[k].operation] = [request |-> runs[k].evidence, status |-> "accepted"]
                        /\ runs[k].terminal.evidence = runs[k].evidence.evidence
    BY DEF SuccessIsEvidenced
  <2>2. TypeOK /\ IsHandedOff(k) /\ IsEnded(k)
    BY <2>1 DEF RunsInv, RegistryInv
  <2>3. /\ runs[k].evidence # None /\ runs[k].status = "accepted"
        /\ runs[k].terminal.evidence = runs[k].evidence.evidence
    BY <2>1, <2>2 DEF IsEnded, MaySucceed
  <2>4. PICK o : o = runs[k].operation
    OBVIOUS
  <2>5. /\ runs[k].evidence.artifact \in runs[k].artifacts
        /\ o # None /\ port[o] # None /\ port[o].request = runs[k].evidence /\ port[o].status = "accepted"
    BY <2>2, <2>3, <2>4 DEF IsHandedOff
  <2>6. o \in Operations
    BY <2>1, <2>2, <2>4, <2>5 DEF TypeOK, Runs
  <2>7. port[o] \in Requests
    BY <2>2, <2>5, <2>6 DEF TypeOK
  <2>8. port[o] = [request |-> runs[k].evidence, status |-> "accepted"]
    BY <2>5, <2>7 DEF Requests
  <2>9. QED
    BY <2>3, <2>4, <2>5, <2>8
<1>2. QED
  BY <1>1, RunsAlways, PTL

(* What a run ended with stays.                                            *)
EndIsKept(k) ==
  runs[k] # None /\ runs[k].terminal # None =>
     runs'[k].terminal = runs[k].terminal /\ runs'[k].evidence = runs[k].evidence

LEMMA EndsAreKept ==
  ASSUME RunsInv, [Next]_vars
  PROVE  \A k \in RunKeys : EndIsKept(k)
<1> SUFFICES ASSUME NEW k \in RunKeys, runs[k] # None, runs[k].terminal # None
             PROVE  runs'[k].terminal = runs[k].terminal /\ runs'[k].evidence = runs[k].evidence
  BY DEF EndIsKept
<1>1. TypeOK /\ IsHandedOff(k) /\ IsEnded(k)
  BY DEF RunsInv, RegistryInv
<1>2. runs[k] \in Runs /\ runs \in [RunKeys -> Runs \cup {None}]
  BY <1>1 DEF TypeOK
<1>3. ASSUME NEW j \in RunKeys, NEW run, j # k, Put(j, run) PROVE runs'[k] = runs[k]
  BY <1>2, <1>3 DEF Put
<1>4. ASSUME NEW j \in RunKeys, NEW id \in StartIds, Begin(j, id)
      PROVE  runs'[k].terminal = runs[k].terminal /\ runs'[k].evidence = runs[k].evidence
  BY <1>1, <1>3, <1>4 DEF Begin, IsRun, IsEnded
<1>5. ASSUME NEW j \in RunKeys, NEW a \in ArtifactIds, NEW content \in Contents, PublishArtifact(j, a, content)
      PROVE  runs'[k].terminal = runs[k].terminal /\ runs'[k].evidence = runs[k].evidence
  <2>1. PICK run : run = [runs[j] EXCEPT !.artifacts = runs[j].artifacts \cup {[id |-> a, content |-> content]}]
    OBVIOUS
  <2>2. Put(j, run)
    BY <1>5, <2>1 DEF PublishArtifact
  <2>3. j = k => run.terminal = runs[k].terminal /\ run.evidence = runs[k].evidence
    BY <1>2, <2>1 DEF Runs
  <2>4. QED
    BY <1>2, <1>3, <2>2, <2>3 DEF Put
<1>6. ASSUME NEW j \in RunKeys, NEW a \in Artifacts, NEW e \in Evidence, NEW id \in Operations,
             HandoffEvidence(j, a, e, id)
      PROVE  runs'[k].terminal = runs[k].terminal /\ runs'[k].evidence = runs[k].evidence
  <2>1. j # k
    BY <1>1, <1>6 DEF HandoffEvidence, IsRun, Working, IsEnded
  <2>2. (\E run : Put(j, run)) \/ UNCHANGED runs
    BY <1>6 DEF HandoffEvidence
  <2>3. QED
    BY <1>3, <2>1, <2>2
<1>7. ASSUME NEW j \in RunKeys, ObserveEvidence(j)
      PROVE  runs'[k].terminal = runs[k].terminal /\ runs'[k].evidence = runs[k].evidence
  <2>1. PICK run : run = [runs[j] EXCEPT !.status = "accepted", !.state = "executing"]
    OBVIOUS
  <2>2. Put(j, run)
    BY <1>7, <2>1 DEF ObserveEvidence
  <2>3. j = k => run.terminal = runs[k].terminal /\ run.evidence = runs[k].evidence
    BY <1>2, <2>1 DEF Runs
  <2>4. QED
    BY <1>2, <1>3, <2>2, <2>3 DEF Put
<1>8. ASSUME NEW j \in RunKeys, NEW status \in Reported, NEW e \in Evidence \cup {None}, NEW id \in TerminalIds,
             ReconcileTerminal(j, status, e, id)
      PROVE  runs'[k].terminal = runs[k].terminal /\ runs'[k].evidence = runs[k].evidence
  BY <1>3, <1>8 DEF ReconcileTerminal, IsOpen
<1>9. ASSUME NEW d \in Declarations, NEW t \in Tasks, NEW c \in Contexts, NEW s \in Sessions,
             NEW l \in Leases \cup {None}, Intake(d, t, c, s, l)
      PROVE  runs'[k] = runs[k]
  BY <1>2, <1>9, ContextsAre DEF Intake
<1>10. ASSUME (\E d \in Declarations : Register(d)) \/ (\E id \in Operations : Resolve(id))
              \/ UNCHANGED <<registered, runs, remembered, port>> \/ UNCHANGED vars
       PROVE  runs' = runs
  BY <1>10 DEF Register, Resolve, vars
<1>11. QED
  BY <1>4, <1>5, <1>6, <1>7, <1>8, <1>9, <1>10 DEF Next, Artifacts

(* What a run ended with stays, though an acceptance that is observed late *)
(* makes the run go on, and reports under other operation ids keep coming  *)
(* (reconcile_terminal, observe_evidence).                                 *)
THEOREM WhatEndedStays == Spec => TerminalIsImmutable
<1>1. RunsInv /\ [Next]_vars => [\A k \in RunKeys : runs[k] # None /\ runs[k].terminal # None =>
          runs'[k].terminal = runs[k].terminal /\ runs'[k].evidence = runs[k].evidence]_vars
  BY EndsAreKept DEF EndIsKept
<1>2. QED
  BY <1>1, RunsAlways, PTL DEF Spec, TerminalIsImmutable

---------------------------------------------------------------------------
(* The journal of a run. *)

(* The artifacts of the journal are those of its events.                   *)
TotalsOK ==
  journal # None => journal.artifacts = UNION {journal.events[i].artifacts : i \in DOMAIN journal.events}

JournalInv == Run!TypeOK /\ Run!MutationsAreFenced /\ Run!CheckpointIsCurrent /\ TotalsOK

(* What every command that was accepted did: it added one event, by the    *)
(* holder of the lease in force.                                           *)
Writes(e) ==
  /\ journal \in Run!Journals /\ journal' \in Run!Journals /\ e \in Run!Events
  /\ Len(journal.events) < EventBudget /\ journal'.consumed <= AccountingBudget
  /\ journal'.events = Append(journal.events, e)
  /\ journal'.artifacts = journal.artifacts \cup e.artifacts
  /\ e.before = journal.state /\ e.after = journal'.state
  /\ e.by = e.lease /\ e.lease = journal.lease
  /\ e.action = "observe" => e.seen.lease = e.lease
  /\ IF e.action = "recover" THEN journal'.lease.fence > e.lease.fence ELSE journal'.lease = e.lease
  /\ IF e.action = "observe"
     THEN /\ e.after = e.seen.state
          /\ e.after = "interrupted" => journal'.checkpoint = e.seen.checkpoint
          /\ e.after = "running" => journal'.checkpoint = None
          /\ e.after \notin {"interrupted", "running"} => journal'.checkpoint = journal.checkpoint
     ELSE journal'.checkpoint = journal.checkpoint
  /\ journal'.state \in {"interrupted", "resume_requested"} => journal'.checkpoint # None

(* What appending does to a sequence.                                      *)
LEMMA AppendIs ==
  ASSUME NEW S, NEW s \in Seq(S), NEW e \in S
  PROVE  /\ Append(s, e) \in Seq(S) /\ Len(Append(s, e)) = Len(s) + 1
         /\ Append(s, e)[Len(s) + 1] = e
         /\ \A i \in 1..Len(s) : Append(s, e)[i] = s[i]
         /\ DOMAIN Append(s, e) = 1..(Len(s) + 1) /\ DOMAIN s = 1..Len(s) /\ Len(s) \in Nat
OBVIOUS

LEMMA StatesAre ==
  Run!States = {"starting", "running", "interrupt_requested", "interrupted", "resume_requested",
                "cancel_requested", "unknown", "blocked", "failed", "awaiting_decision", "accepted", "cancelled"}
BY DEF Run!States, Run!Observable

LEMMA ObservableAre ==
  ASSUME NEW s \in Run!States
  PROVE  \A t \in Run!Observable[s] : t \in Run!States /\ t # "resume_requested"
BY StatesAre DEF Run!Observable

LEMMA RequestsAre ==
  /\ DOMAIN Run!Requests = {"interrupt", "resume", "cancel"}
  /\ \A command \in DOMAIN Run!Requests :
        /\ Run!Requests[command].to \in {"interrupt_requested", "resume_requested", "cancel_requested"}
        /\ Run!Requests[command].to = "resume_requested" => Run!Requests[command].from = {"interrupted"}
<1>1. DOMAIN Run!Requests = {"interrupt", "resume", "cancel"}
  BY DEF Run!Requests
<1>2. ASSUME NEW command \in {"interrupt", "resume", "cancel"}
      PROVE  /\ Run!Requests[command].to \in {"interrupt_requested", "resume_requested", "cancel_requested"}
             /\ Run!Requests[command].to = "resume_requested" => Run!Requests[command].from = {"interrupted"}
  BY DEF Run!Requests
<1>3. QED
  BY <1>1, <1>2

(* The journal with one more event, before the checkpoint or the lease.    *)
LEMMA CommittedIs ==
  ASSUME journal \in Run!Journals, NEW op \in CommandIds, NEW action \in {"observe", "recover"} \cup DOMAIN Run!Requests,
         NEW after \in Run!States, NEW by \in RunLeases, NEW seen \in RunObservations \cup {None}, NEW delta \in Deltas,
         NEW artifacts_ \in SUBSET Run!References, NEW e,
         e = Run!Event(op, action, journal.state, after, journal.lease, by, seen, delta, artifacts_)
  PROVE  LET j == Run!Committed(op, action, after, by, seen, delta, artifacts_) IN
         /\ j \in Run!Journals /\ e \in Run!Events
         /\ j.state = after /\ j.events = Append(journal.events, e) /\ j.consumed = journal.consumed + delta
         /\ j.artifacts = journal.artifacts \cup artifacts_
         /\ j.lease = journal.lease /\ j.checkpoint = journal.checkpoint
<1>0. /\ journal.state \in Run!States /\ journal.lease \in RunLeases
      /\ journal.events \in Seq(Run!Events) /\ journal.consumed \in Nat /\ delta \in Nat
  BY RunAssumption DEF Run!Journals
<1>1. e \in Run!Events
  BY <1>0 DEF Run!Events, Run!Event
<1>2. PICK evs : evs = Append(journal.events, e)
  OBVIOUS
<1>3. evs \in Seq(Run!Events)
  BY <1>0, <1>1, <1>2, AppendIs
<1>4. PICK total \in Nat : total = journal.consumed + delta
  BY <1>0
<1>5. PICK all \in SUBSET Run!References : all = journal.artifacts \cup artifacts_
  BY DEF Run!Journals
<1>6. PICK j : j = [journal EXCEPT !.state = after, !.consumed = total, !.artifacts = all, !.events = evs]
  OBVIOUS
<1>7. Run!Committed(op, action, after, by, seen, delta, artifacts_) = j
  BY <1>2, <1>4, <1>5, <1>6 DEF Run!Committed
<1>8. /\ j \in Run!Journals /\ j.state = after /\ j.events = evs /\ j.consumed = total /\ j.artifacts = all
      /\ j.lease = journal.lease /\ j.checkpoint = journal.checkpoint
  BY <1>3, <1>6 DEF Run!Journals
<1>9. QED
  BY <1>1, <1>2, <1>4, <1>5, <1>7, <1>8

(* A request goes on from the state that it is for.                        *)
LEMMA RequestWrites ==
  ASSUME JournalInv, journal # None, NEW op \in CommandIds, NEW by \in RunLeases, NEW delta \in Deltas,
         NEW new \in SUBSET Run!References, NEW command \in DOMAIN Run!Requests, NEW c \in Checkpoints \cup {None},
         Run!Holds(by), Run!Request(command, op, by, c, delta, new)
  PROVE  \E e : Writes(e)
<1>1. PICK after \in Run!States : after = Run!Requests[command].to
  BY RequestsAre, StatesAre
<1>2. /\ command \in {"interrupt", "resume", "cancel"}
      /\ after \in {"interrupt_requested", "resume_requested", "cancel_requested"}
      /\ after = "resume_requested" => journal.state = "interrupted"
  BY <1>1, RequestsAre, StatesAre DEF Run!Request
<1>0. PICK seen \in RunObservations \cup {None}, action \in {"observe", "recover"} \cup DOMAIN Run!Requests :
         seen = None /\ action = command
  OBVIOUS
<1>3. PICK e : e = Run!Event(op, action, journal.state, after, journal.lease, by, seen, delta, new)
  OBVIOUS
<1>4. PICK j : j = Run!Committed(op, action, after, by, seen, delta, new)
  OBVIOUS
<1>5. journal \in Run!Journals
  BY DEF JournalInv, Run!TypeOK
<1>6. /\ j \in Run!Journals /\ e \in Run!Events
      /\ j.state = after /\ j.events = Append(journal.events, e) /\ j.consumed = journal.consumed + delta
      /\ j.artifacts = journal.artifacts \cup new
      /\ j.lease = journal.lease /\ j.checkpoint = journal.checkpoint
  BY <1>3, <1>4, <1>5, CommittedIs
<1>7. /\ journal' = j /\ Len(journal.events) < EventBudget /\ journal.consumed + delta <= AccountingBudget
  BY <1>0, <1>1, <1>4 DEF Run!Request, Run!MayCommit
<1>8. /\ e.action = command /\ e.before = journal.state /\ e.after = after /\ e.lease = journal.lease
      /\ e.by = by /\ e.artifacts = new
  BY <1>0, <1>3 DEF Run!Event
<1>9. by = journal.lease
  BY DEF Run!Holds
<1>10. after = "resume_requested" => journal.checkpoint # None
  BY <1>2 DEF JournalInv, Run!CheckpointIsCurrent
<1>11. Writes(e)
  BY <1>2, <1>5, <1>6, <1>7, <1>8, <1>9, <1>10 DEF Writes
<1>12. QED
  BY <1>11

LEMMA ObserveWrites ==
  ASSUME JournalInv, journal # None, NEW op \in CommandIds, NEW by \in RunLeases, NEW delta \in Deltas,
         NEW new \in SUBSET Run!References, NEW seen \in RunObservations,
         Run!Holds(by), Run!Observe(op, by, seen, delta, new)
  PROVE  \E e : Writes(e)
<1>1. PICK after : after = seen.state
  OBVIOUS
<1>2. journal \in Run!Journals
  BY DEF JournalInv, Run!TypeOK
<1>3. journal.state \in Run!States
  BY <1>2 DEF Run!Journals
<1>4. after \in Run!States /\ after # "resume_requested"
  BY <1>1, <1>3, ObservableAre DEF Run!Observe
<1>5. PICK e : e = Run!Event(op, "observe", journal.state, after, journal.lease, by, seen, delta, new)
  OBVIOUS
<1>6. PICK j : j = Run!Committed(op, "observe", after, by, seen, delta, new)
  OBVIOUS
<1>7. /\ j \in Run!Journals /\ e \in Run!Events
      /\ j.state = after /\ j.events = Append(journal.events, e) /\ j.consumed = journal.consumed + delta
      /\ j.artifacts = journal.artifacts \cup new
      /\ j.lease = journal.lease /\ j.checkpoint = journal.checkpoint
  BY <1>2, <1>4, <1>5, <1>6, CommittedIs
<1>8. PICK checkpoint : checkpoint = Run!CheckpointAfter(seen)
  OBVIOUS
<1>9. checkpoint \in Checkpoints \cup {None}
  BY <1>2, <1>8, RunAssumption DEF Run!CheckpointAfter, Run!Journals
<1>10. /\ journal' = [j EXCEPT !.checkpoint = checkpoint]
       /\ Len(journal.events) < EventBudget /\ journal.consumed + delta <= AccountingBudget
       /\ Run!IsVerified(seen) /\ seen.lease = journal.lease
  BY <1>1, <1>6, <1>8 DEF Run!Observe, Run!MayCommit
<1>11. /\ journal' \in Run!Journals /\ journal'.checkpoint = checkpoint
       /\ journal'.state = after /\ journal'.events = j.events /\ journal'.consumed = j.consumed
       /\ journal'.artifacts = j.artifacts /\ journal'.lease = j.lease
  BY <1>7, <1>9, <1>10 DEF Run!Journals
<1>12. /\ e.action = "observe" /\ e.before = journal.state /\ e.after = after /\ e.lease = journal.lease
       /\ e.by = by /\ e.artifacts = new /\ e.seen = seen
  BY <1>5 DEF Run!Event
<1>13. by = journal.lease
  BY DEF Run!Holds
<1>14. /\ after = "interrupted" => checkpoint = seen.checkpoint /\ checkpoint # None
       /\ after = "running" => checkpoint = None
       /\ after \notin {"interrupted", "running"} => checkpoint = journal.checkpoint
  BY <1>1, <1>8, <1>10 DEF Run!CheckpointAfter, Run!IsVerified
<1>15. Writes(e)
  BY <1>1, <1>2, <1>4, <1>7, <1>10, <1>11, <1>12, <1>13, <1>14 DEF Writes
<1>16. QED
  BY <1>15

LEMMA RecoverWrites ==
  ASSUME JournalInv, journal # None, NEW op \in CommandIds, NEW by \in RunLeases, NEW delta \in Deltas,
         NEW new \in SUBSET Run!References, NEW c \in Checkpoints, NEW l \in RunLeases,
         Run!Holds(by), Run!Recover(op, by, c, l, delta, new)
  PROVE  \E e : Writes(e)
<1>1. journal \in Run!Journals /\ "running" \in Run!States
  BY StatesAre DEF JournalInv, Run!TypeOK
<1>0. PICK seen \in RunObservations \cup {None}, action \in {"observe", "recover"} \cup DOMAIN Run!Requests,
           after \in Run!States : seen = None /\ action = "recover" /\ after = "running"
  BY <1>1
<1>2. PICK e : e = Run!Event(op, action, journal.state, after, journal.lease, by, seen, delta, new)
  OBVIOUS
<1>3. PICK j : j = Run!Committed(op, action, after, by, seen, delta, new)
  OBVIOUS
<1>4. /\ j \in Run!Journals /\ e \in Run!Events
      /\ j.state = after /\ j.events = Append(journal.events, e) /\ j.consumed = journal.consumed + delta
      /\ j.artifacts = journal.artifacts \cup new
      /\ j.lease = journal.lease /\ j.checkpoint = journal.checkpoint
  BY <1>1, <1>2, <1>3, CommittedIs
<1>5. /\ journal' = [j EXCEPT !.lease = l] /\ l.fence > journal.lease.fence
      /\ Len(journal.events) < EventBudget /\ journal.consumed + delta <= AccountingBudget
  BY <1>0, <1>3 DEF Run!Recover, Run!MayCommit
<1>6. /\ journal' \in Run!Journals /\ journal'.lease = l
      /\ journal'.state = "running" /\ journal'.events = j.events /\ journal'.consumed = j.consumed
      /\ journal'.artifacts = j.artifacts /\ journal'.checkpoint = j.checkpoint
  BY <1>0, <1>4, <1>5 DEF Run!Journals
<1>7. /\ e.action = "recover" /\ e.before = journal.state /\ e.after = "running" /\ e.lease = journal.lease
      /\ e.by = by /\ e.artifacts = new
  BY <1>0, <1>2 DEF Run!Event
<1>8. by = journal.lease
  BY DEF Run!Holds
<1>9. Writes(e)
  BY <1>1, <1>4, <1>5, <1>6, <1>7, <1>8 DEF Writes
<1>10. QED
  BY <1>9

(* An event that is added keeps the history in order.                      *)
LEMMA WriteKeepsTypes ==
  ASSUME Run!TypeOK, UNCHANGED time, NEW e, Writes(e)
  PROVE  /\ Run!TypeOK'
         /\ Len(journal'.events) = Len(journal.events) + 1 /\ Len(journal.events) \in Nat
         /\ DOMAIN journal'.events = 1..(Len(journal.events) + 1) /\ DOMAIN journal.events = 1..Len(journal.events)
         /\ journal'.events[Len(journal.events) + 1] = e
         /\ \A i \in 1..Len(journal.events) : journal'.events[i] = journal.events[i]
<1>1. journal.events \in Seq(Run!Events) /\ e \in Run!Events /\ journal'.events = Append(journal.events, e)
  BY DEF Writes, Run!Journals
<1>2. /\ Len(journal'.events) = Len(journal.events) + 1 /\ Len(journal.events) \in Nat
      /\ DOMAIN journal'.events = 1..(Len(journal.events) + 1) /\ DOMAIN journal.events = 1..Len(journal.events)
      /\ journal'.events[Len(journal.events) + 1] = e
      /\ \A i \in 1..Len(journal.events) : journal'.events[i] = journal.events[i]
  BY <1>1, AppendIs
<1>3. /\ journal' \in Run!Journals /\ journal'.consumed <= AccountingBudget /\ Len(journal.events) < EventBudget
  BY DEF Writes
<1>4. Len(journal'.events) \in 1..EventBudget
  BY <1>2, <1>3, RunAssumption
<1>5. Run!TypeOK'
  BY <1>3, <1>4 DEF Run!TypeOK
<1>6. QED
  BY <1>2, <1>5

(* An event is in its place in a history, given the lease and the state    *)
(* after it.                                                               *)
IsInPlace(event, lease_, state_) ==
  /\ event.by = event.lease /\ event.after = state_
  /\ event.action = "observe" => event.seen.lease = event.lease
  /\ IF event.action = "recover" THEN lease_.fence > event.lease.fence ELSE lease_ = event.lease

LEMMA FencedIs ==
  ASSUME journal # None
  PROVE  Run!MutationsAreFenced <=>
           \A i \in DOMAIN journal.events :
              /\ i = Len(journal.events) => IsInPlace(journal.events[i], journal.lease, journal.state)
              /\ i # Len(journal.events) =>
                    IsInPlace(journal.events[i], journal.events[i + 1].lease, journal.events[i + 1].before)
BY DEF Run!MutationsAreFenced, IsInPlace

LEMMA FencedIsNext ==
  ASSUME journal' # None
  PROVE  Run!MutationsAreFenced' <=>
           \A i \in DOMAIN journal'.events :
              /\ i = Len(journal'.events) => IsInPlace(journal'.events[i], journal'.lease, journal'.state)
              /\ i # Len(journal'.events) =>
                    IsInPlace(journal'.events[i], journal'.events[i + 1].lease, journal'.events[i + 1].before)
BY DEF Run!MutationsAreFenced, IsInPlace

LEMMA WriteKeepsFenced ==
  ASSUME Run!TypeOK, Run!MutationsAreFenced, UNCHANGED time, journal # None, NEW e, Writes(e)
  PROVE  Run!MutationsAreFenced'
<1>1. PICK n \in Nat : n = Len(journal.events)
  BY WriteKeepsTypes
<1>2. /\ Len(journal'.events) = n + 1 /\ DOMAIN journal'.events = 1..(n + 1) /\ DOMAIN journal.events = 1..n
      /\ journal'.events[n + 1] = e
      /\ \A i \in 1..n : journal'.events[i] = journal.events[i]
  BY <1>1, WriteKeepsTypes
<1>3. journal' # None
  BY RunAssumption DEF Writes
<1>4. IsInPlace(e, journal'.lease, journal'.state)
  BY DEF Writes, IsInPlace
<1>5. ASSUME NEW i \in 1..n PROVE IsInPlace(journal'.events[i], journal'.events[i + 1].lease, journal'.events[i + 1].before)
  <2>1. CASE i = n
    <3>1. IsInPlace(journal.events[n], journal.lease, journal.state)
      BY <1>1, <1>2, <1>5, <2>1, FencedIs
    <3>2. e.lease = journal.lease /\ e.before = journal.state
      BY DEF Writes
    <3>3. QED
      BY <1>2, <1>5, <2>1, <3>1, <3>2
  <2>2. CASE i # n
    <3>1. IsInPlace(journal.events[i], journal.events[i + 1].lease, journal.events[i + 1].before)
      BY <1>1, <1>2, <1>5, <2>2, FencedIs
    <3>2. i + 1 \in 1..n
      BY <1>5, <2>2
    <3>3. journal'.events[i] = journal.events[i] /\ journal'.events[i + 1] = journal.events[i + 1]
      BY <1>2, <1>5, <3>2
    <3>4. QED
      BY <3>1, <3>3
  <2>3. QED
    BY <2>1, <2>2
<1>6. QED
  BY <1>2, <1>3, <1>4, <1>5, FencedIsNext

IsSeenAs(event, state) == event.action = "observe" /\ event.after = state

(* The checkpoint is what was saved when the worker was seen interrupted   *)
(* the last time.                                                          *)
IsSavedAt(evs, n, c, i) ==
  /\ IsSeenAs(evs[i], "interrupted") /\ evs[i].seen.checkpoint = c
  /\ \A j \in (i + 1)..n : ~ IsSeenAs(evs[j], "running") /\ ~ IsSeenAs(evs[j], "interrupted")

LEMMA CurrentIs ==
  ASSUME journal # None
  PROVE  Run!CheckpointIsCurrent <=>
           /\ journal.checkpoint # None =>
                 \E i \in DOMAIN journal.events :
                    IsSavedAt(journal.events, Len(journal.events), journal.checkpoint, i)
           /\ journal.state \in {"interrupted", "resume_requested"} => journal.checkpoint # None
BY DEF Run!CheckpointIsCurrent, IsSavedAt, IsSeenAs

LEMMA CurrentIsNext ==
  ASSUME journal' # None
  PROVE  Run!CheckpointIsCurrent' <=>
           /\ journal'.checkpoint # None =>
                 \E i \in DOMAIN journal'.events :
                    IsSavedAt(journal'.events, Len(journal'.events), journal'.checkpoint, i)
           /\ journal'.state \in {"interrupted", "resume_requested"} => journal'.checkpoint # None
BY DEF Run!CheckpointIsCurrent, IsSavedAt, IsSeenAs

LEMMA WriteKeepsCurrent ==
  ASSUME Run!TypeOK, Run!CheckpointIsCurrent, UNCHANGED time, journal # None, NEW e, Writes(e)
  PROVE  Run!CheckpointIsCurrent'
<1>1. PICK n \in Nat : n = Len(journal.events)
  BY WriteKeepsTypes
<1>2. /\ Len(journal'.events) = n + 1 /\ DOMAIN journal'.events = 1..(n + 1) /\ DOMAIN journal.events = 1..n
      /\ journal'.events[n + 1] = e
      /\ \A i \in 1..n : journal'.events[i] = journal.events[i]
  BY <1>1, WriteKeepsTypes
<1>3. journal' # None
  BY RunAssumption DEF Writes
<1>4. journal'.state \in {"interrupted", "resume_requested"} => journal'.checkpoint # None
  BY DEF Writes
<1>5. ASSUME journal'.checkpoint # None
      PROVE  \E i \in 1..(n + 1) : IsSavedAt(journal'.events, n + 1, journal'.checkpoint, i)
  <2>1. CASE IsSeenAs(e, "interrupted")
    <3>1. e.seen.checkpoint = journal'.checkpoint
      BY <2>1 DEF Writes, IsSeenAs
    <3>2. IsSavedAt(journal'.events, n + 1, journal'.checkpoint, n + 1)
      BY <1>2, <2>1, <3>1 DEF IsSavedAt
    <3>3. QED
      BY <3>2
  <2>2. CASE ~ IsSeenAs(e, "interrupted")
    <3>1. ~ IsSeenAs(e, "running") /\ journal'.checkpoint = journal.checkpoint
      BY <1>5, <2>2 DEF Writes, IsSeenAs
    <3>2. PICK i \in 1..n : IsSavedAt(journal.events, n, journal.checkpoint, i)
      BY <1>1, <1>2, <1>5, <3>1, CurrentIs
    <3>3. \A j \in (i + 1)..(n + 1) : ~ IsSeenAs(journal'.events[j], "running") /\ ~ IsSeenAs(journal'.events[j], "interrupted")
      <4>1. SUFFICES ASSUME NEW j \in (i + 1)..(n + 1)
                     PROVE  ~ IsSeenAs(journal'.events[j], "running") /\ ~ IsSeenAs(journal'.events[j], "interrupted")
        OBVIOUS
      <4>2. CASE j = n + 1
        BY <1>2, <2>2, <3>1, <4>2
      <4>3. CASE j # n + 1
        <5>1. j \in (i + 1)..n /\ j \in 1..n
          BY <4>3
        <5>2. QED
          BY <1>2, <3>2, <5>1 DEF IsSavedAt
      <4>4. QED
        BY <4>2, <4>3
    <3>4. IsSavedAt(journal'.events, n + 1, journal'.checkpoint, i)
      BY <1>2, <3>1, <3>2, <3>3 DEF IsSavedAt
    <3>5. QED
      BY <3>4
  <2>3. QED
    BY <2>1, <2>2
<1>6. QED
  BY <1>2, <1>3, <1>4, <1>5, CurrentIsNext

LEMMA WriteKeepsTotals ==
  ASSUME Run!TypeOK, TotalsOK, UNCHANGED time, journal # None, NEW e, Writes(e)
  PROVE  TotalsOK'
<1>1. PICK n \in Nat : n = Len(journal.events)
  BY WriteKeepsTypes
<1>2. /\ DOMAIN journal'.events = 1..(n + 1) /\ DOMAIN journal.events = 1..n
      /\ journal'.events[n + 1] = e
      /\ \A i \in 1..n : journal'.events[i] = journal.events[i]
  BY <1>1, WriteKeepsTypes
<1>3. /\ journal'.artifacts = journal.artifacts \cup e.artifacts
      /\ journal.artifacts = UNION {journal.events[i].artifacts : i \in 1..n}
  BY <1>2 DEF Writes, TotalsOK
<1>4. \A a : a \in journal.artifacts <=> \E i \in 1..n : a \in journal.events[i].artifacts
  BY <1>3
<1>5. \A a : a \in journal'.artifacts <=> \E i \in 1..(n + 1) : a \in journal'.events[i].artifacts
  <2>1. SUFFICES ASSUME NEW a
                 PROVE  a \in journal'.artifacts <=> \E i \in 1..(n + 1) : a \in journal'.events[i].artifacts
    OBVIOUS
  <2>2. ASSUME a \in journal'.artifacts PROVE \E i \in 1..(n + 1) : a \in journal'.events[i].artifacts
    <3>1. CASE a \in e.artifacts
      <4>1. n + 1 \in 1..(n + 1)
        BY <1>1
      <4>2. a \in journal'.events[n + 1].artifacts
        BY <1>2, <3>1
      <4>3. QED
        BY <4>1, <4>2
    <3>2. CASE a \in journal.artifacts
      <4>1. PICK i \in 1..n : a \in journal.events[i].artifacts
        BY <1>4, <3>2
      <4>2. n \in Nat /\ i \in Nat /\ 1 <= i /\ i <= n
        BY <1>1
      <4>3. i \in 1..(n + 1)
        BY <4>2
      <4>4. QED
        BY <1>2, <4>1, <4>3
    <3>3. QED
      BY <1>3, <2>2, <3>1, <3>2
  <2>3. ASSUME NEW i \in 1..(n + 1), a \in journal'.events[i].artifacts PROVE a \in journal'.artifacts
    <3>1. CASE i = n + 1
      BY <1>2, <1>3, <2>3, <3>1
    <3>2. CASE i \in 1..n
      BY <1>2, <1>3, <1>4, <2>3, <3>2
    <3>3. QED
      BY <3>1, <3>2
  <2>4. QED
    BY <2>2, <2>3
<1>6. journal'.artifacts = UNION {journal'.events[i].artifacts : i \in DOMAIN journal'.events}
  BY <1>2, <1>5
<1>7. QED
  BY <1>6 DEF TotalsOK

LEMMA StartIsInPlace ==
  ASSUME Run!TypeOK, NEW op \in CommandIds, Run!Start(op)
  PROVE  JournalInv'
<1>1. PICK first : first = Run!Event(op, "start", "starting", "starting", FirstRunLease, FirstRunLease, None, 0, {})
  OBVIOUS
<1>2. "starting" \in Run!States /\ FirstRunLease \in RunLeases
  BY StatesAre, RunAssumption
<1>3. first \in Run!Events
  BY <1>1, <1>2 DEF Run!Events, Run!Event
<1>4. /\ first.by = first.lease /\ first.lease = FirstRunLease /\ first.after = "starting"
      /\ first.action = "start" /\ first.artifacts = {}
  BY <1>1 DEF Run!Event
<1>5. PICK evs : evs = <<first>>
  OBVIOUS
<1>6. evs \in Seq(Run!Events) /\ Len(evs) = 1 /\ DOMAIN evs = 1..1 /\ evs[1] = first
  BY <1>3, <1>5
<1>7. journal' = [lease |-> FirstRunLease, state |-> "starting", checkpoint |-> None, consumed |-> 0,
                  artifacts |-> {}, events |-> evs]
  BY <1>1, <1>5 DEF Run!Start
<1>8. /\ journal' \in Run!Journals /\ journal'.events = evs /\ journal'.lease = FirstRunLease
      /\ journal'.state = "starting" /\ journal'.checkpoint = None /\ journal'.artifacts = {} /\ journal'.consumed = 0
  BY <1>2, <1>6, <1>7 DEF Run!Journals
<1>9. Run!TypeOK'
  BY <1>6, <1>8, RunAssumption DEF Run!TypeOK, Run!Start
<1>10. journal' # None
  BY <1>8, RunAssumption
<1>11. IsInPlace(first, FirstRunLease, "starting")
  BY <1>4 DEF IsInPlace
<1>12. Run!MutationsAreFenced'
  BY <1>6, <1>8, <1>10, <1>11, FencedIsNext
<1>13. Run!CheckpointIsCurrent'
  BY <1>8, <1>10, CurrentIsNext
<1>14. TotalsOK'
  BY <1>4, <1>6, <1>8 DEF TotalsOK
<1>15. QED
  BY <1>9, <1>12, <1>13, <1>14 DEF JournalInv

LEMMA JournalStarts ==
  ASSUME Run!Init
  PROVE  JournalInv
BY RunAssumption DEF Run!Init, JournalInv, Run!TypeOK, Run!MutationsAreFenced, Run!CheckpointIsCurrent, TotalsOK

LEMMA JournalStep ==
  ASSUME JournalInv, [Run!Next]_(Run!vars)
  PROVE  JournalInv'
<1>1. ASSUME NEW e, Writes(e), UNCHANGED time, journal # None PROVE JournalInv'
  BY <1>1, WriteKeepsTypes, WriteKeepsFenced, WriteKeepsCurrent, WriteKeepsTotals DEF JournalInv
<1>2. ASSUME NEW op \in Run!NewIds, Run!Start(op) PROVE JournalInv'
  BY <1>2, StartIsInPlace DEF Run!NewIds, JournalInv
<1>3. ASSUME NEW op \in Run!NewIds, NEW by \in RunLeases, NEW delta \in Deltas,
             NEW new \in {{}} \cup {{r} : r \in Run!References}, Run!Apply(op, by, delta, new)
      PROVE  JournalInv'
  <2>1. op \in CommandIds /\ new \in SUBSET Run!References
    BY <1>3 DEF Run!NewIds
  <2>2. journal # None /\ Run!Holds(by) /\ UNCHANGED time
    BY <1>3 DEF Run!Apply
  <2>3. ASSUME NEW command \in DOMAIN Run!Requests, NEW c \in Checkpoints \cup {None},
               Run!Request(command, op, by, c, delta, new)
        PROVE  \E e : Writes(e)
    BY <2>1, <2>2, <2>3, RequestWrites
  <2>4. ASSUME NEW seen \in RunObservations, Run!Observe(op, by, seen, delta, new) PROVE \E e : Writes(e)
    BY <2>1, <2>2, <2>4, ObserveWrites
  <2>5. ASSUME NEW c \in Checkpoints, NEW l \in RunLeases, Run!Recover(op, by, c, l, delta, new)
        PROVE  \E e : Writes(e)
    BY <2>1, <2>2, <2>5, RecoverWrites
  <2>6. \E e : Writes(e)
    BY <1>3, <2>3, <2>4, <2>5 DEF Run!Apply
  <2>7. QED
    BY <1>1, <2>2, <2>6
<1>4. ASSUME Run!Tick \/ UNCHANGED Run!vars PROVE JournalInv'
  <2>1. journal' = journal /\ time' \in 0..RunMaxTime
    BY <1>4, RunAssumption DEF Run!Tick, Run!vars, JournalInv, Run!TypeOK
  <2>2. QED
    BY <2>1 DEF JournalInv, Run!TypeOK, Run!MutationsAreFenced, Run!CheckpointIsCurrent, TotalsOK
<1>5. QED
  BY <1>2, <1>3, <1>4 DEF Run!Next

LEMMA JournalExports ==
  ASSUME JournalInv
  PROVE  Run!ExportsAreAccepted
<1>1. SUFFICES ASSUME journal # None, Run!Loads(journal) PROVE Run!ExportIsValid(journal)
  BY DEF Run!ExportsAreAccepted
<1>2. /\ Len(journal.events) \in DOMAIN journal.events
      /\ journal.events[Len(journal.events)].after = journal.state
  <2>1. journal.events \in Seq(Run!Events) /\ Len(journal.events) \in 1..EventBudget
    BY <1>1 DEF JournalInv, Run!TypeOK, Run!Journals
  <2>2. Len(journal.events) \in DOMAIN journal.events
    BY <2>1
  <2>3. QED
    BY <1>1, <2>2, FencedIs DEF JournalInv, IsInPlace
<1>3. QED
  BY <1>1, <1>2 DEF JournalInv, TotalsOK, Run!Loads, Run!ExportIsValid

(* The journal of a run is one fenced history, its checkpoint is what the  *)
(* worker saved when it was last interrupted, and what can be loaded can   *)
(* be exported (run_operations.py).                                        *)
THEOREM JournalsAreFenced ==
  Run!Spec => [](Run!TypeOK /\ Run!MutationsAreFenced /\ Run!CheckpointIsCurrent /\ Run!ExportsAreAccepted)
<1>1. JournalInv => Run!TypeOK /\ Run!MutationsAreFenced /\ Run!CheckpointIsCurrent /\ Run!ExportsAreAccepted
  BY JournalExports DEF JournalInv
<1>2. QED
  BY <1>1, JournalStarts, JournalStep, PTL DEF Run!Spec

---------------------------------------------------------------------------
(* The stream of a session. *)

OutputsIn(evs, t) == {i \in DOMAIN evs : evs[i].kind = "output" /\ evs[i].turn = t}
EndsIn(evs, t)    == {i \in DOMAIN evs : evs[i].kind = "end_turn" /\ evs[i].turn = t}

(* What is told of a turn that was asked for as told.                      *)
TurnOK(evs, turn, t) ==
  /\ Cardinality(OutputsIn(evs, t)) <= QueueLimit
  /\ Cardinality(EndsIn(evs, t)) <= 1
  /\ EndsIn(evs, t) # {} => ~ turn.open
  /\ \A i \in OutputsIn(evs, t) :
        /\ evs[i].at < turn.deadline /\ evs[i].correlation = turn.correlation
        /\ \A e \in EndsIn(evs, t) : i < e

(* The stream goes on in time and from turn to turn.                       *)
OrderOK(evs, time_, last) ==
  /\ \A i \in DOMAIN evs : evs[i].at <= time_ /\ evs[i].turn <= last
  /\ \A i, j \in DOMAIN evs : i < j => evs[i].at <= evs[j].at
  /\ \A i, j \in DOMAIN evs :
        i < j /\ evs[i].kind # "terminal" /\ evs[j].kind # "terminal" => evs[i].turn <= evs[j].turn

TalkInv ==
  /\ Talk!TypeOK
  /\ \A t \in 1..turns : TurnOK(events, asked[t], t)
  /\ OrderOK(events, now, turns)
  /\ pending # None => Cardinality(OutputsIn(events, turns)) <= outstanding

(* The session counts as its module does.                                  *)
LEMMA CountsAre == ASSUME NEW S PROVE Talk!Cardinality(S) = Cardinality(S)
BY DEF Talk!Cardinality, Cardinality

LEMMA StreamIsTold ==
  ASSUME TalkInv
  PROVE  Talk!TypeOK /\ Talk!TurnsAreTold
<1>1. \A t : Talk!Outputs(t) = OutputsIn(events, t) /\ Talk!Ends(t) = EndsIn(events, t)
  BY DEF OutputsIn, EndsIn, Talk!Outputs, Talk!Ends
<1>2. ASSUME NEW t \in 1..turns
      PROVE  /\ Talk!Cardinality(Talk!Outputs(t)) <= QueueLimit
             /\ Talk!Cardinality(Talk!Ends(t)) <= 1
             /\ Talk!Ends(t) # {} => ~ asked[t].open
             /\ \A i \in Talk!Outputs(t) :
                   /\ events[i].at < asked[t].deadline /\ events[i].correlation = asked[t].correlation
                   /\ \A e \in Talk!Ends(t) : i < e
  BY <1>1, CountsAre DEF TalkInv, TurnOK
<1>3. OrderOK(events, now, turns) /\ Talk!TypeOK
  BY DEF TalkInv
<1>4. /\ \A i, j \in DOMAIN events : i < j => events[i].at <= events[j].at
      /\ \A i, j \in DOMAIN events :
            i < j /\ events[i].kind # "terminal" /\ events[j].kind # "terminal" => events[i].turn <= events[j].turn
  BY <1>3 DEF OrderOK
<1>5. QED
  BY <1>2, <1>3, <1>4 DEF Talk!TurnsAreTold

(* An event that is appended is told of its turn, and of no other.         *)
Tells(evs, e, more, t) ==
  /\ more[Len(evs) + 1] = e /\ \A i \in 1..Len(evs) : more[i] = evs[i]
  /\ OutputsIn(more, t) = IF e.kind = "output" /\ e.turn = t THEN OutputsIn(evs, t) \cup {Len(evs) + 1} ELSE OutputsIn(evs, t)
  /\ EndsIn(more, t) = IF e.kind = "end_turn" /\ e.turn = t THEN EndsIn(evs, t) \cup {Len(evs) + 1} ELSE EndsIn(evs, t)

LEMMA TellsOf ==
  ASSUME NEW evs \in Seq(Talk!Told), NEW e \in Talk!Told, NEW more, more = Append(evs, e), NEW t
  PROVE  Tells(evs, e, more, t)
<1>1. /\ more[Len(evs) + 1] = e /\ \A i \in 1..Len(evs) : more[i] = evs[i]
      /\ DOMAIN more = 1..(Len(evs) + 1) /\ DOMAIN evs = 1..Len(evs) /\ Len(evs) \in Nat
  BY AppendIs
<1>2. \A i \in 1..Len(evs) : i \in 1..(Len(evs) + 1) /\ i # Len(evs) + 1
  BY <1>1
<1>3. Len(evs) + 1 \in 1..(Len(evs) + 1) /\ \A i \in 1..(Len(evs) + 1) : i \in 1..Len(evs) \/ i = Len(evs) + 1
  BY <1>1
<1>4. \A i : /\ i \in OutputsIn(more, t) <=> i \in OutputsIn(evs, t) \/ (i = Len(evs) + 1 /\ e.kind = "output" /\ e.turn = t)
             /\ i \in EndsIn(more, t) <=> i \in EndsIn(evs, t) \/ (i = Len(evs) + 1 /\ e.kind = "end_turn" /\ e.turn = t)
  BY <1>1, <1>2, <1>3 DEF OutputsIn, EndsIn
<1>5. OutputsIn(more, t) = IF e.kind = "output" /\ e.turn = t THEN OutputsIn(evs, t) \cup {Len(evs) + 1} ELSE OutputsIn(evs, t)
  BY <1>4
<1>6. EndsIn(more, t) = IF e.kind = "end_turn" /\ e.turn = t THEN EndsIn(evs, t) \cup {Len(evs) + 1} ELSE EndsIn(evs, t)
  BY <1>4
<1>7. QED
  BY <1>1, <1>5, <1>6 DEF Tells

(* The events of a turn are finitely many, and each is in the stream.      *)
IsFinite(evs, t) ==
  /\ IsFiniteSet(OutputsIn(evs, t)) /\ Cardinality(OutputsIn(evs, t)) \in Nat
  /\ IsFiniteSet(EndsIn(evs, t)) /\ Cardinality(EndsIn(evs, t)) \in Nat
  /\ Len(evs) + 1 \notin OutputsIn(evs, t) /\ \A i \in OutputsIn(evs, t) : i \in 1..Len(evs)

LEMMA TurnsAreFinite ==
  ASSUME NEW evs \in Seq(Talk!Told), NEW t
  PROVE  IsFinite(evs, t)
<1>1. DOMAIN evs = 1..Len(evs) /\ Len(evs) \in Nat
  OBVIOUS
<1>2. IsFiniteSet(1..Len(evs))
  BY <1>1, FS_Interval
<1>3. OutputsIn(evs, t) \subseteq 1..Len(evs) /\ EndsIn(evs, t) \subseteq 1..Len(evs)
  BY <1>1 DEF OutputsIn, EndsIn
<1>4. IsFiniteSet(OutputsIn(evs, t)) /\ IsFiniteSet(EndsIn(evs, t))
  BY <1>2, <1>3, FS_Subset
<1>5. QED
  BY <1>1, <1>3, <1>4, FS_CardinalityType DEF IsFinite

(* An event of another turn, or that the session is over, leaves the turn  *)
(* as it was told.                                                         *)
LEMMA OthersStay ==
  ASSUME NEW evs \in Seq(Talk!Told), NEW e \in Talk!Told, NEW more, more = Append(evs, e), NEW t, NEW turn,
         e.kind = "terminal" \/ e.turn # t, TurnOK(evs, turn, t)
  PROVE  /\ TurnOK(more, turn, t)
         /\ OutputsIn(more, t) = OutputsIn(evs, t)
<1>0. Tells(evs, e, more, t) /\ IsFinite(evs, t)
  BY TellsOf, TurnsAreFinite
<1>1. OutputsIn(more, t) = OutputsIn(evs, t) /\ EndsIn(more, t) = EndsIn(evs, t)
  BY <1>0 DEF Tells
<1>2. \A i \in OutputsIn(evs, t) : more[i] = evs[i]
  BY <1>0 DEF Tells, IsFinite
<1>3. QED
  BY <1>1, <1>2 DEF TurnOK

(* One more output of the open turn.                                       *)
LEMMA OutputIsTold ==
  ASSUME NEW evs \in Seq(Talk!Told), NEW e \in Talk!Told, NEW more, more = Append(evs, e), NEW t, NEW turn,
         e.kind = "output", e.turn = t, turn.open, e.at < turn.deadline, e.correlation = turn.correlation,
         Cardinality(OutputsIn(evs, t)) < QueueLimit, TurnOK(evs, turn, t)
  PROVE  /\ TurnOK(more, turn, t)
         /\ Cardinality(OutputsIn(more, t)) = Cardinality(OutputsIn(evs, t)) + 1
<1>0. Tells(evs, e, more, t) /\ IsFinite(evs, t)
  BY TellsOf, TurnsAreFinite
<1>1. PICK n : n = Len(evs) + 1
  OBVIOUS
<1>2. OutputsIn(more, t) = OutputsIn(evs, t) \cup {n} /\ EndsIn(more, t) = EndsIn(evs, t)
  BY <1>0, <1>1 DEF Tells
<1>3. /\ more[n] = e
      /\ \A i \in OutputsIn(evs, t) : more[i] = evs[i]
  <2>1. more[n] = e /\ \A i \in 1..Len(evs) : more[i] = evs[i]
    BY <1>0, <1>1 DEF Tells
  <2>2. \A i \in OutputsIn(evs, t) : i \in 1..Len(evs)
    BY <1>0 DEF IsFinite
  <2>3. QED
    BY <2>1, <2>2
<1>4. Cardinality(OutputsIn(more, t)) = Cardinality(OutputsIn(evs, t)) + 1
  <2>1. IsFiniteSet(OutputsIn(evs, t)) /\ n \notin OutputsIn(evs, t)
    BY <1>0, <1>1 DEF IsFinite
  <2>2. Cardinality(OutputsIn(evs, t) \cup {n}) = Cardinality(OutputsIn(evs, t)) + 1
    BY <2>1, FS_AddElement
  <2>3. QED
    BY <1>2, <2>2
<1>5. EndsIn(evs, t) = {}
  BY DEF TurnOK
<1>6. Cardinality(OutputsIn(more, t)) <= QueueLimit
  BY <1>0, <1>4, TalkAssumption DEF IsFinite
<1>7. Cardinality(EndsIn(more, t)) <= 1 /\ EndsIn(more, t) = {}
  BY <1>2, <1>5 DEF TurnOK
<1>8. \A i \in OutputsIn(more, t) : more[i].at < turn.deadline /\ more[i].correlation = turn.correlation
  BY <1>2, <1>3 DEF TurnOK
<1>9. QED
  BY <1>4, <1>6, <1>7, <1>8 DEF TurnOK

(* The end of the open turn, which is open no more.                        *)
LEMMA EndIsTold ==
  ASSUME NEW evs \in Seq(Talk!Told), NEW e \in Talk!Told, NEW more, more = Append(evs, e), NEW t, NEW turn, NEW over,
         e.kind = "end_turn", e.turn = t, turn.open, ~ over.open,
         over.deadline = turn.deadline, over.correlation = turn.correlation, TurnOK(evs, turn, t)
  PROVE  TurnOK(more, over, t)
<1>0. Tells(evs, e, more, t) /\ IsFinite(evs, t)
  BY TellsOf, TurnsAreFinite
<1>1. PICK n : n = Len(evs) + 1
  OBVIOUS
<1>2. EndsIn(evs, t) = {}
  BY DEF TurnOK
<1>3. OutputsIn(more, t) = OutputsIn(evs, t) /\ EndsIn(more, t) = {n}
  BY <1>0, <1>1, <1>2 DEF Tells
<1>4. \A i \in OutputsIn(evs, t) : more[i] = evs[i] /\ i < n
  BY <1>0, <1>1 DEF Tells, IsFinite
<1>5. Cardinality(EndsIn(more, t)) = 1
  BY <1>3, FS_Singleton
<1>6. /\ Cardinality(OutputsIn(evs, t)) <= QueueLimit
      /\ \A i \in OutputsIn(evs, t) : evs[i].at < turn.deadline /\ evs[i].correlation = turn.correlation
  BY DEF TurnOK
<1>7. \A i \in OutputsIn(more, t) :
        /\ more[i].at < over.deadline /\ more[i].correlation = over.correlation
        /\ \A o \in EndsIn(more, t) : i < o
  BY <1>3, <1>4, <1>6
<1>8. Cardinality(EndsIn(more, t)) <= 1 /\ Cardinality(OutputsIn(more, t)) <= QueueLimit
  BY <1>3, <1>5, <1>6
<1>9. EndsIn(more, t) # {} => ~ over.open
  OBVIOUS
<1>10. QED
  BY <1>7, <1>8, <1>9, Zenon DEF TurnOK

(* An event of now and of the last turn, or that the session is over, goes *)
(* on with the stream.                                                     *)
LEMMA OrderGoesOn ==
  ASSUME NEW evs \in Seq(Talk!Told), NEW e \in Talk!Told, NEW more, more = Append(evs, e),
         NEW time_ \in Nat, NEW last \in Nat, OrderOK(evs, time_, last),
         e.at = time_, e.turn <= last, e.kind = "terminal" \/ e.turn = last
  PROVE  OrderOK(more, time_, last)
<1>1. /\ more[Len(evs) + 1] = e /\ \A i \in 1..Len(evs) : more[i] = evs[i]
      /\ DOMAIN more = 1..(Len(evs) + 1) /\ DOMAIN evs = 1..Len(evs) /\ Len(evs) \in Nat
  BY AppendIs
<1>2. \A i \in 1..(Len(evs) + 1) : (i \in 1..Len(evs) /\ more[i] = evs[i]) \/ (i = Len(evs) + 1 /\ more[i] = e)
  BY <1>1
<1>3. QED
  BY <1>1, <1>2 DEF OrderOK

(* Of a turn that was not opened yet nothing is told.                      *)
LEMMA NothingYet ==
  ASSUME NEW evs \in Seq(Talk!Told), NEW time_, NEW last \in Nat, OrderOK(evs, time_, last),
         NEW t \in Nat, t > last, NEW turn
  PROVE  /\ OutputsIn(evs, t) = {} /\ Cardinality(OutputsIn(evs, t)) = 0
         /\ TurnOK(evs, turn, t)
<1>1. OutputsIn(evs, t) = {} /\ EndsIn(evs, t) = {}
  BY DEF OrderOK, OutputsIn, EndsIn
<1>2. Cardinality({}) = 0
  BY FS_EmptySet
<1>3. Cardinality(OutputsIn(evs, t)) <= QueueLimit /\ Cardinality(EndsIn(evs, t)) <= 1
  BY <1>1, <1>2, TalkAssumption
<1>4. QED
  BY <1>1, <1>2, <1>3 DEF TurnOK

LEMMA InputKeeps ==
  ASSUME TalkInv, NEW c \in Correlations, NEW deadline \in 1..LeaseEnd, Talk!Input(c, deadline)
  PROVE  TalkInv'
<1>1. PICK n \in Nat : n = turns /\ n \in 0..MaxTurns
  BY TalkAssumption DEF TalkInv, Talk!TypeOK
<1>2. PICK turn : turn = [correlation |-> c, deadline |-> deadline, open |-> TRUE]
  OBVIOUS
<1>3. turn \in Talk!Turns /\ turn.open /\ turn.correlation = c /\ turn.deadline = deadline
  BY <1>2 DEF Talk!Turns, Talk!Deadlines
<1>4. asked \in Seq(Talk!Turns) /\ Len(asked) = n
  BY <1>1 DEF TalkInv, Talk!TypeOK
<1>5. /\ turns' = n + 1 /\ n < MaxTurns /\ asked' = Append(asked, turn) /\ outstanding' = 0
      /\ pending' = [turn |-> n + 1, correlation |-> c, deadline |-> deadline]
      /\ UNCHANGED <<now, cancel, terminal, events>>
  BY <1>1, <1>2 DEF Talk!Input
<1>6. /\ asked' \in Seq(Talk!Turns) /\ Len(asked') = n + 1 /\ asked'[n + 1] = turn
      /\ \A t \in 1..n : asked'[t] = asked[t]
  BY <1>3, <1>4, <1>5
<1>7. turns' \in 0..MaxTurns /\ turns' > 0 /\ outstanding' \in 0..(QueueLimit + 1)
  BY <1>1, <1>5, TalkAssumption
<1>8. pending' = [turn |-> turns', correlation |-> asked'[turns'].correlation, deadline |-> asked'[turns'].deadline]
  BY <1>3, <1>5, <1>6
<1>9. Talk!TypeOK'
  BY <1>3, <1>5, <1>6, <1>7, <1>8 DEF TalkInv, Talk!TypeOK
<1>10. events \in Seq(Talk!Told) /\ OrderOK(events, now, n)
  BY <1>1 DEF TalkInv, Talk!TypeOK
<1>11. TurnOK(events, turn, n + 1) /\ Cardinality(OutputsIn(events, n + 1)) = 0
  BY <1>10, NothingYet
<1>12. ASSUME NEW t \in 1..(n + 1) PROVE TurnOK(events, asked'[t], t)
  <2>1. CASE t = n + 1
    BY <1>6, <1>11, <2>1
  <2>2. CASE t \in 1..n
    BY <1>1, <1>6, <2>2 DEF TalkInv
  <2>3. QED
    BY <2>1, <2>2
<1>13. OrderOK(events, now, n + 1)
  <2>1. \A i \in DOMAIN events : events[i].turn <= n + 1
    <3>1. SUFFICES ASSUME NEW i \in DOMAIN events PROVE events[i].turn <= n + 1
      OBVIOUS
    <3>2. events[i] \in Talk!Told
      BY <1>10
    <3>3. events[i].turn \in Nat /\ events[i].turn <= n
      BY <1>10, <3>2, TalkAssumption DEF OrderOK, Talk!Told
    <3>4. QED
      BY <3>3
  <2>2. QED
    BY <1>10, <2>1 DEF OrderOK
<1>14. Cardinality(OutputsIn(events, n + 1)) <= outstanding'
  BY <1>5, <1>11
<1>15. QED
  BY <1>5, <1>9, <1>12, <1>13, <1>14 DEF TalkInv

(* What is known of the open turn.                                         *)
LEMMA OpenTurn ==
  ASSUME TalkInv, pending # None
  PROVE  /\ turns \in 1..MaxTurns /\ turns \in Nat /\ asked[turns] \in Talk!Turns /\ asked[turns].open
         /\ pending.turn = turns /\ pending.correlation = asked[turns].correlation
         /\ pending.deadline = asked[turns].deadline
         /\ asked[turns].correlation \in Correlations
         /\ TurnOK(events, asked[turns], turns) /\ Cardinality(OutputsIn(events, turns)) <= outstanding
<1>1. turns \in 1..MaxTurns /\ turns \in Nat /\ Len(asked) = turns /\ asked \in Seq(Talk!Turns)
  BY TalkAssumption DEF TalkInv, Talk!TypeOK
<1>2. asked[turns] \in Talk!Turns
  BY <1>1
<1>3. asked[turns].correlation \in Correlations
  BY <1>2 DEF Talk!Turns
<1>4. pending = [turn |-> turns, correlation |-> asked[turns].correlation, deadline |-> asked[turns].deadline]
  BY DEF TalkInv, Talk!TypeOK
<1>5. asked[turns].open
  BY DEF TalkInv, Talk!TypeOK
<1>6. TurnOK(events, asked[turns], turns) /\ Cardinality(OutputsIn(events, turns)) <= outstanding
  BY <1>1 DEF TalkInv
<1>7. QED
  BY <1>1, <1>2, <1>3, <1>4, <1>5, <1>6

(* An event of now.                                                        *)
LEMMA EventsAre ==
  ASSUME TalkInv, NEW kind \in {"output", "end_turn", "terminal"}, NEW turn \in 0..MaxTurns,
         NEW c \in Correlations \cup {None}, NEW status \in {"completed", "cancelled"} \cup Cancellations \cup {None},
         NEW e, e = Talk!Event(kind, turn, c, status), events' = Append(events, e), Len(events) < MaxEvents
  PROVE  /\ e \in Talk!Told /\ e.kind = kind /\ e.turn = turn /\ e.correlation = c /\ e.at = now
         /\ events \in Seq(Talk!Told) /\ events' \in Seq(Talk!Told) /\ Len(events') <= MaxEvents
<1>1. e \in Talk!Told
  BY DEF TalkInv, Talk!TypeOK, Talk!Event, Talk!Told
<1>2. events \in Seq(Talk!Told)
  BY DEF TalkInv, Talk!TypeOK
<1>3. events' \in Seq(Talk!Told) /\ Len(events') = Len(events) + 1
  BY <1>1, <1>2
<1>4. e.kind = kind /\ e.turn = turn /\ e.correlation = c /\ e.at = now
  BY DEF Talk!Event
<1>5. Len(events') <= MaxEvents
  BY <1>2, <1>3, TalkAssumption
<1>6. QED
  BY <1>1, <1>2, <1>3, <1>4, <1>5

LEMMA FeedKeeps ==
  ASSUME TalkInv, NEW wellFormed \in BOOLEAN, Talk!Feed(wellFormed)
  PROVE  TalkInv'
<1>1. /\ pending # None /\ now < pending.deadline /\ outstanding <= QueueLimit /\ outstanding' = outstanding + 1
      /\ UNCHANGED <<now, pending, turns, cancel, terminal, asked>>
  BY DEF Talk!Feed, Talk!MayFeed
<1>2. /\ turns \in 1..MaxTurns /\ turns \in Nat /\ asked[turns] \in Talk!Turns /\ asked[turns].open
      /\ pending.turn = turns /\ pending.correlation = asked[turns].correlation
      /\ pending.deadline = asked[turns].deadline
      /\ asked[turns].correlation \in Correlations
      /\ TurnOK(events, asked[turns], turns) /\ Cardinality(OutputsIn(events, turns)) <= outstanding
  BY <1>1, OpenTurn
<1>3. outstanding \in Nat /\ outstanding' \in 0..(QueueLimit + 1) /\ now \in Nat
  BY <1>1, TalkAssumption DEF TalkInv, Talk!TypeOK
<1>4. CASE UNCHANGED events
  <2>1. Cardinality(OutputsIn(events, turns)) <= outstanding'
    <3>1. Cardinality(OutputsIn(events, turns)) \in Nat
      BY TurnsAreFinite DEF IsFinite, TalkInv, Talk!TypeOK
    <3>2. QED
      BY <1>1, <1>2, <1>3, <3>1
  <2>2. Talk!TypeOK'
    BY <1>1, <1>3, <1>4 DEF TalkInv, Talk!TypeOK
  <2>3. QED
    BY <1>1, <1>4, <2>1, <2>2 DEF TalkInv
<1>5. CASE ~ UNCHANGED events
  <2>1. PICK e : e = Talk!Event("output", turns, asked[turns].correlation, None)
    OBVIOUS
  <2>2. events' = Append(events, e) /\ Len(events) < MaxEvents /\ outstanding' <= QueueLimit
    BY <1>2, <1>5, <2>1 DEF Talk!Feed, Talk!Record, Talk!MayAppend
  <2>3. /\ e \in Talk!Told /\ e.kind = "output" /\ e.turn = turns /\ e.correlation = asked[turns].correlation
        /\ e.at = now /\ events \in Seq(Talk!Told) /\ events' \in Seq(Talk!Told) /\ Len(events') <= MaxEvents
    BY <1>2, <2>1, <2>2, EventsAre
  <2>4. Cardinality(OutputsIn(events, turns)) \in Nat
    BY <2>3, TurnsAreFinite DEF IsFinite
  <2>5. Cardinality(OutputsIn(events, turns)) < QueueLimit
    BY <1>1, <1>2, <1>3, <2>2, <2>4, TalkAssumption
  <2>6. /\ TurnOK(events', asked[turns], turns)
        /\ Cardinality(OutputsIn(events', turns)) = Cardinality(OutputsIn(events, turns)) + 1
    BY <1>1, <1>2, <2>2, <2>3, <2>5, OutputIsTold
  <2>7. ASSUME NEW t \in 1..turns PROVE TurnOK(events', asked[t], t)
    <3>1. CASE t = turns
      BY <2>6, <3>1
    <3>2. CASE t # turns
      <4>1. TurnOK(events, asked[t], t) /\ e.turn # t
        BY <2>3, <2>7, <3>2 DEF TalkInv
      <4>2. QED
        BY <2>2, <2>3, <4>1, OthersStay
    <3>3. QED
      BY <3>1, <3>2
  <2>8. OrderOK(events', now, turns)
    <3>1. OrderOK(events, now, turns) /\ e.turn <= turns
      BY <1>2, <2>3 DEF TalkInv
    <3>2. QED
      BY <1>2, <1>3, <2>2, <2>3, <3>1, OrderGoesOn
  <2>9. Talk!TypeOK'
    BY <1>1, <1>3, <2>3 DEF TalkInv, Talk!TypeOK
  <2>10. Cardinality(OutputsIn(events', turns)) <= outstanding'
    BY <1>1, <1>2, <1>3, <2>4, <2>6
  <2>11. QED
    BY <1>1, <2>7, <2>8, <2>9, <2>10 DEF TalkInv
<1>6. QED
  BY <1>4, <1>5

(* The open turn is settled.                                               *)
LEMMA SettledIs ==
  ASSUME TalkInv, pending # None, Talk!Settled(pending.turn)
  PROVE  /\ asked' \in Seq(Talk!Turns) /\ Len(asked') = turns /\ ~ asked'[turns].open
         /\ asked'[turns].deadline = asked[turns].deadline /\ asked'[turns].correlation = asked[turns].correlation
         /\ \A t \in 1..turns : t # turns => asked'[t] = asked[t]
<1>1. /\ turns \in Nat /\ turns \in 1..MaxTurns /\ asked[turns] \in Talk!Turns /\ pending.turn = turns
  BY OpenTurn
<1>2. asked \in Seq(Talk!Turns) /\ Len(asked) = turns
  BY DEF TalkInv, Talk!TypeOK
<1>3. PICK over : over = [asked[turns] EXCEPT !.open = FALSE]
  OBVIOUS
<1>4. /\ over \in Talk!Turns /\ ~ over.open
      /\ over.deadline = asked[turns].deadline /\ over.correlation = asked[turns].correlation
  BY <1>1, <1>3 DEF Talk!Turns
<1>5. asked' = [asked EXCEPT ![turns].open = FALSE]
  BY <1>1 DEF Talk!Settled
<1>6. asked' = [asked EXCEPT ![turns] = over]
  BY <1>2, <1>3, <1>5
<1>7. /\ asked' \in Seq(Talk!Turns) /\ Len(asked') = turns /\ asked'[turns] = over
      /\ \A t \in 1..turns : t # turns => asked'[t] = asked[t]
  BY <1>1, <1>2, <1>4, <1>6
<1>8. QED
  BY <1>4, <1>7

LEMMA EndTurnKeeps ==
  ASSUME TalkInv, NEW c \in Correlations, Talk!EndTurn(c)
  PROVE  TalkInv'
<1>1. /\ pending # None /\ pending.correlation = c /\ Len(events) < MaxEvents
      /\ Talk!Settled(pending.turn) /\ pending' = None /\ outstanding' = 0
      /\ UNCHANGED <<now, turns, cancel, terminal>>
  BY DEF Talk!EndTurn, Talk!MayAppend
<1>2. /\ turns \in 1..MaxTurns /\ turns \in Nat /\ asked[turns].open /\ pending.turn = turns
      /\ TurnOK(events, asked[turns], turns)
  BY <1>1, OpenTurn
<1>3. /\ asked' \in Seq(Talk!Turns) /\ Len(asked') = turns /\ ~ asked'[turns].open
      /\ asked'[turns].deadline = asked[turns].deadline /\ asked'[turns].correlation = asked[turns].correlation
      /\ \A t \in 1..turns : t # turns => asked'[t] = asked[t]
  BY <1>1, SettledIs
<1>4. PICK e : e = Talk!Event("end_turn", turns, c, None)
  OBVIOUS
<1>5. events' = Append(events, e)
  BY <1>2, <1>4 DEF Talk!EndTurn, Talk!Record
<1>6. /\ e \in Talk!Told /\ e.kind = "end_turn" /\ e.turn = turns
      /\ e.at = now /\ events \in Seq(Talk!Told) /\ events' \in Seq(Talk!Told) /\ Len(events') <= MaxEvents
  <2>1. turns \in 0..MaxTurns /\ c \in Correlations \cup {None}
    BY <1>2
  <2>2. "end_turn" \in {"output", "end_turn", "terminal"}
        /\ None \in {"completed", "cancelled"} \cup Cancellations \cup {None}
    OBVIOUS
  <2>3. Len(events) < MaxEvents
    BY <1>1
  <2>4. QED
    BY SMTT(20), <1>4, <1>5, <2>1, <2>2, <2>3, EventsAre
<1>7. TurnOK(events', asked'[turns], turns)
  BY <1>2, <1>3, <1>5, <1>6, EndIsTold
<1>8. ASSUME NEW t \in 1..turns PROVE TurnOK(events', asked'[t], t)
  <2>1. CASE t = turns
    BY <1>7, <2>1
  <2>2. CASE t # turns
    <3>1. TurnOK(events, asked[t], t) /\ e.turn # t /\ asked'[t] = asked[t]
      BY <1>3, <1>6, <1>8, <2>2 DEF TalkInv
    <3>2. QED
      BY <1>5, <1>6, <3>1, OthersStay
  <2>3. QED
    BY <2>1, <2>2
<1>9. OrderOK(events', now, turns)
  <2>1. OrderOK(events, now, turns) /\ e.turn <= turns /\ now \in Nat
    BY <1>2, <1>6, TalkAssumption DEF TalkInv, Talk!TypeOK
  <2>2. QED
    BY <1>2, <1>5, <1>6, <2>1, OrderGoesOn
<1>10. Talk!TypeOK'
  BY <1>1, <1>3, <1>6, TalkAssumption DEF TalkInv, Talk!TypeOK
<1>11. QED
  BY <1>1, <1>8, <1>9, <1>10 DEF TalkInv

(* The session is over, and says so if it still may.                       *)
LEMMA EndKeeps ==
  ASSUME TalkInv, NEW status \in {"completed", "cancelled"} \cup Cancellations, Talk!EndWith(status),
         UNCHANGED <<now, pending, outstanding, turns, cancel, asked>>
  PROVE  /\ TalkInv' /\ terminal'
         /\ events' = events \/ Talk!Last(events').status = status
<1>1. terminal' = TRUE
  BY DEF Talk!EndWith
<1>2. CASE UNCHANGED events
  <2>1. Talk!TypeOK'
    BY <1>1, <1>2 DEF TalkInv, Talk!TypeOK
  <2>2. QED
    BY <1>1, <1>2, <2>1 DEF TalkInv
<1>3. CASE ~ UNCHANGED events
  <2>1. PICK e : e = Talk!Event("terminal", 0, None, status)
    OBVIOUS
  <2>2. events' = Append(events, e) /\ Len(events) < MaxEvents
    BY <1>3, <2>1 DEF Talk!EndWith, Talk!Record, Talk!MayAppend
  <2>3. 0 \in 0..MaxTurns /\ turns \in Nat /\ now \in Nat
    BY TalkAssumption DEF TalkInv, Talk!TypeOK
  <2>4. /\ e \in Talk!Told /\ e.kind = "terminal" /\ e.turn = 0
        /\ e.at = now /\ events \in Seq(Talk!Told) /\ events' \in Seq(Talk!Told) /\ Len(events') <= MaxEvents
    BY <2>1, <2>2, <2>3, EventsAre
  <2>5. ASSUME NEW t \in 1..turns
        PROVE  TurnOK(events', asked[t], t)
    <3>1. TurnOK(events, asked[t], t)
      BY <2>5 DEF TalkInv
    <3>2. QED
      BY <2>2, <2>4, <3>1, OthersStay
  <2>6. OrderOK(events', now, turns)
    <3>1. OrderOK(events, now, turns) /\ e.turn <= turns
      BY <2>3, <2>4 DEF TalkInv
    <3>2. QED
      BY <2>2, <2>3, <2>4, <3>1, OrderGoesOn
  <2>7. pending # None => OutputsIn(events', turns) = OutputsIn(events, turns)
    <3>1. SUFFICES ASSUME pending # None PROVE OutputsIn(events', turns) = OutputsIn(events, turns)
      OBVIOUS
    <3>2. TurnOK(events, asked[turns], turns)
      BY <3>1, OpenTurn
    <3>3. QED
      BY <2>2, <2>4, <3>2, OthersStay
  <2>8. Talk!TypeOK'
    BY <1>1, <2>4 DEF TalkInv, Talk!TypeOK
  <2>9. TalkInv'
    BY <2>5, <2>6, <2>7, <2>8 DEF TalkInv
  <2>10. Talk!Last(events') = e
    BY <2>2, <2>4 DEF Talk!Last
  <2>11. e.status = status
    BY <2>1 DEF Talk!Event
  <2>12. QED
    BY <1>1, <2>9, <2>10, <2>11
<1>4. QED
  BY <1>2, <1>3

LEMMA RequestCancelKeeps ==
  ASSUME TalkInv, NEW o \in Cancellations, Talk!RequestCancel(o)
  PROVE  TalkInv'
<1>1. /\ cancel' = o /\ pending' = None /\ UNCHANGED <<now, outstanding, turns, terminal, events>>
  BY DEF Talk!RequestCancel
<1>2. CASE pending = None
  <2>1. asked' = asked
    BY <1>2 DEF Talk!RequestCancel
  <2>2. Talk!TypeOK'
    BY <1>1, <2>1 DEF TalkInv, Talk!TypeOK
  <2>3. QED
    BY <1>1, <2>1, <2>2 DEF TalkInv
<1>3. CASE pending # None
  <2>1. Talk!Settled(pending.turn)
    BY <1>3 DEF Talk!RequestCancel
  <2>2. /\ asked' \in Seq(Talk!Turns) /\ Len(asked') = turns /\ ~ asked'[turns].open
        /\ asked'[turns].deadline = asked[turns].deadline /\ asked'[turns].correlation = asked[turns].correlation
        /\ \A t \in 1..turns : t # turns => asked'[t] = asked[t]
    BY <1>3, <2>1, SettledIs
  <2>3. Talk!TypeOK'
    BY <1>1, <2>2 DEF TalkInv, Talk!TypeOK
  <2>4. TurnOK(events, asked'[turns], turns)
    <3>1. TurnOK(events, asked[turns], turns)
      BY <1>3, OpenTurn
    <3>2. QED
      BY <2>2, <3>1 DEF TurnOK
  <2>5. ASSUME NEW t \in 1..turns PROVE TurnOK(events, asked'[t], t)
    BY <2>2, <2>4, <2>5 DEF TalkInv
  <2>6. QED
    BY <1>1, <2>3, <2>5 DEF TalkInv
<1>4. QED
  BY <1>2, <1>3

LEMMA TickKeeps ==
  ASSUME TalkInv, Talk!Tick
  PROVE  TalkInv'
<1>1. /\ now' = now + 1 /\ now < TalkMaxTime
      /\ UNCHANGED <<pending, outstanding, turns, cancel, terminal, events, asked>>
  BY DEF Talk!Tick
<1>2. now \in Nat /\ now' \in 0..TalkMaxTime /\ events \in Seq(Talk!Told) /\ OrderOK(events, now, turns)
  BY <1>1, TalkAssumption DEF TalkInv, Talk!TypeOK
<1>3. Talk!TypeOK'
  BY <1>1, <1>2 DEF TalkInv, Talk!TypeOK
<1>4. \A i \in DOMAIN events : events[i].at <= now + 1
  <2>1. SUFFICES ASSUME NEW i \in DOMAIN events PROVE events[i].at <= now + 1
    OBVIOUS
  <2>2. events[i] \in Talk!Told
    BY <1>2
  <2>3. events[i].at \in Nat /\ events[i].at <= now
    BY <1>2, <2>2, TalkAssumption DEF OrderOK, Talk!Told
  <2>4. QED
    BY <1>2, <2>3
<1>5. OrderOK(events, now + 1, turns)
  BY <1>2, <1>4 DEF OrderOK
<1>6. QED
  BY <1>1, <1>3, <1>5 DEF TalkInv

LEMMA TalkStarts ==
  ASSUME Talk!Init
  PROVE  TalkInv
<1>1. /\ now = 0 /\ pending = None /\ outstanding = 0 /\ turns = 0 /\ cancel = None /\ terminal = FALSE
      /\ events = <<>> /\ asked = <<>>
  BY DEF Talk!Init
<1>2. events \in Seq(Talk!Told) /\ Len(events) = 0 /\ asked \in Seq(Talk!Turns) /\ Len(asked) = 0
  BY <1>1
<1>3. Talk!TypeOK
  <2>1. now \in 0..TalkMaxTime /\ turns \in 0..MaxTurns /\ outstanding \in 0..(QueueLimit + 1)
    BY <1>1, TalkAssumption
  <2>2. terminal \in BOOLEAN /\ cancel \in Cancellations \cup {None}
    BY <1>1
  <2>3. Len(events) <= MaxEvents /\ Len(asked) = turns
    BY <1>1, <1>2, TalkAssumption
  <2>4. QED
    BY <1>1, <1>2, <2>1, <2>2, <2>3 DEF Talk!TypeOK
<1>4. OrderOK(events, now, turns)
  BY <1>1, <1>2 DEF OrderOK
<1>5. QED
  BY <1>1, <1>3, <1>4 DEF TalkInv

LEMMA TalkStep ==
  ASSUME TalkInv, [Talk!Next]_(Talk!vars)
  PROVE  TalkInv'
<1>1. ASSUME NEW status \in {"completed", "cancelled"}, Talk!Close(status) PROVE TalkInv'
  BY <1>1, EndKeeps DEF Talk!Close
<1>2. ASSUME NEW o \in Cancellations, NEW clean \in BOOLEAN, Talk!AcknowledgeCancel(o, clean) PROVE TalkInv'
  BY <1>2, EndKeeps DEF Talk!AcknowledgeCancel
<1>3. ASSUME UNCHANGED Talk!vars PROVE TalkInv'
  BY <1>3 DEF Talk!vars, TalkInv, Talk!TypeOK
<1>4. QED
  BY <1>1, <1>2, <1>3, InputKeeps, FeedKeeps, EndTurnKeeps, RequestCancelKeeps, TickKeeps DEF Talk!Next

(* While it is being cancelled a session says only that it is over.        *)
LEMMA CancelledIsSilent ==
  ASSUME TalkInv, [Talk!Next]_(Talk!vars)
  PROVE  [Talk!SilentStep]_(Talk!vars)
<1>1. SUFFICES ASSUME Talk!Next, cancel # None
               PROVE  \/ UNCHANGED <<pending, turns, events, cancel>>
                      \/ /\ UNCHANGED <<pending, turns, cancel>>
                         /\ terminal' /\ ~ terminal
                         /\ events' = events \/ Talk!Last(events').status = cancel
  BY DEF Talk!SilentStep
<1>2. ~ Talk!Fenced
  BY <1>1 DEF Talk!Fenced
<1>3. ASSUME NEW o \in Cancellations, NEW clean \in BOOLEAN, Talk!AcknowledgeCancel(o, clean)
      PROVE  /\ UNCHANGED <<pending, turns, cancel>> /\ terminal' /\ ~ terminal
             /\ events' = events \/ Talk!Last(events').status = cancel
  <2>1. cancel = o /\ ~ terminal /\ Talk!EndWith(o) /\ UNCHANGED <<now, pending, outstanding, turns, cancel, asked>>
    BY <1>3 DEF Talk!AcknowledgeCancel, Talk!Confirms
  <2>2. QED
    BY <2>1, EndKeeps
<1>4. ASSUME NEW o \in Cancellations PROVE ~ Talk!RequestCancel(o)
  BY <1>1 DEF Talk!RequestCancel
<1>5. CASE Talk!Tick
  BY <1>5 DEF Talk!Tick
<1>6. QED
  BY <1>1, <1>2, <1>3, <1>4, <1>5 DEF Talk!Next, Talk!Input, Talk!EndTurn, Talk!Feed, Talk!Close

---------------------------------------------------------------------------
(* The checkouts.                                                          *)
Layers  == {"binding", "manifest", "state", "graph", "register"}
Owners  == [checkout : Checkouts, name : Names]
Entries == [Names -> Owners \cup {None}]

Laying == [at : Layers, command : {"setup", "bootstrap", "register"}, checkout : Checkouts, name : Names, head : 0..MaxHead]
Saving == [at : {"save"}, command : {"register"}, checkout : Checkouts, name : Names, read : Entries]

(* The files each command is laying out.                                   *)
Staged(x) ==
  /\ x.command = "bootstrap" => x.at \in {"manifest", "binding", "state"}
  /\ x.command = "register" => x.at \in {"register", "save"}

SetupTypes ==
  /\ heads \in [Checkouts -> 0..MaxHead]
  /\ layouts \in [Checkouts -> [Setup!FileNames -> Setup!Texts \cup {None, Setup!Torn}]]
  /\ registry \in Entries
  /\ setups \in [Processes -> {Setup!Idle} \cup Laying \cup Saving]
  /\ \A p \in Processes : setups[p] # Setup!Idle => Staged(setups[p])
  /\ inTurn \in BOOLEAN

(* What is written whole.                                                  *)
Whole(c) == c \notin {None, Setup!Torn}

(* Of a layout, a file was written after those it depends on, with the     *)
(* same content.                                                           *)
Follows(layout) ==
  /\ Whole(layout.manifest) => layout.binding = [name |-> layout.manifest.name, head |-> 0]
  /\ Whole(layout.state) => layout.manifest = layout.state
  /\ Whole(layout.graph) => layout.state = layout.graph

IsBoundTo(layout, n) ==
  /\ layout.binding # None /\ layout.binding.name = n
  /\ layout.state # None /\ layout.state.name = n

Own(x)  == [name |-> x.name, head |-> x.head]
Mark(x) == [name |-> x.name, head |-> 0]

(* What is so for the process x, when it is the only one, with the commits *)
(* hs, the files ls and the registry r.                                    *)
Proceeds(x, hs, ls, r) ==
  /\ x.command = "setup" =>
       /\ hs[x.checkout] > 0
       /\ x.at \in {"manifest", "state", "graph", "register"} => ls[x.checkout].binding = Mark(x)
       /\ x.at \in {"state", "graph", "register"} => ls[x.checkout].manifest = Own(x)
       /\ x.at \in {"graph", "register"} => ls[x.checkout].state = Own(x)
  /\ x.command = "bootstrap" =>
       /\ hs[x.checkout] = 0
       /\ \A n \in Names : r[n] # None => r[n].checkout # x.checkout
  /\ x.at = "save" =>
       /\ x.read = r
       /\ IsBoundTo(ls[x.checkout], x.name) /\ r[x.name] \in {None, [checkout |-> x.checkout, name |-> x.name]}

Exclusive ==
  /\ \A p, q \in Processes : setups[p] # Setup!Idle /\ setups[q] # Setup!Idle => p = q
  /\ \A n \in Names : registry[n] # None => IsBoundTo(layouts[registry[n].checkout], n)
  /\ \A c \in Checkouts : heads[c] > 0 => Follows(layouts[c])
  /\ \A p \in Processes : setups[p] # Setup!Idle => Proceeds(setups[p], heads, layouts, registry)

SetupInv == SetupTypes /\ (inTurn => Exclusive)

(* The values of the model differ.                                         *)
LEMMA ContentsAre ==
  /\ \A x \in Setup!Texts : Whole(x)
  /\ None # Setup!Torn /\ None \notin Names /\ None \notin Owners
  /\ \A x \in Laying \cup Saving : x # Setup!Idle
  /\ MaxHead \in Nat
<1>1. \A x \in Setup!Texts : x # None /\ x # Setup!Torn
  BY SetupAssumption DEF Setup!Texts, Setup!Torn
<1>2. \A x \in Laying \cup Saving : x.at # Setup!Idle.at
  BY DEF Laying, Saving, Setup!Idle, Layers
<1>3. QED
  BY <1>1, <1>2, SetupAssumption DEF Whole, Owners

LEMMA SetupStarts ==
  ASSUME Setup!Init
  PROVE  SetupInv
<1>1. /\ heads \in [Checkouts -> {0, 1}] /\ layouts = [c \in Checkouts |-> Setup!NoFiles]
      /\ registry = [n \in Names |-> None] /\ setups = [p \in Processes |-> Setup!Idle] /\ inTurn \in BOOLEAN
  BY DEF Setup!Init
<1>2. SetupTypes
  <2>1. heads \in [Checkouts -> 0..MaxHead]
    <3>1. {0, 1} \subseteq 0..MaxHead
      BY SetupAssumption
    <3>2. QED
      BY <1>1, <3>1
  <2>2. layouts \in [Checkouts -> [Setup!FileNames -> Setup!Texts \cup {None, Setup!Torn}]]
    BY <1>1 DEF Setup!NoFiles
  <2>3. registry \in Entries /\ setups \in [Processes -> {Setup!Idle} \cup Laying \cup Saving]
    BY <1>1 DEF Entries
  <2>4. QED
    BY <1>1, <2>1, <2>2, <2>3 DEF SetupTypes
<1>3. ASSUME NEW c \in Checkouts PROVE Follows(layouts[c])
  BY <1>1 DEF Follows, Whole, Setup!NoFiles, Setup!FileNames
<1>4. QED
  BY <1>1, <1>2, <1>3 DEF SetupInv, Exclusive

(* One process goes on, and the others stay where they are.                *)
LEMMA GoesAre ==
  ASSUME SetupTypes, NEW p \in Processes, NEW x \in {Setup!Idle} \cup Laying \cup Saving,
         x # Setup!Idle => Staged(x), Setup!Goes(p, x)
  PROVE  /\ setups' \in [Processes -> {Setup!Idle} \cup Laying \cup Saving]
         /\ setups'[p] = x /\ \A q \in Processes \ {p} : setups'[q] = setups[q]
         /\ \A q \in Processes : setups'[q] # Setup!Idle => Staged(setups'[q])
<1>1. /\ setups' \in [Processes -> {Setup!Idle} \cup Laying \cup Saving] /\ setups'[p] = x
      /\ \A q \in Processes \ {p} : setups'[q] = setups[q]
  BY DEF SetupTypes, Setup!Goes
<1>2. QED
  BY <1>1 DEF SetupTypes

(* When the processes take turns, all but the one that goes on are idle.   *)
LEMMA OthersWait ==
  ASSUME SetupTypes, Exclusive, NEW p \in Processes, NEW x,
         setups[p] # Setup!Idle \/ \A q \in Processes : setups[q] = Setup!Idle,
         setups'[p] = x, \A q \in Processes \ {p} : setups'[q] = setups[q],
         \A n \in Names : registry'[n] # None => IsBoundTo(layouts'[registry'[n].checkout], n),
         \A c \in Checkouts : heads'[c] > 0 => Follows(layouts'[c]),
         x # Setup!Idle => Proceeds(x, heads', layouts', registry')
  PROVE  Exclusive'
<1>1. \A q \in Processes \ {p} : setups'[q] = Setup!Idle
  BY DEF Exclusive
<1>2. QED
  BY <1>1 DEF Exclusive

LEMMA CommitKeeps ==
  ASSUME SetupInv, NEW c \in Checkouts, Setup!Commit(c)
  PROVE  SetupInv'
<1>1. /\ heads[c] \in 1..(MaxHead - 1) /\ heads' = [heads EXCEPT ![c] = heads[c] + 1]
      /\ UNCHANGED <<layouts, registry, setups, inTurn>>
  BY DEF Setup!Commit
<1>2. heads \in [Checkouts -> 0..MaxHead] /\ MaxHead \in Nat /\ heads[c] + 1 \in 0..MaxHead /\ heads[c] > 0 /\ heads[c] + 1 > 0
  BY <1>1, SetupAssumption DEF SetupInv, SetupTypes
<1>3. heads' \in [Checkouts -> 0..MaxHead]
  BY <1>1, <1>2
<1>4. \A d \in Checkouts : (heads'[d] > 0 <=> heads[d] > 0) /\ (heads'[d] = 0 <=> heads[d] = 0)
  <2>1. SUFFICES ASSUME NEW d \in Checkouts PROVE (heads'[d] > 0 <=> heads[d] > 0) /\ (heads'[d] = 0 <=> heads[d] = 0)
    OBVIOUS
  <2>2. CASE d = c
    BY <1>1, <1>2, <2>2
  <2>3. CASE d # c
    BY <1>1, <1>2, <2>3
  <2>4. QED
    BY <2>2, <2>3
<1>5. SetupTypes'
  BY <1>1, <1>3 DEF SetupInv, SetupTypes
<1>6. ASSUME inTurn PROVE Exclusive'
  <2>1. Exclusive
    BY <1>6 DEF SetupInv
  <2>2. ASSUME NEW p \in Processes, setups[p] # Setup!Idle PROVE Proceeds(setups[p], heads', layouts', registry')
    <3>1. Proceeds(setups[p], heads, layouts, registry) /\ setups[p].checkout \in Checkouts
      BY <2>1, <2>2 DEF SetupInv, SetupTypes, Exclusive, Laying, Saving
    <3>2. QED
      BY <1>1, <1>4, <3>1 DEF Proceeds
  <2>3. \A d \in Checkouts : heads'[d] > 0 => Follows(layouts'[d])
    BY <1>1, <1>4, <2>1 DEF Exclusive
  <2>4. QED
    BY <1>1, <2>1, <2>2, <2>3 DEF Exclusive
<1>7. QED
  BY <1>1, <1>5, <1>6 DEF SetupInv

(* A command starts.                                                       *)
LEMMA BeginsKeeps ==
  ASSUME SetupInv, NEW p \in Processes, NEW x \in Laying, Staged(x), Setup!IsFree(p), Setup!Goes(p, x),
         UNCHANGED <<heads, layouts, registry, inTurn>>,
         inTurn => Proceeds(x, heads, layouts, registry)
  PROVE  SetupInv'
<1>1. /\ setups' \in [Processes -> {Setup!Idle} \cup Laying \cup Saving]
      /\ setups'[p] = x /\ \A q \in Processes \ {p} : setups'[q] = setups[q]
      /\ \A q \in Processes : setups'[q] # Setup!Idle => Staged(setups'[q])
  BY GoesAre DEF SetupInv
<1>2. SetupTypes'
  BY <1>1 DEF SetupInv, SetupTypes
<1>3. ASSUME inTurn PROVE Exclusive'
  <2>1. Exclusive /\ \A q \in Processes : setups[q] = Setup!Idle
    BY <1>3 DEF SetupInv, Setup!IsFree
  <2>2. /\ \A n \in Names : registry'[n] # None => IsBoundTo(layouts'[registry'[n].checkout], n)
        /\ \A c \in Checkouts : heads'[c] > 0 => Follows(layouts'[c])
        /\ Proceeds(x, heads', layouts', registry')
    BY <1>3, <2>1 DEF Exclusive
  <2>3. QED
    BY <1>1, <2>1, <2>2, OthersWait DEF SetupInv
<1>4. QED
  BY <1>2, <1>3 DEF SetupInv

LEMMA StartsKeep ==
  ASSUME SetupInv, NEW p \in Processes, NEW c \in Checkouts, NEW n \in Names,
         Setup!StartSetup(p, c, n) \/ Setup!StartBootstrap(p, c, n) \/ Setup!StartRegister(p, c, n)
  PROVE  SetupInv'
<1>1. UNCHANGED <<heads, layouts, registry, inTurn>> /\ Setup!IsFree(p) /\ heads[c] \in 0..MaxHead /\ 0 \in 0..MaxHead
  BY SetupAssumption DEF Setup!StartSetup, Setup!StartBootstrap, Setup!StartRegister, SetupInv, SetupTypes
<1>2. CASE Setup!StartSetup(p, c, n)
  <2> DEFINE x == [at |-> "binding", command |-> "setup", checkout |-> c, name |-> n, head |-> heads[c]]
  <2>1. Setup!Goes(p, x) /\ heads[c] > 0
    BY <1>2 DEF Setup!StartSetup
  <2>2. x \in Laying /\ Staged(x) /\ Proceeds(x, heads, layouts, registry)
    BY <1>1, <2>1 DEF Laying, Layers, Staged, Proceeds
  <2>3. QED
    BY <1>1, <2>1, <2>2, BeginsKeeps
<1>3. CASE Setup!StartBootstrap(p, c, n)
  <2> DEFINE x == [at |-> "manifest", command |-> "bootstrap", checkout |-> c, name |-> n, head |-> 0]
  <2>1. Setup!Goes(p, x) /\ heads[c] = 0 /\ layouts[c] = Setup!NoFiles
    BY <1>3 DEF Setup!StartBootstrap, Setup!Empty
  <2>2. x \in Laying /\ Staged(x)
    BY <1>1 DEF Laying, Layers, Staged
  <2>3. ASSUME inTurn PROVE Proceeds(x, heads, layouts, registry)
    <3>1. ASSUME NEW m \in Names, registry[m] # None, registry[m].checkout = c PROVE FALSE
      <4>1. IsBoundTo(layouts[c], m)
        BY <2>3, <3>1 DEF SetupInv, Exclusive
      <4>2. layouts[c].binding = None
        BY <2>1 DEF Setup!NoFiles, Setup!FileNames
      <4>3. QED
        BY <4>1, <4>2 DEF IsBoundTo
    <3>2. QED
      BY <2>1, <3>1 DEF Proceeds
  <2>4. QED
    BY <1>1, <2>1, <2>2, <2>3, BeginsKeeps
<1>4. CASE Setup!StartRegister(p, c, n)
  <2> DEFINE x == [at |-> "register", command |-> "register", checkout |-> c, name |-> n, head |-> 0]
  <2>1. Setup!Goes(p, x)
    BY <1>4 DEF Setup!StartRegister
  <2>2. x \in Laying /\ Staged(x) /\ Proceeds(x, heads, layouts, registry)
    BY <1>1 DEF Laying, Layers, Staged, Proceeds
  <2>3. QED
    BY <1>1, <2>1, <2>2, BeginsKeeps
<1>5. QED
  BY <1>2, <1>3, <1>4

(* A command that is writing files: where it is, and where it goes next.   *)
LEMMA WritersAre ==
  ASSUME SetupTypes, NEW p \in Processes, setups[p] # Setup!Idle, setups[p].at \in Setup!FileNames
  PROVE  LET x == setups[p]
             y == Setup!After(x)
         IN /\ x \in Laying /\ x.command \in {"setup", "bootstrap"} /\ Setup!ContentOf(x) \in Setup!Texts
            /\ Setup!ContentOf(x) = IF x.at = "binding" THEN Mark(x) ELSE Own(x)
            /\ x.command = "setup" =>
                 /\ y \in Laying /\ y.command = "setup" /\ y.checkout = x.checkout /\ Mark(y) = Mark(x) /\ Own(y) = Own(x)
                 /\ x.at = "binding" => y.at = "manifest"
                 /\ x.at = "manifest" => y.at = "state"
                 /\ x.at = "state" => y.at = "graph"
                 /\ x.at = "graph" => y.at = "register"
            /\ x.command = "bootstrap" =>
                 \/ y = Setup!Idle
                 \/ y \in Laying /\ Staged(y) /\ y.command = "bootstrap" /\ y.checkout = x.checkout /\ y.at # "save"
<1> DEFINE x == setups[p]
           y == Setup!After(x)
           next == Setup!Order[x.command][x.at]
<1>1. x \in Laying /\ Staged(x) /\ x.at \in Setup!FileNames
  BY DEF SetupTypes, Saving, Setup!FileNames
<1>2. x.command \in {"setup", "bootstrap"} /\ x.name \in Names /\ x.head \in 0..MaxHead /\ 0 \in 0..MaxHead
  BY <1>1, SetupAssumption DEF Laying, Staged, Setup!FileNames
<1>3. /\ Setup!ContentOf(x) \in Setup!Texts
      /\ Setup!ContentOf(x) = IF x.at = "binding" THEN Mark(x) ELSE Own(x)
  BY <1>2 DEF Setup!ContentOf, Setup!Texts, Mark, Own
<1>4. y = IF next = "done" THEN Setup!Idle ELSE [x EXCEPT !.at = next]
  BY DEF Setup!After
<1>5. ASSUME x.command = "setup"
      PROVE  /\ next \in Layers /\ next # "done"
             /\ x.at = "binding" => next = "manifest"
             /\ x.at = "manifest" => next = "state"
             /\ x.at = "state" => next = "graph"
             /\ x.at = "graph" => next = "register"
  BY <1>1, <1>5 DEF Setup!Order, Setup!FileNames, Layers
<1>6. ASSUME x.command = "bootstrap"
      PROVE  next \in {"done", "binding", "state"}
  BY <1>1, <1>6 DEF Setup!Order, Setup!FileNames, Staged
<1>7. ASSUME NEW a \in Layers
      PROVE  LET z == [x EXCEPT !.at = a] IN
             z \in Laying /\ z.at = a /\ z.command = x.command /\ z.checkout = x.checkout /\ Mark(z) = Mark(x) /\ Own(z) = Own(x)
  BY <1>1 DEF Laying, Mark, Own
<1> HIDE DEF x, next
<1>8. CASE x.command = "setup"
  <2>1. y = [x EXCEPT !.at = next] /\ next \in Layers
    BY <1>4, <1>5, <1>8
  <2>2. y \in Laying /\ y.at = next /\ y.command = "setup" /\ y.checkout = x.checkout /\ Mark(y) = Mark(x) /\ Own(y) = Own(x)
    BY <1>7, <1>8, <2>1
  <2>3. QED
    BY <1>1, <1>2, <1>3, <1>5, <1>8, <2>2 DEF x
<1>9. CASE x.command = "bootstrap"
  <2>1. CASE next = "done"
    BY <1>1, <1>2, <1>3, <1>4, <1>9, <2>1 DEF x
  <2>2. CASE next \in {"binding", "state"}
    <3>1. y = [x EXCEPT !.at = next] /\ next \in Layers
      BY <1>4, <2>2 DEF Layers
    <3>2. y \in Laying /\ y.at = next /\ y.command = "bootstrap" /\ y.checkout = x.checkout
      BY <1>7, <1>9, <3>1
    <3>3. Staged(y) /\ y.at # "save"
      BY <2>2, <3>2 DEF Staged
    <3>4. QED
      BY <1>1, <1>2, <1>3, <1>9, <3>2, <3>3 DEF x
  <2>3. QED
    BY <1>6, <1>9, <2>1, <2>2
<1>10. QED
  BY <1>2, <1>8, <1>9

(* One file of a checkout is written.                                      *)
LEMMA FileIsWritten ==
  ASSUME SetupTypes, NEW c \in Checkouts, NEW f \in Setup!FileNames, NEW v \in Setup!Texts \cup {None, Setup!Torn},
         layouts' = [layouts EXCEPT ![c][f] = v]
  PROVE  /\ layouts' \in [Checkouts -> [Setup!FileNames -> Setup!Texts \cup {None, Setup!Torn}]]
         /\ layouts'[c][f] = v /\ \A g \in Setup!FileNames \ {f} : layouts'[c][g] = layouts[c][g]
         /\ \A d \in Checkouts \ {c} : layouts'[d] = layouts[d]
<1>1. layouts' = [layouts EXCEPT ![c] = [layouts[c] EXCEPT ![f] = v]]
  OBVIOUS
<1>2. layouts[c] \in [Setup!FileNames -> Setup!Texts \cup {None, Setup!Torn}]
  BY DEF SetupTypes
<1>3. [layouts[c] EXCEPT ![f] = v] \in [Setup!FileNames -> Setup!Texts \cup {None, Setup!Torn}]
  BY <1>2
<1>4. layouts'[c] = [layouts[c] EXCEPT ![f] = v] /\ \A d \in Checkouts \ {c} : layouts'[d] = layouts[d]
  BY <1>1 DEF SetupTypes
<1>5. layouts' \in [Checkouts -> [Setup!FileNames -> Setup!Texts \cup {None, Setup!Torn}]]
  BY <1>1, <1>3 DEF SetupTypes
<1>6. QED
  BY <1>2, <1>4, <1>5

(* A whole content that a setup finds, or writes, keeps what follows.       *)
LEMMA FollowsStill ==
  ASSUME NEW old, NEW new, NEW f \in Setup!FileNames, NEW x \in Laying, x.at = f,
         Follows(old), old.manifest \in Setup!Texts \cup {None, Setup!Torn}, old[f] = None,
         new[f] = IF f = "binding" THEN Mark(x) ELSE Own(x),
         \A g \in Setup!FileNames \ {f} : new[g] = old[g],
         f \in {"manifest", "state", "graph"} => old.binding = Mark(x),
         f \in {"state", "graph"} => old.manifest = Own(x),
         f = "graph" => old.state = Own(x)
  PROVE  Follows(new)
<1>1. ~Whole(None) /\ Own(x).name = x.name
  BY DEF Whole, Own
<1>2. CASE f = "binding"
  <2>1. new.manifest = old.manifest /\ new.state = old.state /\ new.graph = old.graph
    BY <1>2 DEF Setup!FileNames
  <2>2. ASSUME Whole(old.manifest) PROVE FALSE
    <3>1. old.manifest \in Setup!Texts
      BY <2>2 DEF Whole
    <3>2. [name |-> old.manifest.name, head |-> 0] \in Setup!Texts
      BY <3>1, SetupAssumption DEF Setup!Texts
    <3>3. [name |-> old.manifest.name, head |-> 0] # None
      BY <3>2, ContentsAre DEF Whole
    <3>4. QED
      BY <1>2, <2>2, <3>3 DEF Follows
  <2>3. QED
    BY <2>1, <2>2 DEF Follows
<1>3. CASE f = "manifest"
  <2>1. new.binding = old.binding /\ new.state = old.state /\ new.graph = old.graph /\ new.manifest = Own(x)
    BY <1>3 DEF Setup!FileNames
  <2>2. ~Whole(old.state)
    BY <1>1, <1>3 DEF Follows
  <2>3. old.binding = [name |-> new.manifest.name, head |-> 0]
    BY <1>1, <1>3, <2>1 DEF Mark
  <2>4. QED
    BY <2>1, <2>2, <2>3 DEF Follows
<1>4. CASE f = "state"
  <2>1. new.binding = old.binding /\ new.manifest = old.manifest /\ new.graph = old.graph /\ new.state = Own(x)
    BY <1>4 DEF Setup!FileNames
  <2>2. ~Whole(old.graph)
    BY <1>1, <1>4 DEF Follows
  <2>3. new.manifest = new.state
    BY <1>4, <2>1
  <2>4. QED
    BY <2>1, <2>2, <2>3 DEF Follows
<1>5. CASE f = "graph"
  <2>1. new.binding = old.binding /\ new.manifest = old.manifest /\ new.state = old.state /\ new.graph = Own(x)
    BY <1>5 DEF Setup!FileNames
  <2>2. new.state = new.graph
    BY <1>5, <2>1
  <2>3. QED
    BY <2>1, <2>2 DEF Follows
<1>6. QED
  BY <1>2, <1>3, <1>4, <1>5 DEF Setup!FileNames

LEMMA LayOutKeeps ==
  ASSUME SetupInv, NEW p \in Processes, Setup!Write(p)
  PROVE  SetupInv'
<1> DEFINE x == setups[p]
           y == Setup!After(x)
           f == x.at
           c == x.checkout
           v == Setup!ContentOf(x)
<1>1. /\ x # Setup!Idle /\ f \in Setup!FileNames /\ Setup!MayWrite(x)
      /\ layouts' = [layouts EXCEPT ![c][f] = v] /\ Setup!Goes(p, y) /\ UNCHANGED <<heads, registry, inTurn>>
  BY DEF Setup!Write
<1>2. SetupTypes
  BY DEF SetupInv
<1>3. /\ x \in Laying /\ x.command \in {"setup", "bootstrap"} /\ v \in Setup!Texts
      /\ v = IF f = "binding" THEN Mark(x) ELSE Own(x)
      /\ x.command = "setup" =>
           /\ y \in Laying /\ y.command = "setup" /\ y.checkout = c /\ Mark(y) = Mark(x) /\ Own(y) = Own(x)
           /\ f = "binding" => y.at = "manifest"
           /\ f = "manifest" => y.at = "state"
           /\ f = "state" => y.at = "graph"
           /\ f = "graph" => y.at = "register"
      /\ x.command = "bootstrap" =>
           \/ y = Setup!Idle
           \/ y \in Laying /\ Staged(y) /\ y.command = "bootstrap" /\ y.checkout = c /\ y.at # "save"
  BY <1>1, <1>2, WritersAre
<1>4. x.command = "setup" => layouts[c][f] \in {None, v}
  BY <1>1 DEF Setup!MayWrite
<1>5. c \in Checkouts
  BY <1>3 DEF Laying
<1> HIDE DEF x, y, v
<1>6. y \in {Setup!Idle} \cup Laying \cup Saving /\ (y # Setup!Idle => Staged(y))
  <2>1. CASE x.command = "setup"
    BY <1>1, <1>3, <2>1 DEF Staged, Setup!FileNames
  <2>2. QED
    BY <1>3, <2>1
<1>7. /\ setups' \in [Processes -> {Setup!Idle} \cup Laying \cup Saving]
      /\ setups'[p] = y /\ \A q \in Processes \ {p} : setups'[q] = setups[q]
      /\ \A q \in Processes : setups'[q] # Setup!Idle => Staged(setups'[q])
  BY <1>1, <1>2, <1>6, GoesAre
<1>8. /\ layouts' \in [Checkouts -> [Setup!FileNames -> Setup!Texts \cup {None, Setup!Torn}]]
      /\ layouts'[c][f] = v /\ \A g \in Setup!FileNames \ {f} : layouts'[c][g] = layouts[c][g]
      /\ \A d \in Checkouts \ {c} : layouts'[d] = layouts[d]
  <2>1. f \in Setup!FileNames /\ v \in Setup!Texts \cup {None, Setup!Torn} /\ layouts' = [layouts EXCEPT ![c][f] = v]
    BY <1>1, <1>3
  <2> HIDE DEF f, c
  <2>2. QED
    BY <1>2, <1>5, <2>1, FileIsWritten
<1>9. SetupTypes'
  BY <1>1, <1>2, <1>7, <1>8 DEF SetupTypes
<1>10. ASSUME inTurn PROVE Exclusive'
  <2>1. Exclusive /\ Proceeds(x, heads, layouts, registry)
    BY <1>1, <1>10 DEF SetupInv, Exclusive, x
  <2>2. ASSUME NEW n \in Names, registry'[n] # None PROVE IsBoundTo(layouts'[registry'[n].checkout], n)
    <3>1. registry'[n] = registry[n] /\ registry[n].checkout \in Checkouts /\ IsBoundTo(layouts[registry[n].checkout], n)
      BY <1>1, <1>2, <2>1, <2>2 DEF Exclusive, SetupTypes, Entries, Owners
    <3>2. CASE registry[n].checkout # c
      BY <1>8, <3>1, <3>2
    <3>3. CASE registry[n].checkout = c
      <4>1. x.command = "setup" /\ IsBoundTo(layouts[c], n)
        BY <1>1, <1>3, <2>1, <2>2, <3>1, <3>3 DEF Proceeds
      <4>2. \A g \in {"binding", "state"} : layouts'[c][g] = layouts[c][g]
        <5>1. layouts[c].binding # None /\ layouts[c].state # None
          BY <4>1 DEF IsBoundTo
        <5>2. ASSUME NEW g \in {"binding", "state"} PROVE layouts'[c][g] = layouts[c][g]
          <6>1. CASE g = f
            BY <1>4, <1>8, <4>1, <5>1, <6>1
          <6>2. CASE g # f
            BY <1>8, <6>2 DEF Setup!FileNames
          <6>3. QED
            BY <6>1, <6>2
        <5>3. QED
          BY <5>2
      <4>3. layouts'[c].binding = layouts[c].binding /\ layouts'[c].state = layouts[c].state
        BY <4>2
      <4>4. QED
        BY <3>1, <3>3, <4>1, <4>3 DEF IsBoundTo
    <3>4. QED
      BY <3>2, <3>3
  <2>3. ASSUME NEW d \in Checkouts, heads'[d] > 0 PROVE Follows(layouts'[d])
    <3>1. heads[d] > 0 /\ Follows(layouts[d])
      BY <1>1, <2>1, <2>3 DEF Exclusive
    <3>2. CASE d # c
      BY <1>8, <3>1, <3>2
    <3>3. CASE d = c
      <4>1. x.command = "setup"
        <5>1. x.command = "bootstrap" => heads[c] = 0
          BY <2>1 DEF Proceeds
        <5>2. QED
          BY <1>3, <3>1, <3>3, <5>1
      <4>2. CASE layouts[c][f] = v
        <5>1. \A g \in Setup!FileNames : layouts'[c][g] = layouts[c][g]
          BY <1>8, <4>2
        <5>2. /\ layouts'[c].binding = layouts[c].binding /\ layouts'[c].manifest = layouts[c].manifest
              /\ layouts'[c].state = layouts[c].state /\ layouts'[c].graph = layouts[c].graph
          BY <5>1 DEF Setup!FileNames
        <5>3. QED
          BY <3>1, <3>3, <5>2 DEF Follows
      <4>3. CASE layouts[c][f] = None
        <5>1. /\ f \in {"manifest", "state", "graph"} => layouts[c].binding = Mark(x)
              /\ f \in {"state", "graph"} => layouts[c].manifest = Own(x)
              /\ f = "graph" => layouts[c].state = Own(x)
          BY <2>1, <4>1 DEF Proceeds
        <5>2. layouts'[c][f] = IF f = "binding" THEN Mark(x) ELSE Own(x)
          BY <1>3, <1>8
        <5>3. layouts[c].manifest \in Setup!Texts \cup {None, Setup!Torn}
          BY <1>2, <1>5 DEF SetupTypes, Setup!FileNames
        <5>4. QED
          BY <1>1, <1>3, <1>8, <3>1, <3>3, <4>3, <5>1, <5>2, <5>3, FollowsStill
      <4>4. QED
        BY <1>4, <4>1, <4>2, <4>3
    <3>4. QED
      BY <3>2, <3>3
  <2>4. ASSUME y # Setup!Idle PROVE Proceeds(y, heads', layouts', registry')
    <3>1. CASE x.command = "setup"
      <4>1. /\ y.command = "setup" /\ y.checkout = c /\ Mark(y) = Mark(x) /\ Own(y) = Own(x) /\ heads'[c] > 0
            /\ y.at \in {"manifest", "state", "graph", "register"}
        <5>1. heads[c] > 0
          BY <2>1, <3>1 DEF Proceeds
        <5>2. QED
          BY <1>1, <1>3, <3>1, <5>1 DEF Setup!FileNames
      <4>2. layouts'[c].binding = Mark(x)
        BY <1>1, <1>3, <1>8, <2>1, <3>1 DEF Proceeds, Setup!FileNames
      <4>3. y.at \in {"state", "graph", "register"} => layouts'[c].manifest = Own(x)
        BY <1>1, <1>3, <1>8, <2>1, <3>1 DEF Proceeds, Setup!FileNames
      <4>4. y.at \in {"graph", "register"} => layouts'[c].state = Own(x)
        BY <1>1, <1>3, <1>8, <2>1, <3>1 DEF Proceeds, Setup!FileNames
      <4>5. QED
        BY <4>1, <4>2, <4>3, <4>4 DEF Proceeds
    <3>2. CASE x.command = "bootstrap"
      <4>1. y.command = "bootstrap" /\ y.checkout = c /\ y.at # "save"
        BY <1>3, <2>4, <3>2
      <4>2. heads'[c] = 0 /\ \A n \in Names : registry'[n] # None => registry'[n].checkout # c
        BY <1>1, <2>1, <3>2 DEF Proceeds
      <4>3. QED
        BY <4>1, <4>2 DEF Proceeds
    <3>3. QED
      BY <1>3, <3>1, <3>2
  <2>5. setups[p] # Setup!Idle
    BY <1>1 DEF x
  <2>6. QED
    BY <1>2, <1>7, <2>1, <2>2, <2>3, <2>4, <2>5, OthersWait
<1>11. QED
  BY <1>1, <1>9, <1>10 DEF SetupInv

(* A file that was not there and is torn takes nothing from what follows.   *)
LEMMA TornFollows ==
  ASSUME NEW old, NEW new, NEW f \in Setup!FileNames,
         Follows(old), old.manifest \in Setup!Texts \cup {None, Setup!Torn}, old[f] = None,
         new[f] = Setup!Torn, \A g \in Setup!FileNames \ {f} : new[g] = old[g]
  PROVE  Follows(new)
<1>1. ~Whole(None) /\ ~Whole(Setup!Torn)
  BY DEF Whole
<1>2. CASE f = "binding"
  <2>1. new.manifest = old.manifest /\ new.state = old.state /\ new.graph = old.graph
    BY <1>2 DEF Setup!FileNames
  <2>2. ASSUME Whole(old.manifest) PROVE FALSE
    <3>1. old.manifest \in Setup!Texts
      BY <2>2 DEF Whole
    <3>2. [name |-> old.manifest.name, head |-> 0] \in Setup!Texts
      BY <3>1, SetupAssumption DEF Setup!Texts
    <3>3. [name |-> old.manifest.name, head |-> 0] # None
      BY <3>2, ContentsAre DEF Whole
    <3>4. QED
      BY <1>2, <2>2, <3>3 DEF Follows
  <2>3. QED
    BY <2>1, <2>2 DEF Follows
<1>3. CASE f = "manifest"
  <2>1. new.binding = old.binding /\ new.state = old.state /\ new.graph = old.graph /\ ~Whole(new.manifest) /\ ~Whole(old.state)
    BY <1>1, <1>3 DEF Setup!FileNames, Follows
  <2>2. QED
    BY <2>1 DEF Follows
<1>4. CASE f = "state"
  <2>1. new.binding = old.binding /\ new.manifest = old.manifest /\ new.graph = old.graph /\ ~Whole(new.state) /\ ~Whole(old.graph)
    BY <1>1, <1>4 DEF Setup!FileNames, Follows
  <2>2. QED
    BY <2>1 DEF Follows
<1>5. CASE f = "graph"
  <2>1. new.binding = old.binding /\ new.manifest = old.manifest /\ new.state = old.state /\ ~Whole(new.graph)
    BY <1>1, <1>5 DEF Setup!FileNames
  <2>2. QED
    BY <2>1 DEF Follows
<1>6. QED
  BY <1>2, <1>3, <1>4, <1>5 DEF Setup!FileNames

(* A process that ends, whatever becomes of the checkout it was at.         *)
LEMMA StopsKeep ==
  ASSUME SetupInv, NEW p \in Processes, setups[p] # Setup!Idle, Setup!Goes(p, Setup!Idle),
         UNCHANGED <<heads, registry, inTurn>>,
         layouts' \in [Checkouts -> [Setup!FileNames -> Setup!Texts \cup {None, Setup!Torn}]],
         \A d \in Checkouts \ {setups[p].checkout} : layouts'[d] = layouts[d],
         inTurn => \/ layouts' = layouts
                   \/ setups[p].command = "bootstrap"
                   \/ /\ \A n \in Names : IsBoundTo(layouts[setups[p].checkout], n) => IsBoundTo(layouts'[setups[p].checkout], n)
                      /\ Follows(layouts[setups[p].checkout]) => Follows(layouts'[setups[p].checkout])
  PROVE  SetupInv'
<1> DEFINE x == setups[p]
           c == x.checkout
<1>1. SetupTypes /\ Setup!Idle \in {Setup!Idle} \cup Laying \cup Saving
  BY DEF SetupInv
<1>2. /\ setups' \in [Processes -> {Setup!Idle} \cup Laying \cup Saving]
      /\ setups'[p] = Setup!Idle /\ \A q \in Processes \ {p} : setups'[q] = setups[q]
      /\ \A q \in Processes : setups'[q] # Setup!Idle => Staged(setups'[q])
  BY <1>1, GoesAre
<1>3. SetupTypes'
  BY <1>1, <1>2 DEF SetupTypes
<1>4. ASSUME inTurn PROVE Exclusive'
  <2>1. Exclusive /\ Proceeds(x, heads, layouts, registry)
    BY <1>4 DEF SetupInv, Exclusive
  <2>2. ASSUME NEW n \in Names, registry'[n] # None PROVE IsBoundTo(layouts'[registry'[n].checkout], n)
    <3>1. registry'[n] = registry[n] /\ registry[n].checkout \in Checkouts /\ IsBoundTo(layouts[registry[n].checkout], n)
      BY <1>1, <2>1, <2>2 DEF Exclusive, SetupTypes, Entries, Owners
    <3>2. CASE registry[n].checkout = c
      <4>1. ~(x.command = "bootstrap")
        BY <2>1, <2>2, <3>1, <3>2 DEF Proceeds
      <4>2. QED
        BY <1>4, <3>1, <3>2, <4>1
    <3>3. QED
      BY <3>1, <3>2
  <2>3. ASSUME NEW d \in Checkouts, heads'[d] > 0 PROVE Follows(layouts'[d])
    <3>1. heads[d] > 0 /\ Follows(layouts[d])
      BY <2>1, <2>3 DEF Exclusive
    <3>2. CASE d = c
      <4>1. ~(x.command = "bootstrap")
        <5>1. heads[d] # 0
          BY <1>1, <3>1, SetupAssumption DEF SetupTypes
        <5>2. QED
          BY <2>1, <3>2, <5>1 DEF Proceeds
      <4>2. QED
        BY <1>4, <3>1, <3>2, <4>1
    <3>3. QED
      BY <3>1, <3>2
  <2>4. QED
    BY <1>1, <1>2, <2>1, <2>2, <2>3, OthersWait
<1>5. QED
  BY <1>3, <1>4 DEF SetupInv

LEMMA FailKeeps ==
  ASSUME SetupInv, NEW p \in Processes, Setup!Fail(p)
  PROVE  SetupInv'
<1>1. /\ setups[p] # Setup!Idle /\ Setup!Goes(p, Setup!Idle) /\ UNCHANGED <<heads, registry, inTurn>>
      /\ layouts' = IF setups[p].command = "bootstrap" THEN [layouts EXCEPT ![setups[p].checkout] = Setup!NoFiles] ELSE layouts
  BY DEF Setup!Fail
<1>2. Setup!NoFiles \in [Setup!FileNames -> Setup!Texts \cup {None, Setup!Torn}]
  BY DEF Setup!NoFiles
<1>3. /\ layouts' \in [Checkouts -> [Setup!FileNames -> Setup!Texts \cup {None, Setup!Torn}]]
      /\ \A d \in Checkouts \ {setups[p].checkout} : layouts'[d] = layouts[d]
  BY <1>1, <1>2 DEF SetupInv, SetupTypes
<1>4. layouts' = layouts \/ setups[p].command = "bootstrap"
  BY <1>1
<1>5. QED
  BY <1>1, <1>3, <1>4, StopsKeep

LEMMA KilledKeeps ==
  ASSUME SetupInv, NEW p \in Processes, Setup!Killed(p)
  PROVE  SetupInv'
<1> DEFINE x == setups[p]
           f == x.at
           c == x.checkout
<1>1. x # Setup!Idle /\ Setup!Goes(p, Setup!Idle) /\ UNCHANGED <<heads, registry, inTurn>> /\ SetupTypes
  BY DEF Setup!Killed, SetupInv
<1>2. \/ layouts' = layouts
      \/ /\ f \in Setup!FileNames /\ (layouts[c][f] = None \/ x.command = "bootstrap")
         /\ layouts' = [layouts EXCEPT ![c][f] = Setup!Torn]
  BY DEF Setup!Killed
<1>3. CASE layouts' = layouts
  BY <1>1, <1>3, StopsKeep DEF SetupTypes
<1>4. CASE /\ f \in Setup!FileNames /\ (layouts[c][f] = None \/ x.command = "bootstrap")
           /\ layouts' = [layouts EXCEPT ![c][f] = Setup!Torn]
  <2>1. c \in Checkouts
    BY <1>1 DEF SetupTypes, Laying, Saving
  <2>2. /\ layouts' \in [Checkouts -> [Setup!FileNames -> Setup!Texts \cup {None, Setup!Torn}]]
        /\ layouts'[c][f] = Setup!Torn /\ \A g \in Setup!FileNames \ {f} : layouts'[c][g] = layouts[c][g]
        /\ \A d \in Checkouts \ {c} : layouts'[d] = layouts[d]
    BY <1>1, <1>4, <2>1, FileIsWritten
  <2>3. CASE x.command = "bootstrap"
    BY <1>1, <2>2, <2>3, StopsKeep
  <2>4. CASE layouts[c][f] = None
    <3>1. ASSUME Follows(layouts[c]) PROVE Follows(layouts'[c])
      <4>1. layouts[c].manifest \in Setup!Texts \cup {None, Setup!Torn}
        BY <1>1, <2>1 DEF SetupTypes, Setup!FileNames
      <4>2. QED
        BY <1>4, <2>2, <2>4, <3>1, <4>1, TornFollows
    <3>2. ASSUME NEW n \in Names, IsBoundTo(layouts[c], n) PROVE IsBoundTo(layouts'[c], n)
      <4>1. f # "binding" /\ f # "state"
        BY <2>4, <3>2 DEF IsBoundTo
      <4>2. layouts'[c].binding = layouts[c].binding /\ layouts'[c].state = layouts[c].state
        BY <2>2, <4>1 DEF Setup!FileNames
      <4>3. QED
        BY <3>2, <4>2 DEF IsBoundTo
    <3>3. QED
      BY <1>1, <2>2, <3>1, <3>2, StopsKeep
  <2>5. QED
    BY <1>4, <2>3, <2>4
<1>5. QED
  BY <1>2, <1>3, <1>4

LEMMA LoadRegistryKeeps ==
  ASSUME SetupInv, NEW p \in Processes, Setup!LoadRegistry(p)
  PROVE  SetupInv'
<1> DEFINE x == setups[p]
           y == [at |-> "save", command |-> "register", checkout |-> x.checkout, name |-> x.name, read |-> registry]
<1>1. /\ x # Setup!Idle /\ x.at = "register" /\ Setup!Goes(p, y) /\ UNCHANGED <<heads, layouts, registry, inTurn>>
      /\ Setup!IsBound(x.checkout, x.name) /\ Setup!MayRegister(x.checkout, x.name)
  BY DEF Setup!LoadRegistry
<1>2. SetupTypes /\ x.checkout \in Checkouts /\ x.name \in Names
  BY <1>1 DEF SetupInv, SetupTypes, Laying, Saving
<1>3. y \in Saving /\ Staged(y)
  BY <1>2 DEF Saving, Staged, SetupTypes
<1>4. /\ setups' \in [Processes -> {Setup!Idle} \cup Laying \cup Saving]
      /\ setups'[p] = y /\ \A q \in Processes \ {p} : setups'[q] = setups[q]
      /\ \A q \in Processes : setups'[q] # Setup!Idle => Staged(setups'[q])
  <2> HIDE DEF y
  <2>1. QED
    BY <1>1, <1>2, <1>3, GoesAre
<1>5. SetupTypes'
  BY <1>1, <1>2, <1>4 DEF SetupTypes
<1>6. Proceeds(y, heads, layouts, registry)
  BY <1>1 DEF Proceeds, Setup!IsBound, Setup!MayRegister, IsBoundTo
<1>7. ASSUME inTurn PROVE Exclusive'
  <2>1. Exclusive
    BY <1>7 DEF SetupInv
  <2>2. /\ \A n \in Names : registry'[n] # None => IsBoundTo(layouts'[registry'[n].checkout], n)
        /\ \A c \in Checkouts : heads'[c] > 0 => Follows(layouts'[c])
        /\ Proceeds(y, heads', layouts', registry')
    BY <1>1, <1>6, <2>1 DEF Exclusive
  <2> HIDE DEF y
  <2>3. QED
    BY <1>1, <1>2, <1>4, <2>1, <2>2, OthersWait
<1>8. QED
  BY <1>1, <1>5, <1>7 DEF SetupInv

(* The registry is written; a process that is alone has read it as it is.   *)
LEMMA RegistryIsSaved ==
  ASSUME SetupInv, NEW p \in Processes, Setup!SaveRegistry(p)
  PROVE  LET x     == setups[p]
             owner == [checkout |-> x.checkout, name |-> x.name]
         IN /\ x # Setup!Idle /\ x.checkout \in Checkouts /\ x.name \in Names /\ owner \in Owners
            /\ registry' \in Entries /\ registry'[x.name] = owner
            /\ inTurn => /\ \A n \in Names \ {x.name} : registry'[n] = registry[n]
                         /\ IsBoundTo(layouts[x.checkout], x.name) /\ registry[x.name] \in {None, owner}
<1> DEFINE x     == setups[p]
           owner == [checkout |-> x.checkout, name |-> x.name]
<1>1. x # Setup!Idle /\ x.at = "save" /\ registry' = [x.read EXCEPT ![x.name] = owner] /\ SetupTypes
  BY DEF Setup!SaveRegistry, SetupInv
<1>2. x \in Saving
  BY <1>1 DEF SetupTypes, Laying, Layers
<1>3. x.checkout \in Checkouts /\ x.name \in Names /\ x.read \in Entries /\ owner \in Owners
  BY <1>2 DEF Saving, Owners
<1>4. registry' \in Entries /\ registry'[x.name] = owner /\ \A n \in Names \ {x.name} : registry'[n] = x.read[n]
  <2> HIDE DEF owner, x
  <2>1. QED
    BY <1>1, <1>3 DEF Entries
<1>5. ASSUME inTurn PROVE x.read = registry /\ IsBoundTo(layouts[x.checkout], x.name) /\ registry[x.name] \in {None, owner}
  BY <1>1, <1>5 DEF SetupInv, Exclusive, Proceeds
<1>6. QED
  BY <1>1, <1>3, <1>4, <1>5

LEMMA SaveRegistryKeeps ==
  ASSUME SetupInv, NEW p \in Processes, Setup!SaveRegistry(p)
  PROVE  SetupInv'
<1> DEFINE x     == setups[p]
           owner == [checkout |-> x.checkout, name |-> x.name]
<1>1. /\ x # Setup!Idle /\ x.checkout \in Checkouts /\ x.name \in Names /\ owner \in Owners
      /\ registry' \in Entries /\ registry'[x.name] = owner
      /\ inTurn => /\ \A n \in Names \ {x.name} : registry'[n] = registry[n]
                   /\ IsBoundTo(layouts[x.checkout], x.name) /\ registry[x.name] \in {None, owner}
  BY RegistryIsSaved
<1>2. Setup!Goes(p, Setup!Idle) /\ UNCHANGED <<heads, layouts, inTurn>> /\ SetupTypes /\ x # Setup!Idle
      /\ Setup!Idle \in {Setup!Idle} \cup Laying \cup Saving
  BY DEF Setup!SaveRegistry, SetupInv
<1>3. /\ setups' \in [Processes -> {Setup!Idle} \cup Laying \cup Saving]
      /\ setups'[p] = Setup!Idle /\ \A q \in Processes \ {p} : setups'[q] = setups[q]
      /\ \A q \in Processes : setups'[q] # Setup!Idle => Staged(setups'[q])
  BY <1>2, GoesAre
<1>4. SetupTypes'
  BY <1>1, <1>2, <1>3 DEF SetupTypes
<1>5. ASSUME inTurn PROVE Exclusive'
  <2>1. Exclusive
    BY <1>5 DEF SetupInv
  <2>2. ASSUME NEW n \in Names, registry'[n] # None PROVE IsBoundTo(layouts'[registry'[n].checkout], n)
    <3>1. CASE n = x.name
      BY <1>1, <1>2, <1>5, <3>1
    <3>2. CASE n # x.name
      BY <1>1, <1>2, <1>5, <2>1, <2>2, <3>2 DEF Exclusive
    <3>3. QED
      BY <3>1, <3>2
  <2>3. \A c \in Checkouts : heads'[c] > 0 => Follows(layouts'[c])
    BY <1>2, <2>1 DEF Exclusive
  <2>4. QED
    BY <1>2, <1>3, <2>1, <2>2, <2>3, OthersWait
<1>6. QED
  BY <1>2, <1>4, <1>5 DEF SetupInv

LEMMA SetupStep ==
  ASSUME SetupInv, [Setup!Next]_(Setup!vars)
  PROVE  SetupInv'
<1>1. ASSUME NEW c \in Checkouts, Setup!Commit(c) PROVE SetupInv'
  BY <1>1, CommitKeeps
<1>2. ASSUME NEW p \in Processes, NEW c \in Checkouts, NEW n \in Names,
             Setup!StartSetup(p, c, n) \/ Setup!StartBootstrap(p, c, n) \/ Setup!StartRegister(p, c, n)
      PROVE  SetupInv'
  BY <1>2, StartsKeep
<1>3. ASSUME NEW p \in Processes,
             Setup!Write(p) \/ Setup!Fail(p) \/ Setup!Killed(p) \/ Setup!LoadRegistry(p) \/ Setup!SaveRegistry(p)
      PROVE  SetupInv'
  BY <1>3, LayOutKeeps, FailKeeps, KilledKeeps, LoadRegistryKeeps, SaveRegistryKeeps
<1>4. CASE UNCHANGED Setup!vars
  BY <1>4 DEF Setup!vars, SetupInv, SetupTypes, Exclusive
<1>5. QED
  BY <1>1, <1>2, <1>3, <1>4 DEF Setup!Next

(* No step of a process that is alone gives a registered name away.         *)
LEMMA NamesStay ==
  ASSUME SetupInv, [Setup!Next]_(Setup!vars)
  PROVE  [inTurn => Setup!Stay]_(Setup!vars)
<1>1. ASSUME NEW p \in Processes, Setup!SaveRegistry(p), inTurn PROVE Setup!Stay
  <2> DEFINE x     == setups[p]
             owner == [checkout |-> x.checkout, name |-> x.name]
  <2>1. /\ registry'[x.name] = owner /\ registry[x.name] \in {None, owner}
        /\ \A n \in Names \ {x.name} : registry'[n] = registry[n]
    BY <1>1, RegistryIsSaved
  <2>2. QED
    BY <2>1 DEF Setup!Stay
<1>2. CASE UNCHANGED registry
  BY <1>2 DEF Setup!Stay
<1>3. \/ UNCHANGED registry
      \/ \E p \in Processes : Setup!SaveRegistry(p)
  BY DEF Setup!Next, Setup!vars, Setup!Commit, Setup!StartSetup, Setup!StartBootstrap, Setup!StartRegister,
         Setup!Write, Setup!Fail, Setup!Killed, Setup!LoadRegistry
<1>4. QED
  BY <1>1, <1>2, <1>3

LEMMA SetupIsWhole ==
  ASSUME SetupInv
  PROVE  Setup!TypeOK /\ Setup!RegistrationsLast /\ Setup!LayoutsAreOfOneCommit
<1>1. Setup!TypeOK
  BY DEF SetupInv, SetupTypes, Setup!TypeOK, Entries, Owners
<1>2. Setup!RegistrationsLast
  BY DEF SetupInv, Exclusive, Setup!RegistrationsLast, Setup!AreBound, Setup!IsBound, IsBoundTo
<1>3. ASSUME inTurn, NEW c \in Checkouts, heads[c] > 0,
             NEW f \in Setup!FileNames \ {"binding"}, NEW g \in Setup!FileNames \ {"binding"},
             {layouts[c][f], layouts[c][g]} \cap {None, Setup!Torn} = {}
      PROVE  /\ layouts[c][f] = layouts[c][g]
             /\ layouts[c].binding \notin {None, Setup!Torn} /\ layouts[c].binding.name = layouts[c][f].name
  <2> DEFINE l == layouts[c]
  <2>1. Follows(l) /\ Whole(l[f]) /\ Whole(l[g]) /\ l \in [Setup!FileNames -> Setup!Texts \cup {None, Setup!Torn}]
    BY <1>3 DEF SetupInv, SetupTypes, Exclusive, Whole
  <2> HIDE DEF l
  <2>2. /\ f \in {"manifest", "state", "graph"} /\ g \in {"manifest", "state", "graph"}
        /\ l.manifest \in Setup!Texts \cup {None, Setup!Torn}
    BY <2>1 DEF Setup!FileNames
  <2>3. l[f] = l.manifest /\ l[g] = l.manifest
    BY <2>1, <2>2 DEF Follows
  <2>4. l.manifest \in Setup!Texts /\ l.binding = [name |-> l.manifest.name, head |-> 0]
    BY <2>1, <2>2, <2>3 DEF Follows, Whole
  <2>5. l.binding \in Setup!Texts /\ l.binding.name = l.manifest.name
    BY <2>4, SetupAssumption DEF Setup!Texts
  <2>6. Whole(l.binding)
    BY <2>5, ContentsAre
  <2>7. QED
    BY <2>3, <2>5, <2>6 DEF Whole, l
<1>4. Setup!LayoutsAreOfOneCommit
  <2>1. SUFFICES ASSUME inTurn, NEW c \in Checkouts, heads[c] > 0,
                        NEW f \in Setup!FileNames \ {"binding"}, NEW g \in Setup!FileNames \ {"binding"},
                        {layouts[c][f], layouts[c][g]} \cap {None, Setup!Torn} = {}
                 PROVE  /\ layouts[c][f] = layouts[c][g]
                        /\ layouts[c].binding \notin {None, Setup!Torn} /\ layouts[c].binding.name = layouts[c][f].name
    BY DEF Setup!LayoutsAreOfOneCommit
  <2>2. QED
    BY <1>3, <2>1
<1>5. QED
  BY <1>1, <1>2, <1>4

---------------------------------------------------------------------------
(* The runtime's home.                                                     *)
Installer == [at : Home!Files \cup {"idle", "marker", "audit"}, command : Home!Commands \cup {"none"},
              previous : Nat, created : SUBSET Home!Files]

(* What a process read of the home, and of the audit journal, is bounded   *)
(* by the n upgrades so far and by what the journal accepts.               *)
Counted(x, n) ==
  /\ x.command = "install" => x.previous = 0
  /\ x.command \in {"upgrade", "repair"} => x.previous <= n
  /\ x.at # "audit" => x.previous <= n + 1
  /\ x.at = "audit" => x.previous <= AuditBudget
  /\ x.at \in Home!Files => x.command \in {"install", "repair", "upgrade"}
  /\ x.at = "marker" => x.command \in Home!Commands
  /\ x.command = "rollback" /\ x.at = "marker" => x.previous > 1

HomeTypes ==
  /\ home \in [files : SUBSET Home!Files, marker : Nat]
  /\ home.marker <= upgrades + 1
  /\ audited \in Seq(0..AuditBudget)
  /\ installers \in [Processes -> Installer]
  /\ \A p \in Processes : Counted(installers[p], upgrades)
  /\ upgrades \in 0..MaxUpgrades
  /\ single \in BOOLEAN

(* What a process is at, when it is the only one, with the home h and n    *)
(* records of the audit: what it read is still so, what it wrote is there, *)
(* and it created files only where there was no marker.                    *)
Installs(x, h, n) ==
  /\ x.at \in Home!Files \cup {"marker"} =>
       /\ x.previous = h.marker
       /\ x.created \subseteq h.files
       /\ h.marker > 0 => x.created = {}
  /\ x.at = "state" => "config" \in h.files
  /\ x.at = "marker" /\ x.command \in {"install", "repair", "upgrade"} => h.files = Home!Files
  /\ x.at = "audit" => x.previous = n

Solitary ==
  /\ \A p, q \in Processes : installers[p].at # "idle" /\ installers[q].at # "idle" => p = q
  /\ Home!IsComplete /\ Home!ChainHolds
  /\ \A p \in Processes : Installs(installers[p], home, Len(audited))

HomeInv == HomeTypes /\ (single => Solitary)

LEMMA IdleIs ==
  ASSUME NEW u \in Nat
  PROVE  Home!Idle \in Installer /\ Counted(Home!Idle, u) /\ Home!Idle.at = "idle"
BY SetupAssumption DEF Home!Idle, Installer, Counted, Home!Files, Home!Commands

LEMMA NumbersAre == MaxUpgrades \in Nat /\ AuditBudget \in Nat /\ MaxHead \in Nat
BY SetupAssumption

LEMMA HomeStarts ==
  ASSUME Home!Init
  PROVE  HomeInv
<1>1. /\ home = [files |-> {}, marker |-> 0] /\ audited = <<>> /\ upgrades = 0 /\ single \in BOOLEAN
      /\ installers = [p \in Processes |-> Home!Idle]
  BY DEF Home!Init
<1>2. HomeTypes
  <2>1. audited \in Seq(0..AuditBudget)
    BY <1>1
  <2>2. home \in [files : SUBSET Home!Files, marker : Nat] /\ home.marker <= upgrades + 1
    BY <1>1
  <2>3. 0 \in Nat /\ upgrades \in 0..MaxUpgrades
    BY <1>1, NumbersAre
  <2>4. installers \in [Processes -> Installer] /\ \A p \in Processes : Counted(installers[p], upgrades)
    BY <1>1, <2>3, IdleIs
  <2>5. QED
    BY <1>1, <2>1, <2>2, <2>3, <2>4 DEF HomeTypes
<1>3. Home!IsComplete /\ Home!ChainHolds
  BY <1>1 DEF Home!IsComplete, Home!ChainHolds
<1>4. \A p \in Processes : installers[p].at = "idle"
  BY <1>1, IdleIs
<1>5. QED
  BY <1>2, <1>3, <1>4 DEF HomeInv, Solitary, Installs, Home!Files

(* One process moves, and the others stay where they are.                  *)
LEMMA MovesAre ==
  ASSUME HomeTypes, NEW p \in Processes, NEW x \in Installer, Home!Moves(p, x),
         upgrades' \in Nat, upgrades <= upgrades', Counted(x, upgrades')
  PROVE  /\ installers' \in [Processes -> Installer]
         /\ installers'[p] = x /\ \A q \in Processes \ {p} : installers'[q] = installers[q]
         /\ \A q \in Processes : Counted(installers'[q], upgrades')
<1>1. /\ installers' \in [Processes -> Installer] /\ installers'[p] = x
      /\ \A q \in Processes \ {p} : installers'[q] = installers[q]
  BY DEF HomeTypes, Home!Moves
<1>2. ASSUME NEW q \in Processes \ {p} PROVE Counted(installers'[q], upgrades')
  <2>1. installers[q].previous \in Nat /\ upgrades \in Nat /\ Counted(installers[q], upgrades)
    BY NumbersAre DEF HomeTypes, Installer
  <2>2. QED
    BY <1>1, <1>2, <2>1 DEF Counted
<1>3. QED
  BY <1>1, <1>2

(* When it is alone, all but the process that moves are idle.              *)
LEMMA OthersIdle ==
  ASSUME HomeTypes, Solitary, NEW p \in Processes, NEW x,
         installers[p].at # "idle" \/ \A q \in Processes : installers[q].at = "idle",
         installers'[p] = x, \A q \in Processes \ {p} : installers'[q] = installers[q],
         Home!IsComplete', Home!ChainHolds', Installs(x, home', Len(audited'))
  PROVE  Solitary'
<1>1. \A q \in Processes \ {p} : installers'[q].at = "idle"
  BY DEF Solitary
<1>2. \A q \in Processes : Installs(installers'[q], home', Len(audited'))
  BY <1>1 DEF Installs, Home!Files
<1>3. QED
  BY <1>1, <1>2 DEF Solitary

LEMMA StartKeeps ==
  ASSUME HomeInv, NEW p \in Processes, NEW c \in Home!Commands, Home!Start(p, c)
  PROVE  HomeInv'
<1> DEFINE at == IF c \in {"rollback", "uninstall"} THEN "marker" ELSE "config"
           x  == [at |-> at, command |-> c, previous |-> home.marker, created |-> {}]
<1>1. /\ UNCHANGED <<home, audited, single>> /\ Home!Moves(p, x) /\ upgrades' <= MaxUpgrades
      /\ upgrades' = IF c \in {"repair", "upgrade"} THEN upgrades + 1 ELSE upgrades
      /\ installers[p].at = "idle" /\ (single => \A q \in Processes : installers[q].at = "idle")
      /\ Home!MayStart(c)
  BY DEF Home!Start
<1>2. /\ home.marker \in Nat /\ home.marker <= upgrades + 1 /\ upgrades \in Nat /\ upgrades' \in 0..MaxUpgrades
      /\ upgrades <= upgrades' /\ upgrades' \in Nat
  BY <1>1, NumbersAre DEF HomeInv, HomeTypes
<1>3. x \in Installer
  BY <1>2 DEF Installer, Home!Files, Home!Commands
<1>4. Counted(x, upgrades')
  BY <1>1, <1>2 DEF Counted, Home!Files, Home!Commands, Home!MayStart
<1>5. /\ installers' \in [Processes -> Installer]
      /\ installers'[p] = x /\ \A q \in Processes \ {p} : installers'[q] = installers[q]
      /\ \A q \in Processes : Counted(installers'[q], upgrades')
  BY <1>1, <1>2, <1>3, <1>4, MovesAre DEF HomeInv
<1>6. HomeTypes'
  BY <1>1, <1>2, <1>5 DEF HomeInv, HomeTypes
<1>7. ASSUME single PROVE Solitary'
  <2>1. Installs(x, home', Len(audited'))
    BY <1>1, <1>7 DEF Installs, Home!Files, Home!Commands
  <2>2. Solitary /\ Home!IsComplete' /\ Home!ChainHolds'
    BY <1>1, <1>7 DEF HomeInv, Solitary, Home!IsComplete, Home!ChainHolds
  <2>3. QED
    BY <1>1, <1>5, <1>7, <2>1, <2>2, OthersIdle DEF HomeInv
<1>8. QED
  BY <1>1, <1>6, <1>7 DEF HomeInv

LEMMA WriteFileKeeps ==
  ASSUME HomeInv, NEW p \in Processes, NEW f \in Home!Files, Home!WriteFile(p, f)
  PROVE  HomeInv'
<1> DEFINE at == IF f = "config" THEN "state" ELSE "marker"
           b  == installers[p]
           x  == [b EXCEPT !.at = at, !.created = b.created \cup ({f} \ home.files)]
<1>1. /\ UNCHANGED <<audited, upgrades, single>> /\ b.at = f /\ Home!Moves(p, x)
      /\ home' = [home EXCEPT !.files = home.files \cup {f}]
  BY DEF Home!WriteFile
<1>2. b \in Installer /\ Counted(b, upgrades) /\ upgrades \in Nat /\ home \in [files : SUBSET Home!Files, marker : Nat]
  BY NumbersAre DEF HomeInv, HomeTypes
<1>3. /\ x \in Installer /\ x.at = at /\ x.command = b.command /\ x.previous = b.previous
      /\ x.created = b.created \cup ({f} \ home.files)
  BY <1>2 DEF Installer, Home!Files
<1>4. home' \in [files : SUBSET Home!Files, marker : Nat] /\ home'.files = home.files \cup {f} /\ home'.marker = home.marker
  BY <1>1, <1>2
<1> HIDE DEF x
<1>5. Counted(x, upgrades')
  <2>1. x.command \in {"install", "repair", "upgrade"} /\ x.at \in {"state", "marker"}
    BY <1>1, <1>2, <1>3 DEF Counted
  <2>2. QED
    BY <1>1, <1>2, <1>3, <2>1 DEF Counted, Home!Files, Home!Commands, Installer
<1>6. /\ installers' \in [Processes -> Installer]
      /\ installers'[p] = x /\ \A q \in Processes \ {p} : installers'[q] = installers[q]
      /\ \A q \in Processes : Counted(installers'[q], upgrades')
  BY <1>1, <1>2, <1>3, <1>5, MovesAre DEF HomeInv
<1>7. HomeTypes'
  BY <1>1, <1>2, <1>4, <1>6 DEF HomeInv, HomeTypes
<1>8. ASSUME single PROVE Solitary'
  <2>1. Solitary /\ Installs(b, home, Len(audited))
    BY <1>8 DEF HomeInv, Solitary
  <2>2. Home!IsComplete' /\ Home!ChainHolds'
    BY <1>1, <1>4, <2>1 DEF Solitary, Home!IsComplete, Home!ChainHolds
  <2>3. home.marker > 0 => f \in home.files
    BY <2>1 DEF Solitary, Home!IsComplete
  <2>4. Installs(x, home', Len(audited'))
    BY <1>1, <1>3, <1>4, <2>1, <2>3 DEF Installs, Home!Files
  <2>5. QED
    BY <1>1, <1>6, <2>1, <2>2, <2>4, OthersIdle DEF HomeInv, Home!Files
<1>9. QED
  BY <1>1, <1>7, <1>8 DEF HomeInv

LEMMA WriteMarkerKeeps ==
  ASSUME HomeInv, NEW p \in Processes, Home!WriteMarker(p)
  PROVE  HomeInv'
<1> DEFINE b == installers[p]
           m == Home!MarkerAfter(b)
<1>1. /\ UNCHANGED <<audited, upgrades, single>> /\ b.at = "marker" /\ Home!Moves(p, Home!Idle)
      /\ home' = [home EXCEPT !.marker = m]
  BY DEF Home!WriteMarker
<1>2. b \in Installer /\ Counted(b, upgrades) /\ upgrades \in Nat /\ home \in [files : SUBSET Home!Files, marker : Nat]
  BY NumbersAre DEF HomeInv, HomeTypes
<1>3. m \in Nat /\ m <= upgrades + 1
  BY <1>1, <1>2 DEF Home!MarkerAfter, Counted, Installer, Home!Commands
<1>4. home' \in [files : SUBSET Home!Files, marker : Nat] /\ home'.files = home.files /\ home'.marker = m
  BY <1>1, <1>2, <1>3
<1>5. /\ installers' \in [Processes -> Installer]
      /\ installers'[p] = Home!Idle /\ \A q \in Processes \ {p} : installers'[q] = installers[q]
      /\ \A q \in Processes : Counted(installers'[q], upgrades')
  BY <1>1, <1>2, IdleIs, MovesAre DEF HomeInv
<1>6. HomeTypes'
  BY <1>1, <1>2, <1>3, <1>4, <1>5 DEF HomeInv, HomeTypes
<1>7. ASSUME single PROVE Solitary'
  <2>1. Solitary /\ Installs(b, home, Len(audited))
    BY <1>7 DEF HomeInv, Solitary
  <2>2. Home!ChainHolds'
    BY <1>1, <2>1 DEF Solitary, Home!ChainHolds
  <2>3. Home!IsComplete'
    <3>1. ASSUME m > 0 PROVE home.files = Home!Files
      <4>1. CASE b.command \in {"install", "repair", "upgrade"}
        BY <1>1, <2>1, <4>1 DEF Installs
      <4>2. CASE b.command = "rollback"
        <5>1. b.previous = home.marker /\ b.previous > 1 /\ b.previous \in Nat
          BY <1>1, <1>2, <2>1, <4>2 DEF Installs, Counted, Installer
        <5>2. QED
          BY <2>1, <5>1 DEF Solitary, Home!IsComplete
      <4>3. CASE b.command = "uninstall"
        BY <3>1, <4>3 DEF Home!MarkerAfter
      <4>4. QED
        BY <1>1, <1>2, <4>1, <4>2, <4>3 DEF Counted, Home!Commands
    <3>2. QED
      BY <1>4, <3>1 DEF Home!IsComplete
  <2>4. Installs(Home!Idle, home', Len(audited'))
    BY DEF Installs, Home!Idle, Home!Files
  <2>5. QED
    BY <1>1, <1>5, <2>1, <2>2, <2>3, <2>4, OthersIdle DEF HomeInv
<1>8. QED
  BY <1>1, <1>6, <1>7 DEF HomeInv

(* A process that fails or is killed.                                      *)
LEMMA EndKeepsHome ==
  ASSUME HomeInv, NEW p \in Processes, Home!Fail(p) \/ Home!Killed(p)
  PROVE  HomeInv'
<1> DEFINE b == installers[p]
           left == home.files \ b.created
<1>1. /\ UNCHANGED <<audited, upgrades, single>> /\ b.at # "idle" /\ Home!Moves(p, Home!Idle)
  BY DEF Home!Fail, Home!Killed, Home!Files
<1>2. b \in Installer /\ Counted(b, upgrades) /\ upgrades \in Nat /\ home \in [files : SUBSET Home!Files, marker : Nat]
  BY NumbersAre DEF HomeInv, HomeTypes
<1>3. \/ home' = home
      \/ b.at \in Home!Files \cup {"marker"} /\ home' = [home EXCEPT !.files = left]
  BY DEF Home!Fail, Home!Killed, Home!LeftBehind
<1>4. home' \in [files : SUBSET Home!Files, marker : Nat] /\ home'.marker = home.marker
      /\ home'.files \in {home.files, left}
  BY <1>2, <1>3
<1>5. /\ installers' \in [Processes -> Installer]
      /\ installers'[p] = Home!Idle /\ \A q \in Processes \ {p} : installers'[q] = installers[q]
      /\ \A q \in Processes : Counted(installers'[q], upgrades')
  BY <1>1, <1>2, IdleIs, MovesAre DEF HomeInv
<1>6. HomeTypes'
  BY <1>1, <1>2, <1>4, <1>5 DEF HomeInv, HomeTypes
<1>7. ASSUME single PROVE Solitary'
  <2>1. Solitary /\ Installs(b, home, Len(audited))
    BY <1>7 DEF HomeInv, Solitary
  <2>2. Home!ChainHolds'
    BY <1>1, <2>1 DEF Solitary, Home!ChainHolds
  <2>3. Home!IsComplete'
    <3>1. home.marker > 0 => home'.files = home.files
      BY <1>2, <1>3, <2>1 DEF Installs
    <3>2. QED
      BY <1>4, <2>1, <3>1 DEF Solitary, Home!IsComplete
  <2>4. Installs(Home!Idle, home', Len(audited'))
    BY DEF Installs, Home!Idle, Home!Files
  <2>5. QED
    BY <1>1, <1>5, <2>1, <2>2, <2>3, <2>4, OthersIdle DEF HomeInv
<1>8. QED
  BY <1>1, <1>6, <1>7 DEF HomeInv

LEMMA ReadAuditKeeps ==
  ASSUME HomeInv, NEW p \in Processes, Home!ReadAudit(p)
  PROVE  HomeInv'
<1> DEFINE x == [Home!Idle EXCEPT !.at = "audit", !.previous = Len(audited)]
<1>1. /\ UNCHANGED <<home, audited, upgrades, single>> /\ Home!Moves(p, x) /\ Len(audited) <= AuditBudget
      /\ installers[p].at = "idle" /\ (single => \A q \in Processes : installers[q].at = "idle")
  BY DEF Home!ReadAudit, Home!Verifies
<1>2. upgrades \in Nat /\ Len(audited) \in Nat
  BY NumbersAre DEF HomeInv, HomeTypes
<1>3. x \in Installer /\ x.at = "audit" /\ x.command = "none" /\ x.previous = Len(audited)
  BY <1>2 DEF Home!Idle, Installer, Home!Files, Home!Commands
<1> HIDE DEF x
<1>4. Counted(x, upgrades')
  BY <1>1, <1>2, <1>3 DEF Counted, Home!Files
<1>5. /\ installers' \in [Processes -> Installer]
      /\ installers'[p] = x /\ \A q \in Processes \ {p} : installers'[q] = installers[q]
      /\ \A q \in Processes : Counted(installers'[q], upgrades')
  BY <1>1, <1>2, <1>3, <1>4, MovesAre DEF HomeInv
<1>6. HomeTypes'
  BY <1>1, <1>5 DEF HomeInv, HomeTypes
<1>7. ASSUME single PROVE Solitary'
  <2>1. Solitary /\ Home!IsComplete' /\ Home!ChainHolds'
    BY <1>1, <1>7 DEF HomeInv, Solitary, Home!IsComplete, Home!ChainHolds
  <2>2. Installs(x, home', Len(audited'))
    BY <1>1, <1>3 DEF Installs, Home!Files
  <2>3. QED
    BY <1>1, <1>5, <1>7, <2>1, <2>2, OthersIdle DEF HomeInv
<1>8. QED
  BY <1>1, <1>6, <1>7 DEF HomeInv

LEMMA WriteAuditKeeps ==
  ASSUME HomeInv, NEW p \in Processes, Home!WriteAudit(p)
  PROVE  HomeInv'
<1> DEFINE b == installers[p]
<1>1. /\ UNCHANGED <<home, upgrades, single>> /\ b.at = "audit" /\ Home!Moves(p, Home!Idle)
      /\ audited' = Append(audited, b.previous)
  BY DEF Home!WriteAudit
<1>2. b \in Installer /\ Counted(b, upgrades) /\ upgrades \in Nat /\ audited \in Seq(0..AuditBudget)
  BY NumbersAre DEF HomeInv, HomeTypes
<1>3. b.previous \in 0..AuditBudget
  BY <1>1, <1>2, NumbersAre DEF Counted, Installer
<1>4. audited' \in Seq(0..AuditBudget)
  BY <1>1, <1>2, <1>3
<1>5. /\ installers' \in [Processes -> Installer]
      /\ installers'[p] = Home!Idle /\ \A q \in Processes \ {p} : installers'[q] = installers[q]
      /\ \A q \in Processes : Counted(installers'[q], upgrades')
  BY <1>1, <1>2, IdleIs, MovesAre DEF HomeInv
<1>6. HomeTypes'
  BY <1>1, <1>2, <1>4, <1>5 DEF HomeInv, HomeTypes
<1>7. ASSUME single PROVE Solitary'
  <2>1. Solitary /\ Installs(b, home, Len(audited))
    BY <1>7 DEF HomeInv, Solitary
  <2>2. Home!IsComplete'
    BY <1>1, <2>1 DEF Solitary, Home!IsComplete
  <2>3. Home!ChainHolds'
    <3>1. b.previous = Len(audited)
      BY <1>1, <2>1 DEF Installs
    <3>2. \A i \in DOMAIN audited : audited[i] = i - 1
      BY <2>1 DEF Solitary, Home!ChainHolds
    <3>3. \A i \in DOMAIN audited' : audited'[i] = i - 1
      BY <1>1, <1>2, <3>1, <3>2
    <3>4. QED
      BY <3>3 DEF Home!ChainHolds
  <2>4. Installs(Home!Idle, home', Len(audited'))
    BY DEF Installs, Home!Idle, Home!Files
  <2>5. QED
    BY <1>1, <1>5, <2>1, <2>2, <2>3, <2>4, OthersIdle DEF HomeInv
<1>8. QED
  BY <1>1, <1>6, <1>7 DEF HomeInv

LEMMA HomeStep ==
  ASSUME HomeInv, [Home!Next]_(Home!vars)
  PROVE  HomeInv'
<1>1. CASE UNCHANGED Home!vars
  BY <1>1 DEF Home!vars, HomeInv, HomeTypes, Solitary, Home!IsComplete, Home!ChainHolds
<1>2. CASE Home!Next
  BY <1>2, StartKeeps, WriteFileKeeps, WriteMarkerKeeps, EndKeepsHome, ReadAuditKeeps, WriteAuditKeeps DEF Home!Next
<1>3. QED
  BY <1>1, <1>2

LEMMA HomeIsWhole ==
  ASSUME HomeInv
  PROVE  Home!TypeOK /\ Home!InstalledIsComplete /\ Home!AuditIsKept
<1>1. Home!TypeOK
  <2>1. home.marker \in 0..(MaxUpgrades + 1)
    BY NumbersAre DEF HomeInv, HomeTypes
  <2>2. QED
    BY <2>1 DEF HomeInv, HomeTypes, Home!TypeOK, Installer
<1>2. QED
  BY <1>1 DEF HomeInv, Solitary, Home!InstalledIsComplete, Home!AuditIsKept

---------------------------------------------------------------------------
(* All of them side by side. *)

SideBySide == RunsInv /\ JournalInv /\ TalkInv /\ SetupInv /\ HomeInv

LEMMA AllAlways == MCSpec => []SideBySide
<1>1. MCInit => SideBySide
  BY RunsStart, JournalStarts, TalkStarts, SetupStarts, HomeStarts DEF MCInit, SideBySide
<1>2. [MCNext]_MCVars =>
        /\ [Next]_vars /\ [Run!Next]_(Run!vars) /\ [Talk!Next]_(Talk!vars)
        /\ [Setup!Next]_(Setup!vars) /\ [Home!Next]_(Home!vars)
  BY DEF MCNext, MCVars, runVars, talkVars, setupVars, homeVars,
         Run!vars, Talk!vars, Setup!vars, Home!vars
<1>3. SideBySide /\ [MCNext]_MCVars => SideBySide'
  BY <1>2, RunsStep, JournalStep, TalkStep, SetupStep, HomeStep DEF SideBySide
<1>4. QED
  BY <1>1, <1>3, PTL DEF MCSpec

(* The journal of a run is one fenced history from which its checkpoint    *)
(* and its export follow (run_operations.py), and the stream of a session  *)
(* tells each turn once, in order, while it was open                       *)
(* (interactive_session.py).                                               *)
THEOREM RunsStayControlled == MCSpec => []RunsAreControlled
<1>1. SideBySide => RunsAreControlled
  BY JournalExports, StreamIsTold DEF SideBySide, JournalInv, RunsAreControlled
<1>2. QED
  BY <1>1, AllAlways, PTL

(* What a run ended with stays, and a session that is being cancelled says *)
(* nothing more but that it is over (project_integration.py,               *)
(* interactive_session.py).                                                *)
THEOREM EndsStayFinal == MCSpec => EndsAreFinal
<1>1. [MCNext]_MCVars => [Next]_vars /\ [Talk!Next]_(Talk!vars)
  BY DEF MCNext, MCVars, talkVars, Talk!vars
<1>2. RunsInv /\ [Next]_vars => [\A k \in RunKeys : runs[k] # None /\ runs[k].terminal # None =>
          runs'[k].terminal = runs[k].terminal /\ runs'[k].evidence = runs[k].evidence]_vars
  BY EndsAreKept DEF EndIsKept
<1>3. TalkInv /\ [Talk!Next]_(Talk!vars) => [Talk!SilentStep]_(Talk!vars)
  BY CancelledIsSilent
<1>4. SideBySide => RunsInv /\ TalkInv
  BY DEF SideBySide
<1>5. QED
  BY <1>1, <1>2, <1>3, <1>4, AllAlways, PTL DEF MCSpec, EndsAreFinal, TerminalIsImmutable, Talk!CancellingIsSilent

(* What a project and the runtime's home consist of is there as a whole,   *)
(* wherever the commands that lay it out failed or were killed: what is    *)
(* registered keeps its binding and its state, the files that belong to a  *)
(* commit are all of one, what is marked as installed is complete, and the *)
(* audit is one chain (existing_project_setup.py, project_bootstrap.py,    *)
(* project_registry.py, install.py, observability.py).                     *)
THEOREM LayoutsStayWhole == MCSpec => []LayoutsAreWhole
<1>1. SideBySide => LayoutsAreWhole
  BY SetupIsWhole, HomeIsWhole DEF SideBySide, LayoutsAreWhole
<1>2. QED
  BY <1>1, AllAlways, PTL

(* A name that is registered stays with its checkout                       *)
(* (project_registry.py).                                                  *)
THEOREM RegistrationsAlwaysStay == MCSpec => RegistrationsStay
<1>1. [MCNext]_MCVars => [Setup!Next]_(Setup!vars)
  BY DEF MCNext, MCVars, setupVars, Setup!vars
<1>2. SideBySide /\ [Setup!Next]_(Setup!vars) => [inTurn => Setup!Stay]_(Setup!vars)
  BY NamesStay DEF SideBySide
<1>3. QED
  BY <1>1, <1>2, AllAlways, PTL DEF MCSpec, RegistrationsStay, Setup!RegistrationsStay
=============================================================================
