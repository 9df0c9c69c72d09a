------------------------------- MODULE MCRuns -------------------------------
(* Runs of a project, and what they are set up in, side by side; one component *)
(* is in use in a behaviour.                                                  *)
(*   projects   two projects, of which one has two claims on one worktree and *)
(*              the other wants the same worktree                             *)
(*   operator   the journal of a run under two leases of one worker           *)
(*   talk       a session of two turns and its cancellation                   *)
(*   checkouts  two processes that set two checkouts up under two names, one  *)
(*              after the other                                               *)
(*   home       two processes on the runtime's home, one after the other      *)
(* The processes are the clean-ups' model values, the checkouts those of the  *)
(* ends, and the names those of the checkpoints, so that one permutation      *)
(* moves them all.                                                            *)
EXTENDS ProjectIntegration, TLC

CONSTANTS
    CommandIds, Private, Checkpoints, Digests, Deltas, EventBudget, AccountingBudget, RunMaxTime,
    RunLeases, FirstRunLease, RunObservations,
    Correlations, Cancellations, LeaseEnd, QueueLimit, MaxEvents, MaxTurns, TalkMaxTime,
    Processes, Checkouts, Names, MaxHead, MaxUpgrades, AuditBudget

VARIABLES
    inUse, time, journal,
    now, pending, outstanding, turns, cancel, terminal, events, asked,
    heads, layouts, registry, setups, inTurn,
    home, audited, installers, upgrades, single

Declared(project, capabilities) == [project |-> project, tenant |-> "a", capabilities |-> capabilities]
MCDeclarations == {Declared("alpha", {"edit"}), Declared("beta", {})}
Context(project, worktree, fence) == [project |-> project, tenant |-> "a", worktree |-> worktree, fence |-> fence]
MCContexts == {Context("alpha", "w1", 1), Context("alpha", "w1", 2), Context("beta", "w2", 1), Context("beta", "w1", 1)}
MCLeases == {[task |-> "task", worktree |-> "w1", fence |-> 2]}
MCTasks == {[input |-> "i", requires |-> {}]}
MCSessions == {[session |-> "s", capabilities |-> {"edit"}]}

Lease(worker, fence, expires) == [worker |-> worker, fence |-> fence, expires |-> expires]
MCFirstLease == Lease("w1", 1, 0)
MCRunLeases == {MCFirstLease, Lease("w1", 2, 2)}

Report(states, coordinators, authorities, checkpoints) ==
    [state : states, coordinator : coordinators, authorities : authorities, checkpoint : checkpoints, lease : MCRunLeases]
MCRunObservations ==
    Report({"running", "failed", "unknown"}, {"running"}, {"some"}, {None})
    \cup Report({"interrupted"}, {"running"}, {"some"}, Checkpoints \cup {None})
    \cup Report({"accepted"}, {"running", "done"}, {"some", "all"}, {None})
    \cup Report({"cancelled"}, {"running", "cancelled"}, {"some"}, {None})

Run == INSTANCE RunOperations WITH
    Leases <- RunLeases, FirstLease <- FirstRunLease, OperationIds <- CommandIds, PrivateIds <- Private,
    Observations <- RunObservations, MaxTime <- RunMaxTime, now <- time
Talk == INSTANCE InteractiveSession WITH
    Operations <- Cancellations, MaxTime <- TalkMaxTime
Setup == INSTANCE ProjectSetup WITH
    head <- heads, files <- layouts, processes <- setups, alone <- inTurn
Home == INSTANCE RuntimeHome WITH
    processes <- installers, alone <- single

\* The lease a run starts under, the observations and the bounds.
ASSUME RunAssumption ==
    /\ FirstRunLease \in RunLeases
    /\ \A l \in RunLeases : l = [worker |-> l.worker, fence |-> l.fence, expires |-> l.expires] /\ l.fence \in Nat
    /\ \A seen \in RunObservations : seen.checkpoint \in Checkpoints \cup {None}
    /\ EventBudget \in Nat \ {0} /\ AccountingBudget \in Nat /\ Deltas \subseteq Nat /\ RunMaxTime \in Nat
    /\ None \notin Run!Journals /\ None \notin Checkpoints
ASSUME TalkAssumption ==
    /\ LeaseEnd \in Nat /\ QueueLimit \in Nat /\ MaxEvents \in Nat /\ MaxTurns \in Nat /\ TalkMaxTime \in Nat
    /\ None \notin Cancellations
ASSUME SetupAssumption ==
    /\ MaxHead \in Nat \ {0} /\ MaxUpgrades \in Nat /\ AuditBudget \in Nat
    /\ None \notin Names
    /\ None \notin Setup!Texts \cup {Setup!Torn} \cup [checkout : Checkouts, name : Names]

runVars  == <<time, journal>>
talkVars == <<now, pending, outstanding, turns, cancel, terminal, events, asked>>
setupVars == <<heads, layouts, registry, setups, inTurn>>
homeVars  == <<home, audited, installers, upgrades, single>>
MCVars   == <<inUse, vars, runVars, talkVars, setupVars, homeVars>>

MCInit ==
    /\ inUse \in {"projects", "operator", "talk", "checkouts", "home"}
    /\ Init /\ Run!Init /\ Talk!Init /\ Setup!Init /\ Home!Init
    /\ inTurn /\ (inUse # "checkouts" => \A c \in Checkouts : heads[c] = 0)
    /\ single
MCNext ==
    \/ inUse = "projects" /\ Next /\ UNCHANGED <<inUse, runVars, talkVars, setupVars, homeVars>>
    \/ inUse = "operator" /\ Run!Next /\ UNCHANGED <<inUse, vars, talkVars, setupVars, homeVars>>
    \/ inUse = "talk" /\ Talk!Next /\ UNCHANGED <<inUse, vars, runVars, setupVars, homeVars>>
    \/ inUse = "checkouts" /\ Setup!Next /\ UNCHANGED <<inUse, vars, runVars, talkVars, homeVars>>
    \/ inUse = "home" /\ Home!Next /\ UNCHANGED <<inUse, vars, runVars, talkVars, setupVars>>
MCSpec == MCInit /\ [][MCNext]_MCVars

Symmetry == Permutations(CleanupIds) \cup Permutations(TerminalIds)
            \cup Permutations(Checkpoints)

\* The journal of a run is one fenced history from which its checkpoint and its export
\* follow (run_operations.py), and the stream of a session tells each turn once
\* (interactive_session.py).
RunsAreControlled ==
    /\ Run!TypeOK /\ Run!MutationsAreFenced /\ Run!CheckpointIsCurrent /\ Run!ExportsAreAccepted
    /\ Talk!TypeOK /\ Talk!TurnsAreTold

\* What a run ended with stays, and a session that is being cancelled says nothing more
\* but that it is over.
EndsAreFinal == TerminalIsImmutable /\ Talk!CancellingIsSilent

\* What a project and the runtime's home consist of is there as a whole, wherever the
\* commands that lay it out failed or were killed (existing_project_setup.py,
\* project_bootstrap.py, project_registry.py, install.py, observability.py).
LayoutsAreWhole ==
    /\ inUse = "checkouts" => Setup!TypeOK /\ Setup!RegistrationsLast /\ Setup!LayoutsAreOfOneCommit
    /\ inUse = "home" => Home!TypeOK /\ Home!InstalledIsComplete /\ Home!AuditIsKept

\* A name that is registered stays with its checkout (project_registry.py).
RegistrationsStay == Setup!RegistrationsStay
==============================================================================
