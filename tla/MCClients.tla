------------------------------ MODULE MCClients ------------------------------
(* The two boundaries that callers reach with operations they repeat, side by *)
(* side: the lease of two workers who may change places, and the task of two  *)
(* Coordinator clients, each with its own payload for a write and one for a   *)
(* read, who share two operation identifiers.  One boundary is in use in a    *)
(* behaviour, and the other stays as it began.                                *)
EXTENDS LeaseService, TLC

CONSTANTS Clients, Identifiers, Payloads, MaxAttempts, MaxCalls, MaxLost
VARIABLES inUse, task, events, answers, calls, learnt, doubt, made, lost

Coordinator == INSTANCE CoordinatorClient WITH
  OperationIds <- Identifiers, MaxFaults <- MaxLost,
  revision <- task, operations <- answers, faults <- lost

ASSUME CallAssumption == Coordinator!BoundAssumption

taskVars == <<task, events, answers, calls, learnt, doubt, made, lost>>
MCVars   == <<inUse, vars, taskVars>>

MCInit == inUse \in {"lease", "task"} /\ Init /\ Coordinator!Init
MCNext ==
  \/ inUse = "lease" /\ Next /\ UNCHANGED <<inUse, taskVars>>
  \/ inUse = "task" /\ Coordinator!Next /\ UNCHANGED <<inUse, vars>>
MCSpec == MCInit /\ [][MCNext]_MCVars

Symmetry == Permutations(Workers)

(* However often its answer was lost, a write of a client is in the task's    *)
(* log once, and what each call told its caller is true of the log (exchange, *)
(* _write_response and _read_response of coordinator_client.py).              *)
ClientsAreToldTheTruth ==
  Coordinator!TypeOK /\ Coordinator!AppliedOnce /\ Coordinator!VerdictsAreTrue

(* A client whose last write is in doubt and that then reads the revision     *)
(* this write expected knows that it was not carried out (docs/PROTOCOL.md,   *)
(* AR-0081).                                                                  *)
ReadsSettleDoubt == Coordinator!ReadsSettleDoubt
==============================================================================
