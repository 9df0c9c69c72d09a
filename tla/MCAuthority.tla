------------------------------ MODULE MCAuthority ------------------------------
(* What decides over a worker's proposals, side by side; one is in use in a   *)
(* behaviour and the others stay as they began.                               *)
(*   bridges      a change that needs guidance and the human gate, and two    *)
(*                bridges, of two sessions or of one that was started again   *)
(*   loops        two control loops that share the file of their journal      *)
(*   interaction  the offline model of the three authorities                  *)
(*   gates        the records of a human gate                                 *)
EXTENDS AuthorityBridges, TLC

CONSTANTS
  SessionIds,
  Loops, Proposals, Escalating, DecisionBudget,
  Leases, MaxRevision, MaxEvidence, MaxActions,
  Options, MaxEvents,
  None

VARIABLES
  inUse,
  file, loops, results, alone,
  state, revision, lease, checkpoint, evidence, quality, guidance, ui, alternative,
  userRequired, repair, terminalCommit, seen, judged, refused,
  kind, events, final, verdict, rendered

Gates == [g |-> "awg", u |-> "ui"]
AnySessions == [Bridges -> SessionIds]

Loop        == INSTANCE WorkerControlLoop
Interaction == INSTANCE AuthorityInteraction
Human       == INSTANCE HumanGates

ASSUME LoopAssumption        == Loop!ProposalAssumption
ASSUME InteractionAssumption == Interaction!BoundAssumption /\ Interaction!NoneAssumption
ASSUME HumanAssumption       == Human!NoneAssumption

loopVars  == <<file, loops, results, alone>>
modelVars == <<state, revision, lease, checkpoint, evidence, quality, guidance, ui, alternative,
               userRequired, repair, terminalCommit, seen, judged, refused>>
humanVars == <<kind, events, final, verdict, rendered>>
MCVars    == <<inUse, vars, loopVars, modelVars, humanVars>>

MCInit ==
  /\ inUse \in {"bridges", "loops", "interaction", "gates"}
  /\ Init /\ (inUse # "bridges" => \A b, c \in Bridges : binding[b] = binding[c])
  /\ Loop!Init /\ (inUse # "loops" => alone)
  /\ Interaction!Init
  /\ Human!Init /\ (inUse # "gates" => kind = "bridge")
MCNext ==
  \/ inUse = "bridges" /\ Next /\ UNCHANGED <<inUse, loopVars, modelVars, humanVars>>
  \/ inUse = "loops" /\ Loop!Next /\ UNCHANGED <<inUse, vars, modelVars, humanVars>>
  \/ inUse = "interaction" /\ Interaction!Next /\ UNCHANGED <<inUse, vars, loopVars, humanVars>>
  \/ inUse = "gates" /\ Human!Next /\ UNCHANGED <<inUse, vars, loopVars, modelVars>>
MCSpec == MCInit /\ [][MCNext]_MCVars

Symmetry == Permutations(Bridges) \cup Permutations(SessionIds) \cup Permutations(Loops)

(* The result of a control loop passes the check against its journal, what it *)
(* rests on is in the file in the order it was decided, and one loop at a     *)
(* time leaves a journal that verifies (worker_control_loop.py).              *)
ResultsAreChecked ==
  inUse = "loops" => /\ Loop!TypeOK /\ Loop!ResultsCheck
                     /\ Loop!ResultsAreJournaled /\ Loop!AloneTheJournalVerifies

(* A job is completed by the coordinator on an acceptance of the quality      *)
(* authority (authority_interaction_model.py), and an accepted record of a    *)
(* gate rests on an input that was given (production_ui_human_gate.py,        *)
(* ui_live_human_gate.py, ui_session_bridge.py).                              *)
AcceptanceIsGrounded ==
  /\ inUse = "interaction" => Interaction!TypeOK /\ Interaction!CompletedThroughTheGates
  /\ inUse = "gates" => Human!TypeOK /\ Human!AcceptedRestOnInput

(* Nobody goes back on a decision, neither the authority nor a bridge that    *)
(* has learnt it, and what is the user's to decide guidance does not take.    *)
DecisionsStand == DecisionsAreFinal /\ Interaction!UserDecidesTheUsers

(* VIOLATED by the gates' validator: see HumanGates.                          *)
HumanChoicesAreHuman == inUse = "gates" => Human!HumanChoicesAreHuman
================================================================================
