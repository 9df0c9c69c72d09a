----------------------------- MODULE HumanGates -----------------------------
(***************************************************************************)
(* The human gate of a session: a UI renders a request, takes a person's   *)
(* input, checkpoints and exits, and what it did is a record that the      *)
(* session bridge, the live gate or the production gate validates.         *)
(*                                                                         *)
(* The UI is whoever writes the record: here it writes any events of the   *)
(* vocabulary, with the data the validators look at, and any final event.  *)
(* An event's identity is its position; digests, bindings and privacy      *)
(* checks are left out.                                                    *)
(***************************************************************************)
EXTENDS Naturals, FiniteSets, Sequences

CONSTANTS Options, None, MaxEvents

VARIABLES kind, events, final, verdict, rendered

vars == <<kind, events, final, verdict, rendered>>

Vocabulary ==
    [bridge |-> {"session_started", "ui_rendered", "ui_input", "ui_checkpointed", "ui_interrupt_requested",
                 "ui_interruption_acknowledged"},
     live |-> {"session_opened", "gate_rendered", "input_validated", "ui_checkpointed"},
     production |-> {"session_created", "gate_rendered", "input_validated", "ui_checkpointed"}]

Chosen == {"approve", "reject", "clarify"}

Decisions == Chosen \cup {"timeout", "cancel"}

Reasons ==
    [bridge |-> {"user_requested", "host_shutdown", "interruption_acknowledged", "session_completed"},
     live |-> {"user_requested", "host_shutdown"},
     production |-> {"human_selected", "session_expired", "user_cancelled"}]

Init ==
    /\ kind \in DOMAIN Vocabulary
    /\ events = <<>> /\ final = None /\ verdict = None /\ rendered = FALSE

Types == [n \in DOMAIN events |-> events[n].type]

At(type) == {n \in DOMAIN events : events[n].type = type}

-----------------------------------------------------------------------------
(* The user interface. *)

(* An input carries what was decided and whether a person was there, or    *)
(* the option that was selected.                                           *)
Inputs ==
    [bridge |-> {},
     live |-> [type : {"input_validated"}, option : Options],
     production |-> [type : {"input_validated"}, decision : Decisions, human : BOOLEAN]]

Happens == [type : Vocabulary[kind] \ {"input_validated"}] \cup Inputs[kind]

Happen ==
    /\ verdict = None /\ Len(events) < MaxEvents
    /\ \E event \in Happens : events' = Append(events, event)
    /\ UNCHANGED <<kind, final, verdict, rendered>>

(* A final event names the input it rests on, and a resumable one the      *)
(* checkpoint to resume from.                                              *)
FinalsOf(n) ==
    [bridge |-> [type : {"safe_exit", "interrupted", "completed"}, reason : Reasons.bridge,
                 checkpoint : 0 .. n],
     live |-> [type : {"safe_exit"}, reason : Reasons.live, option : Options, input : 1 .. n,
               checkpoint : 0 .. n],
     production |-> [type : {"validated_final"}, reason : Reasons.production, decision : Decisions,
                     input : 1 .. n]]

Finals == FinalsOf(Len(events))

NoneAssumption ==
    /\ None \notin {"accepted", "refused"} /\ MaxEvents \in Nat
    /\ \A n \in 0 .. MaxEvents, k \in DOMAIN Vocabulary : None \notin FinalsOf(n)[k]

-----------------------------------------------------------------------------
(* The validators. *)

\* Mutated form of the next definition.
ResumesAnywhere(exit) == exit.checkpoint \in DOMAIN events

Resumes(exit) == exit.checkpoint \in At("ui_checkpointed")

(* A session that exits or is interrupted is resumable from a checkpoint;  *)
(* one that completed is not.                                              *)
BridgeAccepts(exit) ==
    /\ At("session_started") = {1}
    /\ exit.type = "safe_exit" => exit.reason \in {"user_requested", "host_shutdown"}
    /\ exit.type = "interrupted" => exit.reason = "interruption_acknowledged"
    /\ exit.type = "completed" => exit.reason = "session_completed"
    /\ IF exit.type = "completed" THEN exit.checkpoint = 0 ELSE Resumes(exit)

(* The gate is bound to the first input of the trace, wherever it stands. *)
LiveAccepts(exit) ==
    /\ Len(events) = 4 /\ events[1].type = "session_opened"
    /\ exit.input \in At("input_validated") /\ \A n \in At("input_validated") : exit.input <= n
    /\ events[exit.input].option = exit.option
    /\ exit.reason = "user_requested"
    /\ Resumes(exit)

\* Mutated form of the next definition.
PresentIfChosen(event) == event.decision \in Chosen => event.human

Present(event) == event.decision # "timeout" => event.human

\* Mutated form of the next definition.
OrderOfInput == Types[3] = "input_validated"

Order == Types = <<"session_created", "gate_rendered", "input_validated", "ui_checkpointed">>

(* The final decision is not compared with the input's. *)
ProductionAccepts(exit) ==
    /\ Len(events) = 4 /\ Order
    /\ Present(events[3])
    /\ exit.input = 3
    /\ exit.decision \in Chosen => exit.reason = "human_selected"
    /\ exit.decision = "timeout" => exit.reason = "session_expired"
    /\ exit.decision = "cancel" => exit.reason = "user_cancelled"

Accepts(exit) ==
    /\ kind = "bridge" => BridgeAccepts(exit)
    /\ kind = "live" => LiveAccepts(exit)
    /\ kind = "production" => ProductionAccepts(exit)

(* A record that is refused is worth nothing. *)
Validate ==
    /\ verdict = None /\ Len(events) > 0
    /\ \E exit \in Finals[kind] :
          IF Accepts(exit)
          THEN verdict' = "accepted" /\ final' = exit /\ UNCHANGED events
          ELSE verdict' = "refused" /\ events' = <<>> /\ UNCHANGED final
    /\ UNCHANGED <<kind, rendered>>

(* What the UI is to render is projected from a record that validates,     *)
(* which one without its final event never does.                           *)
Render ==
    /\ kind = "production" /\ ~rendered
    /\ verdict = "accepted"
    /\ rendered' = TRUE
    /\ UNCHANGED <<kind, events, final, verdict>>

Next == Happen \/ Validate \/ Render

Spec == Init /\ [][Next]_vars

-----------------------------------------------------------------------------
(* The record and its verdict are of their kinds. *)
TypeOK ==
    /\ kind \in DOMAIN Vocabulary /\ rendered \in BOOLEAN
    /\ events \in Seq(Happens) /\ Len(events) <= MaxEvents
    /\ verdict \in {None, "accepted", "refused"}
    /\ (verdict = "accepted") = (final # None)

(* Whatever the UI writes, an accepted record of a gate rests on an input  *)
(* that was given: the live gate's on the selection it names, the          *)
(* production gate's on an input after the rendering, by a person unless   *)
(* it timed out; and what may be resumed starts at a checkpoint.           *)
AcceptedRestOnInput ==
    verdict = "accepted" =>
        /\ kind = "live" => \E n \in At("input_validated") : events[n].option = final.option
        /\ kind = "production" =>
              \E k \in At("gate_rendered"), n \in At("input_validated") :
                  k < n /\ n = final.input /\ (events[n].human \/ events[n].decision = "timeout")
        /\ kind # "production" /\ final.type # "completed" => events[final.checkpoint].type = "ui_checkpointed"

(* VIOLATED: the final decision need not be the input's: a session nobody  *)
(* attended timed out and is accepted as approved, "human_selected".  The  *)
(* specification asks for "human presence for human choices".              *)
HumanChoicesAreHuman ==
    (kind = "production" /\ verdict = "accepted" /\ final.decision \in Chosen) =>
        events[final.input].human /\ events[final.input].decision = final.decision

(* VIOLATED: the live gate orders only its first event: it accepts a second *)
(* input that says otherwise, and an input before anything was rendered.   *)
OneInputAfterRendering ==
    (kind = "live" /\ verdict = "accepted") =>
        Cardinality(At("input_validated")) = 1 /\ \E k \in At("gate_rendered") : k < final.input

(* VIOLATED: the bridge accepts an interrupted session in which nothing    *)
(* acknowledged the interruption; only its reason says so.                 *)
InterruptionsAreAcknowledged ==
    (kind = "bridge" /\ verdict = "accepted" /\ final.type = "interrupted") => At("ui_interruption_acknowledged") # {}

(* VIOLATED: rendering_inputs validates the whole record, so that the UI   *)
(* learns what to render only after the answer.                            *)
RenderedBeforeTheAnswer == rendered => final = None

=============================================================================
