------------------------- MODULE InteractiveSession -------------------------
(***************************************************************************)
(* Turns, output and cancellation of an admitted session                   *)
(* (scripts/interactive_session.py): the caller opens a turn, native       *)
(* frames are normalised into events of that turn, and the stream of       *)
(* events ends with one that is terminal.  Every method first compares the *)
(* clock with the lease's end.                                             *)
(***************************************************************************)
EXTENDS Naturals, Sequences, SequencesExt, FiniteSets

CONSTANTS
    Correlations,   \* correlation identities a caller may use
    Operations,     \* identities of cancellations
    LeaseEnd,
    QueueLimit,     \* frames of a turn
    MaxEvents,
    MaxTurns,       \* bounds the turns
    MaxTime,
    None

VARIABLES
    now,
    pending,        \* None or [turn, correlation, deadline]
    outstanding,    \* frames of the pending turn
    turns,          \* turns opened so far
    cancel,         \* the operation that cancels the session, or None
    terminal,
    events,         \* the stream: [kind, turn, correlation, status, at]
    asked           \* history: turn |-> [correlation, deadline], and what became of it

vars == <<now, pending, outstanding, turns, cancel, terminal, events, asked>>

Init ==
    /\ now = 0
    /\ pending = None /\ outstanding = 0 /\ turns = 0
    /\ cancel = None /\ terminal = FALSE
    /\ events = <<>> /\ asked = <<>>

\* Mutated form of the next definition.
FencedByLease == now < LeaseEnd

\* _fence.
Fenced == now < LeaseEnd /\ cancel = None
FencedWhileCancelling == now < LeaseEnd

Event(kind, turn, correlation, status) ==
    [kind |-> kind, turn |-> turn, correlation |-> correlation, status |-> status, at |-> now]
MayAppend == Len(events) < MaxEvents
Record(event) == events' = Append(events, event)

-----------------------------------------------------------------------------
MayOpen == ~terminal /\ pending = None

Input(correlation, deadline) ==
    /\ Fenced /\ MayOpen
    /\ deadline > now /\ deadline <= LeaseEnd
    /\ turns < MaxTurns
    /\ turns' = turns + 1
    /\ pending' = [turn |-> turns + 1, correlation |-> correlation, deadline |-> deadline]
    /\ outstanding' = 0
    /\ asked' = Append(asked, [correlation |-> correlation, deadline |-> deadline, open |-> TRUE])
    /\ UNCHANGED <<now, cancel, terminal, events>>

\* Mutated form of the next definition.
MayFeedAnyTime == ~terminal /\ pending # None

MayFeed == ~terminal /\ pending # None /\ now < pending.deadline

\* A frame that is malformed counts as well, and so does one too many.
Feed(wellFormed) ==
    /\ Fenced /\ MayFeed
    /\ outstanding <= QueueLimit        \* bounds the frames refused as too many
    /\ outstanding' = outstanding + 1
    /\ IF outstanding' <= QueueLimit /\ wellFormed /\ MayAppend
       THEN Record(Event("output", pending.turn, pending.correlation, None))
       ELSE UNCHANGED events
    /\ UNCHANGED <<now, pending, turns, cancel, terminal, asked>>

Settled(turn) == asked' = [asked EXCEPT ![turn].open = FALSE]

EndTurn(correlation) ==
    /\ Fenced
    /\ pending # None /\ pending.correlation = correlation
    /\ MayAppend
    /\ Record(Event("end_turn", pending.turn, correlation, None))
    /\ Settled(pending.turn)
    /\ pending' = None /\ outstanding' = 0
    /\ UNCHANGED <<now, turns, cancel, terminal>>

\* The session is terminal even if the event can no longer be appended.
EndWith(status) ==
    /\ terminal' = TRUE
    /\ IF MayAppend THEN Record(Event("terminal", 0, None, status)) ELSE UNCHANGED events

\* Nothing asks whether the session is terminal already.
Close(status) ==
    /\ Fenced /\ pending = None
    /\ EndWith(status)
    /\ UNCHANGED <<now, pending, outstanding, turns, cancel, asked>>

\* Mutated form of the next definition.
Acknowledges(operation, clean) == cancel # None /\ clean

\* The operation that cancels, and its confirmation that the process is gone.
Confirms(operation, clean) == cancel = operation /\ clean

\* Repeating the operation is answered alike and changes nothing.
RequestCancel(operation) ==
    /\ FencedWhileCancelling /\ ~terminal /\ cancel = None
    /\ cancel' = operation
    /\ pending' = None
    /\ IF pending = None THEN UNCHANGED asked ELSE Settled(pending.turn)
    /\ UNCHANGED <<now, outstanding, turns, terminal, events>>

AcknowledgeCancel(operation, clean) ==
    /\ FencedWhileCancelling /\ ~terminal
    /\ Confirms(operation, clean)
    /\ EndWith(operation)
    /\ UNCHANGED <<now, pending, outstanding, turns, cancel, asked>>

Tick ==
    /\ now < MaxTime /\ now' = now + 1
    /\ UNCHANGED <<pending, outstanding, turns, cancel, terminal, events, asked>>

-----------------------------------------------------------------------------
Next ==
    \/ \E c \in Correlations :
          EndTurn(c) \/ \E deadline \in 1..LeaseEnd : Input(c, deadline)
    \/ \E wellFormed \in BOOLEAN : Feed(wellFormed)
    \/ \E status \in {"completed", "cancelled"} : Close(status)
    \/ \E o \in Operations :
          RequestCancel(o) \/ \E clean \in BOOLEAN : AcknowledgeCancel(o, clean)
    \/ Tick
Spec == Init /\ [][Next]_vars

-----------------------------------------------------------------------------
(* Properties. *)

Outputs(turn) == {i \in DOMAIN events : events[i].kind = "output" /\ events[i].turn = turn}
Ends(turn) == {i \in DOMAIN events : events[i].kind = "end_turn" /\ events[i].turn = turn}

Deadlines == 1..LeaseEnd
Turns     == [correlation : Correlations, deadline : Deadlines, open : BOOLEAN]
Told ==
    [kind : {"output", "end_turn", "terminal"}, turn : 0..MaxTurns, correlation : Correlations \cup {None},
     status : {"completed", "cancelled"} \cup Operations \cup {None}, at : 0..MaxTime]

TypeOK ==
    /\ now \in 0..MaxTime /\ turns \in 0..MaxTurns /\ outstanding \in 0..(QueueLimit + 1)
    /\ cancel \in Operations \cup {None} /\ terminal \in BOOLEAN
    /\ events \in Seq(Told) /\ Len(events) <= MaxEvents
    /\ asked \in Seq(Turns) /\ Len(asked) = turns
    /\ pending # None =>
          /\ turns > 0 /\ asked[turns].open
          /\ pending = [turn |-> turns, correlation |-> asked[turns].correlation, deadline |-> asked[turns].deadline]

\* What the session tells of a turn was received while the turn was open, its
\* deadline and the lease's end ahead and no cancellation asked for; the turn ends
\* once, after its output, and no turn tells more than the queue holds.
TurnsAreTold ==
    /\ \A t \in 1..turns :
          /\ Cardinality(Outputs(t)) <= QueueLimit
          /\ Cardinality(Ends(t)) <= 1
          /\ Ends(t) # {} => ~asked[t].open
          /\ \A i \in Outputs(t) :
                /\ events[i].at < asked[t].deadline
                /\ events[i].correlation = asked[t].correlation
                /\ \A e \in Ends(t) : i < e
    /\ \A i, j \in DOMAIN events : i < j => events[i].at <= events[j].at
    /\ \A i, j \in DOMAIN events :
          i < j /\ events[i].kind # "terminal" /\ events[j].kind # "terminal" => events[i].turn <= events[j].turn

\* Once its cancellation was asked for, a session tells nothing but that it was
\* cancelled, whatever its process still wrote, and that only when the operation
\* which asked confirmed that the process is gone.
SilentStep ==
    cancel # None =>
        \/ UNCHANGED <<pending, turns, events, cancel>>
        \/ /\ UNCHANGED <<pending, turns, cancel>>
           /\ terminal' /\ ~terminal
           /\ events' = events \/ Last(events').status = cancel
CancellingIsSilent == [][SilentStep]_vars

\* VIOLATED.  The stream of a session can be replayed: close does not ask whether
\* the session is terminal, and replay refuses an event after the terminal one.
StreamsReplay ==
    \A i \in DOMAIN events : events[i].kind = "terminal" => i = Len(events)

\* VIOLATED.  A session that is terminal has said so: at the event limit close and
\* acknowledge_cancel raise after they marked the session.
TerminalIsTold == terminal => \E i \in DOMAIN events : events[i].kind = "terminal"

\* VIOLATED.  A cancellation can be confirmed: after the lease's end every method
\* raises, so a session whose process took longer to go stays cancelling.
CancellationsCanBeConfirmed == cancel # None /\ ~terminal => FencedWhileCancelling

\* VIOLATED.  A correlation identifies a turn: a caller may use one again.
CorrelationsIdentifyTurns ==
    \A t, u \in 1..turns : asked[t].correlation = asked[u].correlation => t = u
=============================================================================
