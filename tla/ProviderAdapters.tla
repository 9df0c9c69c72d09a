-------------------------- MODULE ProviderAdapters --------------------------
(***************************************************************************)
(* The offline adapters of the providers and the checkers of their traces. *)
(*   codex        CodexStyleAdapter,    scripts/codex_adapter.py           *)
(*   reference    ReferenceAdapter,     scripts/agent_adapter.py           *)
(*   opendesk     OpenDeskStyleAdapter, scripts/opendesk_adapter.py        *)
(*   production   ProductionAdapter,    scripts/provider_adapters.py       *)
(*   protocol     AdapterProtocol,  scripts/provider_adapter_protocol.py   *)
(*   desklive     OpenDeskLiveHarness, scripts/opendesk_live_adapter.py,   *)
(*                constructed with its binding                             *)
(*   codexlive, opencodelive, opencode   records that are only validated:  *)
(*                scripts/codex_live_adapter.py, opencode_live_adapter.py, *)
(*                opencode_adapter.py                                      *)
(* Bindings and the privacy scan are always right; a digest, an id and a   *)
(* checkpoint are one of Refs.                                             *)
(***************************************************************************)
EXTENDS Naturals, Sequences, FiniteSets

CONSTANTS
    Kinds,
    Refs,
    Capabilities, Supported,
    MaxRecords,     \* bound of the trace, per kind
    None

VARIABLES
    kind, state,
    bound,          \* is there a binding?
    negotiated,
    requests,       \* the requests that were taken
    checkpoint,
    trace,          \* [op, from, to, ref, caps, served]
    accepted        \* did the validator take the record that was grown?

vars == <<kind, state, bound, negotiated, requests, checkpoint, trace, accepted>>

Adapters == {"codex", "reference", "opendesk", "production", "protocol", "desklive"}

StartOf == [codex |-> "undiscovered", reference |-> "undiscovered", opendesk |-> "undiscovered",
          production |-> "admitted", protocol |-> "new", desklive |-> "undiscovered",
          codexlive |-> "admitted", opencodelive |-> "admitted", opencode |-> "native"]

Move(op, from, to) == [op |-> op, from |-> from, to |-> to]

-----------------------------------------------------------------------------
(* The lifecycle tables; "" is the present state. *)

\* Mutated form of the next definition: a turn takes an interrupted session on.
CodexMovesOn ==
    {Move("discover", {"undiscovered"}, "discovered"), Move("start", {"discovered"}, "active"),
     Move("turn", {"active", "interrupted"}, "active"), Move("interrupt", {"active"}, "interrupted"),
     Move("close", {"active"}, "closed"), Move("fail", {"active"}, "failed")}

CodexMoves ==
    {Move("discover", {"undiscovered"}, "discovered"), Move("start", {"discovered"}, "active"),
     Move("turn", {"active"}, "active"), Move("interrupt", {"active"}, "interrupted"),
     Move("close", {"active"}, "closed"), Move("fail", {"active"}, "failed")}

ReferenceMoves ==
    {Move("discover", {"undiscovered"}, "discovered"), Move("start", {"discovered"}, "started"),
     Move("interact", {"started", "active"}, "active"),
     Move("terminate", {"started", "active"}, "terminated"), Move("fail", {"started", "active"}, "failed")}

OpenDeskMoves ==
    {Move("discover", {"undiscovered"}, "ready"), Move("start", {"ready"}, "active"),
     Move("request", {"ready", "active"}, "active"),
     Move("terminate", {"ready", "active"}, "terminated"), Move("fail", {"ready", "active"}, "failed")}

ProductionMoves ==
    {Move("discover", {"admitted"}, "discovered"), Move("negotiate", {"discovered"}, "negotiated"),
     Move("request", {"negotiated", "active", "resumed"}, "active"), Move("stream", {"active"}, "active"),
     Move("interrupt", {"active"}, "interrupted"), Move("resume", {"interrupted"}, "resumed"),
     Move("error", {"active", "resumed"}, "failed"), Move("close", {"active", "resumed"}, "completed")}

Live == {"ready", "active", "streaming", "interrupted"}
ProtocolMoves ==
    {Move("admit", {"new"}, "admitted"), Move("discover", {"admitted"}, "discovered"),
     Move("negotiate", {"discovered"}, "ready"), Move("request", {"ready", "streaming"}, "active"),
     Move("tool", {"ready", "active"}, "active"), Move("stream_open", {"ready", "active"}, "streaming"),
     Move("stream_chunk", {"streaming"}, "streaming"), Move("stream_end", {"streaming"}, "active"),
     Move("interrupt", {"ready", "active", "streaming"}, "interrupted"),
     Move("checkpoint", {"ready", "active", "interrupted"}, ""), Move("resume", {"interrupted"}, "active"),
     Move("fail", Live \cup {"new", "admitted", "discovered"}, "failed"),
     Move("close", Live \cup {"admitted", "discovered"}, "closed")}

DeskLiveMoves ==
    {Move("discover", {"undiscovered"}, "discovered"), Move("negotiate", {"discovered"}, "negotiated"),
     Move("start", {"negotiated"}, "active"), Move("request", {"active"}, "awaiting_response"),
     Move("response", {"awaiting_response"}, "active"), Move("response", {"awaiting_response"}, "failed"),
     Move("interrupt", {"active", "awaiting_response"}, "interrupted"),
     Move("resume", {"interrupted"}, "active"), Move("close", {"active"}, "completed")}

CodexLiveMoves ==
    {Move("discover", {"admitted"}, "discovered"), Move("start", {"discovered"}, "active"),
     Move("request", {"active"}, "awaiting_response"), Move("response", {"awaiting_response"}, "active"),
     Move("interrupt", {"active", "awaiting_response"}, "interrupted"), Move("close", {"active"}, "closed"),
     Move("fail", {"active", "awaiting_response"}, "failed")}

OpenCodeLiveMoves ==
    {Move("request", {"admitted"}, "requested"), Move("response", {"requested"}, "responding"),
     Move("interrupt", {"responding"}, "interrupted"), Move("resume", {"interrupted"}, "resumed"),
     Move("close", {"resumed"}, "completed")}

OpenCodeMoves ==
    {Move(op, {"native"}, "native") : op \in
        {"session.created", "message.part", "tool.started", "tool.completed", "session.failed", "session.completed"}}

Moves == [codex |-> CodexMoves, reference |-> ReferenceMoves, opendesk |-> OpenDeskMoves,
          production |-> ProductionMoves, protocol |-> ProtocolMoves, desklive |-> DeskLiveMoves,
          codexlive |-> CodexLiveMoves, opencodelive |-> OpenCodeLiveMoves, opencode |-> OpenCodeMoves]

Ended == {"interrupted", "closed", "failed", "completed", "terminated"}

-----------------------------------------------------------------------------
(* What else an operation asks for. *)

\* Mutated form of the next definition: what is routed is served, negotiated or not.
ServesRouted(cap) == cap \in Supported

Serves(cap) ==
    /\ cap \in Supported
    /\ kind \in {"protocol", "desklive"} => cap \in negotiated

\* Mutated form of the next definition: any checkpoint will do.
ResumesAny(ref) == TRUE

\* resume: with the checkpoint that is kept, or without one if none is.
Resumes(ref) == ref = checkpoint

Outstanding ==
    LET asked == {i \in DOMAIN trace : trace[i].op \in {"request", "response"}}
    IN  IF asked = {} THEN None
        ELSE LET last == trace[CHOOSE i \in asked : \A j \in asked : j <= i]
             IN  IF last.op = "request" THEN last.ref ELSE None

Permits(op, ref) ==
    CASE kind = "production" /\ op = "request" -> ref \in Refs \ requests
      [] kind = "production" /\ op \in {"stream", "interrupt", "error", "close"} -> ref \in requests
      [] kind \in {"production", "protocol"} /\ op = "resume" -> Resumes(ref)
      [] op = "checkpoint" \/ (kind = "desklive" /\ op \in {"interrupt", "resume"}) -> ref \in Refs
      [] kind = "desklive" /\ op = "request"   -> ref \in Refs \ requests
      [] kind = "desklive" /\ op = "response"  -> ref \in requests
      [] kind = "codexlive" /\ op = "request"  -> ref \in Refs /\ Outstanding = None
      [] kind = "codexlive" /\ op = "response" -> ref = Outstanding
      [] kind = "opencode" -> ref \in Refs /\ \A i \in DOMAIN trace : trace[i].op = op => trace[i].ref # ref
      [] OTHER -> ref = None

Note(op, to, ref, caps, served) ==
    /\ Len(trace) < MaxRecords[kind] /\ ~accepted
    /\ trace' = Append(trace, [op |-> op, from |-> state, to |-> to, ref |-> ref, caps |-> caps, served |-> served])
    /\ UNCHANGED <<kind, accepted>>

Init ==
    /\ kind \in Kinds /\ state = StartOf[kind]
    /\ bound = (kind \notin {"opendesk", "protocol", "production"})
    /\ negotiated = {} /\ requests = {} /\ checkpoint = None
    /\ trace = <<>> /\ accepted = FALSE

\* An operation that asks for no capability.  Before there is a binding no result can be
\* built: the protocol has taken the move by then, the others have not.
Do(m, ref) ==
    /\ m.op \notin {"negotiate", "tool"} /\ ~(m.op = "request" /\ kind \in Adapters)
    /\ state \in m.from /\ Permits(m.op, ref)
    /\ kind = "opendesk" => bound \/ m.op \in {"discover", "start"}
    /\ LET to == IF m.to = "" THEN state ELSE m.to IN
          /\ state' = to
          /\ IF \/ kind = "production" /\ m.op = "discover"
                \/ kind = "protocol" /\ m.op = "fail" /\ ~bound
             THEN UNCHANGED <<kind, trace, accepted>>
             ELSE Note(m.op, to, ref, {}, TRUE)
    /\ bound' = (bound \/ m.op \in {"start", "admit"})
    /\ checkpoint' = IF (kind = "production" /\ m.op = "interrupt") \/ m.op = "checkpoint" THEN ref ELSE checkpoint
    /\ UNCHANGED <<negotiated, requests>>

\* negotiate: production refuses after it has bound the session, the protocol reports, the
\* live harness takes what it can.
Negotiate(m, caps) ==
    /\ m.op = "negotiate" /\ state \in m.from /\ caps # {}
    /\ bound' = TRUE
    /\ \/ /\ IF kind = "desklive" THEN caps \cap Supported # {} ELSE caps \subseteq Supported
          /\ negotiated' = caps \cap Supported /\ state' = m.to
          /\ Note(m.op, m.to, None, caps \cap Supported, TRUE)
       \/ /\ kind = "protocol" /\ ~(caps \subseteq Supported)
          /\ Note(m.op, state, None, caps, FALSE) /\ UNCHANGED <<negotiated, state>>
       \/ /\ kind = "production" /\ ~(caps \subseteq Supported)
          /\ UNCHANGED <<kind, negotiated, state, trace, accepted>>
    /\ UNCHANGED <<requests, checkpoint>>

\* request and tool_or_file: what is not supported is reported, or refused by the harness.
Request(m, ref, cap) ==
    /\ m.op \in {"request", "tool"} /\ kind \in Adapters /\ state \in m.from /\ bound
    /\ Permits(m.op, ref)
    /\ IF Serves(cap)
       THEN /\ state' = m.to /\ requests' = requests \cup ({ref} \ {None})
            /\ Note(m.op, m.to, ref, {cap}, TRUE)
       ELSE /\ kind # "desklive" /\ Note(m.op, state, ref, {cap}, FALSE)
            /\ UNCHANGED <<state, requests>>
    /\ UNCHANGED <<bound, negotiated, checkpoint>>

\* Mutated form of the next definition: the end is enough.
AcceptedAtTheEnd == state \in Ended

Accepted == state \in Ended /\ (kind = "codexlive" => Outstanding = None)

Accept ==
    /\ kind \notin Adapters /\ trace # <<>> /\ ~accepted
    /\ CASE kind = "opencodelive" -> Len(trace) = 5 /\ state = "completed"
         [] kind = "opencode"     -> TRUE
         [] OTHER                 -> Accepted
    /\ accepted' = TRUE
    /\ UNCHANGED <<kind, state, bound, negotiated, requests, checkpoint, trace>>

-----------------------------------------------------------------------------
(* The checkers of the traces: <<from, operation, to>>. *)

Steps(moves) == UNION {{<<f, m.op, m.to>> : f \in m.from} : m \in moves}

CodexChecked ==
    Steps({Move("discover", {"undiscovered"}, "discovered"), Move("start", {"discovered"}, "active"),
           Move("turn", {"active"}, "active"), Move("interrupt", {"active"}, "interrupted"),
           Move("close", {"active"}, "closed"), Move("fail", {"active"}, "failed")})
ReferenceChecked ==
    Steps({Move("discover", {"undiscovered"}, "discovered"), Move("start", {"discovered"}, "started"),
           Move("interact", {"started", "active"}, "active"),
           Move("terminate", {"started", "active"}, "terminated"), Move("fail", {"started", "active"}, "failed")})
OpenDeskChecked ==
    Steps({Move("discover", {"undiscovered"}, "ready"), Move("start", {"ready"}, "active"),
           Move("request", {"ready", "active"}, "ready"), Move("request", {"ready", "active"}, "active"),
           Move("terminate", {"ready", "active"}, "terminated"), Move("fail", {"ready", "active"}, "failed")})
ProtocolChecked ==
    {<<f, op, t>> : f \in {"ready", "active"}, op \in {"request", "tool"}, t \in {"ready", "active"}}
    \cup {<<f, "checkpoint", t>> : f, t \in {"ready", "active", "interrupted"}}
    \cup Steps({Move("admit", {"new"}, "admitted"), Move("discover", {"admitted"}, "discovered"),
                Move("negotiate", {"discovered"}, "ready"), Move("negotiate", {"discovered"}, "discovered"),
                Move("stream_open", {"ready", "active"}, "streaming"), Move("stream_chunk", {"streaming"}, "streaming"),
                Move("stream_end", {"streaming"}, "active"),
                Move("interrupt", {"ready", "active", "streaming"}, "interrupted"),
                Move("resume", {"interrupted"}, "active"), Move("fail", Live, "failed"), Move("close", Live, "closed")})

Checked == [codex |-> CodexChecked, reference |-> ReferenceChecked, opendesk |-> OpenDeskChecked,
            protocol |-> ProtocolChecked, desklive |-> Steps(DeskLiveMoves)]

Follows(steps) ==
    \A i \in DOMAIN trace :
        /\ <<trace[i].from, trace[i].op, trace[i].to>> \in steps
        /\ trace[i].from = IF i = 1 THEN StartOf[kind] ELSE trace[i - 1].to

\* validate_trace; the live one compares a response with the request that waits and ends
\* with none waiting.
IsAccepted ==
    /\ Follows(Checked[kind])
    /\ kind = "desklive" =>
          /\ state = "completed" /\ Outstanding = None
          /\ \A i \in DOMAIN trace : trace[i].op = "response" =>
                \E j \in 1..(i - 1) : /\ trace[j].op = "request" /\ trace[j].ref = trace[i].ref
                                      /\ \A k \in (j + 1)..(i - 1) : trace[k].op \notin {"request", "response"}

\* The checker of the production adapters takes one script only.
IsTheScript ==
    /\ [i \in DOMAIN trace |-> trace[i].op] = <<"negotiate", "request", "stream", "interrupt", "resume", "close">>
    /\ trace[1].caps = Supported /\ trace[2].served
    /\ \A i \in 3..6 : trace[i].ref = trace[2].ref

Next ==
    \/ \E m \in Moves[kind] :
          \/ \E ref \in Refs \cup {None} : Do(m, ref) \/ \E cap \in Capabilities : Request(m, ref, cap)
          \/ \E caps \in SUBSET Capabilities : Negotiate(m, caps)
    \/ Accept

Spec == Init /\ [][Next]_vars

-----------------------------------------------------------------------------
(* Properties. *)

TypeOK ==
    /\ kind \in Kinds /\ bound \in BOOLEAN /\ negotiated \subseteq Supported
    /\ requests \subseteq Refs /\ checkpoint \in Refs \cup {None}
    /\ \A i \in DOMAIN trace : trace[i].ref \in Refs \cup {None} /\ trace[i].caps \subseteq Capabilities

\* Whatever was called in whatever order: the trace of an adapter that has ended passes the
\* checker that was written for it.
TracesAreAccepted ==
    kind \in {"codex", "reference", "opendesk"} /\ state \in Ended => IsAccepted

\* A request is served for a capability that was negotiated before it.
ServedAreSupported ==
    kind \in {"protocol", "desklive"} => \A i \in DOMAIN trace : trace[i].op \in {"request", "tool"} /\ trace[i].served =>
        \E j \in 1..(i - 1) : trace[j].op = "negotiate" /\ trace[j].served /\ trace[i].caps \subseteq trace[j].caps

\* Work is resumed from the checkpoint that was recorded last.
ResumesGoBack ==
    kind \in {"production", "protocol"} => \A i \in DOMAIN trace : trace[i].op = "resume" /\ trace[i].ref # None =>
        \E j \in 1..(i - 1) :
            /\ trace[j].op \in {"interrupt", "checkpoint"} /\ trace[j].ref = trace[i].ref
            /\ \A k \in (j + 1)..(i - 1) : trace[k].op \in {"interrupt", "checkpoint"} => trace[k].ref = None

\* In a record that was accepted every request has its answer before the next request and
\* before the end.
AcceptedAreAnswered ==
    kind \in {"codexlive", "opencodelive"} /\ accepted => \A i \in DOMAIN trace : trace[i].op = "request" =>
        i < Len(trace) /\ trace[i + 1].op = "response" /\ trace[i + 1].ref = trace[i].ref

\* VIOLATED (check_production_provider_adapters.py).  Only one script passes.
TracesFit == kind = "production" /\ state = "completed" => IsTheScript

\* VIOLATED (provider_adapter_protocol.py).  A request while a stream is open, an end
\* before there was a negotiation: the adapter does it and its checker refuses it.
ProtocolTracesAreAccepted == kind = "protocol" /\ state \in {"closed", "failed"} => IsAccepted

\* VIOLATED (opendesk_live_adapter.py:98).  A response for another request than the one
\* that waits; a session that was interrupted while a request waited.
LiveTracesAreAccepted == kind = "desklive" /\ state = "completed" => IsAccepted

\* VIOLATED (codex_live_adapter.py).  A record that ends by interrupting a request that
\* waits is never accepted.
InterruptedAreAccepted == kind = "codexlive" /\ state \in Ended => Outstanding = None

\* VIOLATED (provider_adapters.py:163).  What is closed need not be the request at work.
CloseNamesTheOutstanding ==
    kind = "production" /\ state = "completed" => trace[Len(trace)].ref = Outstanding

\* VIOLATED (provider_adapter_protocol.py).  Without a checkpoint the session is resumed
\* with none.
ResumesHaveACheckpoint ==
    kind = "protocol" => \A i \in DOMAIN trace : trace[i].op = "resume" => trace[i].ref # None

\* VIOLATED (provider_adapter_protocol.py:121, provider_adapters.py:111).  A failure that is
\* reported before there is a binding raises and has changed the state; a negotiation that
\* was refused has bound the session.
RefusalsChangeNothing ==
    [][/\ trace' = trace /\ kind = "protocol" => state' = state
       /\ trace' = trace /\ kind = "production" => bound' = bound]_vars

\* VIOLATED (opencode_adapter.py).  Native events follow the end of the session.
NothingFollowsTheEnd ==
    kind = "opencode" => \A i \in DOMAIN trace : trace[i].op \in {"session.failed", "session.completed"} => i = Len(trace)
=============================================================================
