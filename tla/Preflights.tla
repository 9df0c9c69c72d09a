----------------------------- MODULE Preflights -----------------------------
(***************************************************************************)
(* The preflights an agent passes before a session is started for it.      *)
(*   registry     scripts/agent_registry.py: a profile of a published      *)
(*                registry, and what is asked of it                        *)
(*   eligibility  scripts/agent_capability_preflight.py: a declaration, a  *)
(*                configuration, and seven gates                           *)
(*   resources    scripts/resource_boundary.py: what a run was observed to *)
(*                use, against a budget                                    *)
(*                                                                         *)
(* A registry is loaded anew from a specification that changed; the digest *)
(* of the specification tells one from another.  Four profiles are always  *)
(* in it, and one of them stands for all: a request for no profile is      *)
(* refused.  A preflight answers for the specification it is given, and    *)
(* the session is started later.  A caller hands in a record with a result *)
(* and is told whether that record is sound: only the result that the      *)
(* record has to have is modelled.  Local qualification, the evidence and  *)
(* the offline boundary have one value each, and are left out.             *)
(***************************************************************************)
EXTENDS Naturals, FiniteSets

CONSTANTS
    Capabilities,   \* the capability vocabulary
    Protocols,
    Versions,       \* of a profile and its adapter
    MaxLoads,       \* bound: specifications a registry is loaded from
    MaxUse,         \* bound: what is used of a resource
    None

VARIABLES
    kind,
    registry,       \* [digest, profile]
    asked,          \* the record that was judged last, or None
    verdict         \* its result, or None

vars == <<kind, registry, asked, verdict>>

Kinds == {"registry", "eligibility", "resources"}
NonEmpty == SUBSET Capabilities \ {{}}

\* _profile, and validate_spec of those it looks at.
Profiles ==
    {p \in [version : Versions, protocols : SUBSET Protocols \ {{}}, capabilities : NonEmpty,
            unsupported : SUBSET Capabilities] : p.capabilities \cap p.unsupported = {}}
Registries == [digest : 1..MaxLoads, profile : Profiles]

Init ==
    /\ kind \in Kinds
    /\ registry \in {r \in Registries : r.digest = 1}
    /\ asked = None /\ verdict = None

\* AgentRegistry over the specification as it has become.
Load(profile) ==
    /\ registry.digest < MaxLoads
    /\ registry' = [digest |-> registry.digest + 1, profile |-> profile]
    /\ UNCHANGED <<kind, asked, verdict>>

Judge(record, result) ==
    asked' = record /\ verdict' = result /\ UNCHANGED <<kind, registry>>

-----------------------------------------------------------------------------
(* agent_registry.py *)

Requests == [version : Versions, protocol : Protocols, requested : NonEmpty]
\* The request and the configuration of a record, and the digest it was written for.
Records == [digest : 1..MaxLoads, request : Requests, configuration : {"accepted", "rejected", "unknown"}]

\* negotiate: a profile of another version, or without the protocol, is refused.
Negotiable(request) ==
    request.version = registry.profile.version /\ request.protocol \in registry.profile.protocols

\* Mutated form of the next definition: what is not requested is unsupported.
UnsupportedIfMore(request) == registry.profile.capabilities \ request.requested

Unsupported(request) == request.requested \ registry.profile.capabilities

Classification(record) ==
    IF record.configuration # "accepted" THEN "configuration_unavailable"
    ELSE IF Unsupported(record.request) # {} THEN "unsupported_capability"
    ELSE "compatible"

RegistryPreflight(record) ==
    /\ kind = "registry" /\ record.digest = registry.digest /\ Negotiable(record.request)
    /\ Judge(record, IF Classification(record) = "compatible" THEN "admitted" ELSE "blocked")

-----------------------------------------------------------------------------
(* agent_capability_preflight.py *)

\* The values of the gates: catalog_acceptance, setup_acceptance, credential_readiness,
\* host_gate and network_gate.
Gates == [catalog : {"accepted", "rejected", "unknown"}, setup : {"accepted", "rejected", "unknown"},
          credential : {"ready", "missing", "partial", "invalid", "not_required"},
          host : {"pass", "mismatch", "unknown"}, network : {"pass", "mismatch", "unknown"}]
Bad == {"rejected", "missing", "partial", "invalid", "mismatch", "unsupported", "incompatible"}

\* discover, and the configuration of preflight.
Declarations == [declared : NonEmpty, supported : NonEmpty, requested : NonEmpty, benchmark : NonEmpty]

CapabilitySupport(d) == IF d.requested \subseteq d.supported THEN "supported" ELSE "unsupported"
BenchmarkCompatibility(d) ==
    IF d.benchmark \subseteq d.supported /\ d.benchmark \subseteq d.requested THEN "compatible" ELSE "incompatible"

Observation(gates, d) ==
    {gates[g] : g \in DOMAIN gates} \cup {CapabilitySupport(d), BenchmarkCompatibility(d)}

\* Mutated form of the next definition: only what is rejected or unsupported is bad.
StatusOfRefused(observed) ==
    IF observed \cap {"rejected", "unsupported", "incompatible"} # {} THEN "not_eligible"
    ELSE IF "unknown" \in observed THEN "unknown" ELSE "eligible"

StatusOf(observed) ==
    IF observed \cap Bad # {} THEN "not_eligible"
    ELSE IF "unknown" \in observed THEN "unknown" ELSE "eligible"

EligibilityPreflight(gates, d) ==
    /\ kind = "eligibility"
    /\ Judge([gates |-> gates, declaration |-> d], StatusOf(Observation(gates, d)))

-----------------------------------------------------------------------------
(* resource_boundary.py: one dimension stands for the six, the timeout is    *)
(* the same kind of limit.                                                   *)

Budgets == [limit : 1..MaxUse, timeout : 1..MaxUse]
Observed == [used : 0..MaxUse, elapsed : 0..MaxUse, complete : BOOLEAN, requested : BOOLEAN, acknowledged : BOOLEAN]

Violations(budget, seen) ==
    (IF seen.used > budget.limit THEN {"limit"} ELSE {}) \cup
    (IF seen.elapsed > budget.timeout THEN {"timeout"} ELSE {}) \cup
    (IF ~seen.complete THEN {"process_tree_complete"} ELSE {}) \cup
    (IF seen.requested /\ ~seen.acknowledged THEN {"cancellation"} ELSE {}) \cup
    (IF seen.acknowledged /\ ~seen.requested THEN {"cancellation_state"} ELSE {})

Evaluate(budget, seen) ==
    /\ kind = "resources"
    /\ Judge([budget |-> budget, seen |-> seen], IF Violations(budget, seen) = {} THEN "accepted" ELSE "rejected")

Next ==
    \/ \E profile \in Profiles : kind = "registry" /\ Load(profile)
    \/ \E record \in Records : RegistryPreflight(record)
    \* bound: one judgement of these, which depends on nothing that was before it
    \/ asked = None /\ \E gates \in Gates, d \in Declarations : EligibilityPreflight(gates, d)
    \/ asked = None /\ \E budget \in Budgets, seen \in Observed : Evaluate(budget, seen)

Spec == Init /\ [][Next]_vars

-----------------------------------------------------------------------------
(* Properties. *)

TypeOK ==
    /\ kind \in Kinds /\ registry \in Registries
    /\ verdict \in {None, "admitted", "blocked", "eligible", "not_eligible", "unknown", "accepted", "rejected"}
    /\ asked = None <=> verdict = None

\* What is let through can be served: by the registry that it was asked of while that is
\* the present one, by an adapter whose every gate was seen to pass, and within the
\* budget with nobody left waiting for a cancellation.  What cannot is not let through.
AdmittedCanBeServed ==
    /\ kind = "registry" /\ verdict = "admitted" /\ asked.digest = registry.digest =>
          /\ asked.request.requested \subseteq registry.profile.capabilities \ registry.profile.unsupported
          /\ asked.request.version = registry.profile.version /\ asked.request.protocol \in registry.profile.protocols
          /\ asked.configuration = "accepted"
    /\ kind = "eligibility" /\ verdict # None =>
          (verdict = "eligible" <=>
              /\ asked.declaration.benchmark \subseteq asked.declaration.requested
              /\ asked.declaration.requested \subseteq asked.declaration.supported
              /\ asked.gates.catalog = "accepted" /\ asked.gates.setup = "accepted"
              /\ asked.gates.credential \in {"ready", "not_required"}
              /\ asked.gates.host = "pass" /\ asked.gates.network = "pass")
    /\ kind = "resources" /\ verdict = "accepted" =>
          /\ asked.seen.used <= asked.budget.limit /\ asked.seen.elapsed <= asked.budget.timeout
          /\ asked.seen.complete /\ asked.seen.requested = asked.seen.acknowledged

\* VIOLATED (agent_registry.py:195).  What was admitted is served by the registry of
\* later: the digest is compared once, and nothing is told that the registry was
\* loaded anew.
AdmittedIsServedLater ==
    kind = "registry" /\ verdict = "admitted" => asked.request.requested \subseteq registry.profile.capabilities

\* VIOLATED (specifications/agent-registry-v1.json:22).  The result of an ambiguous
\* observation is unknown: an unknown configuration is blocked.
AmbiguousIsUnknown ==
    kind = "registry" /\ verdict # None /\ asked.configuration = "unknown" => verdict = "unknown"

\* VIOLATED (agent_capability_preflight.py:68).  An eligible agent declared what it is asked for: the declared
\* capabilities are compared with nothing.
EligibleIsDeclared ==
    kind = "eligibility" /\ verdict = "eligible" => asked.declaration.requested \subseteq asked.declaration.declared
=============================================================================
