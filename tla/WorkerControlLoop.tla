------------------------- MODULE WorkerControlLoop -------------------------
(***************************************************************************)
(* The control loop of material worker actions                             *)
(* (scripts/worker_control_loop.py): quality, guidance and the user decide *)
(* on a proposal in this order, each decision is appended to a hash-linked *)
(* journal, and the result is checked against the journal by the caller.   *)
(*                                                                         *)
(* A loop opens a journal file of its own object (DecisionJournal(path)),  *)
(* and several loops may have the same file open.  The digest of an entry  *)
(* covers everything before it: an entry is the sequence of decisions it   *)
(* chains.  The authorities answer what they like.                         *)
(***************************************************************************)
EXTENDS Naturals, Sequences, SequencesExt

CONSTANTS
    Loops,
    Proposals,
    Escalating,         \* the proposals that are uncertain or blocked
    DecisionBudget,     \* bounds the entries of the journal
    None

ProposalAssumption == None \notin Proposals /\ DecisionBudget \in Nat

Authorities == <<"awq", "awg", "ui">>
Allowed == [awq |-> {"approved", "rejected"}, awg |-> {"approved", "rejected", "escalated"},
            ui |-> {"approved", "rejected", "cancelled"}]
Endings == {"rejected", "cancelled"}

VARIABLES
    file,       \* the lines of the journal file
    loops,      \* loop |-> [at, journal, proposal, decisions]
    results,    \* what run just returned, for its caller to check: [proposal, decisions, outcome, journal]
    alone       \* whether a loop opens the journal only when no other has it open

vars == <<file, loops, results, alone>>

Closed == [at |-> "closed", journal |-> <<>>, proposal |-> None, decisions |-> <<>>]

Init ==
    /\ file = <<>>
    /\ loops = [l \in Loops |-> Closed]
    /\ results = {}
    /\ alone \in BOOLEAN

\* _verify: numbers and links fit.
Verifies(lines) ==
    \A i \in DOMAIN lines :
        /\ Len(lines[i]) = i
        /\ Front(lines[i]) = IF i = 1 THEN <<>> ELSE lines[i - 1]

LastEntry(lines) == IF lines = <<>> THEN <<>> ELSE Last(lines)

\* What the objects of a loop hold: its journal, and the decisions of the run under way.
Become(l, at, journal, proposal, decisions) ==
    loops' = [loops EXCEPT ![l] = [at |-> at, journal |-> journal, proposal |-> proposal, decisions |-> decisions]]

\* The object remembers what it read; a journal that does not verify is not opened.
Open(l) ==
    /\ loops[l].at = "closed" /\ Verifies(file)
    /\ alone => \A k \in Loops : loops[k].at = "closed"
    /\ Become(l, "open", LastEntry(file), None, <<>>)
    /\ results' = {}
    /\ UNCHANGED <<file, alone>>

Run(l, p) ==
    /\ loops[l].at = "open"
    /\ Become(l, "deciding", loops[l].journal, p, <<>>)
    /\ results' = {}
    /\ UNCHANGED <<file, alone>>

\* What an authority may answer: about this proposal or another, durable or not.
Answers(authority) ==
    [authority : {authority}, proposal : Proposals, outcome : UNION {Allowed[a] : a \in DOMAIN Allowed},
     durable : BOOLEAN]
Stands(answer, l) ==
    answer.proposal = loops[l].proposal /\ answer.durable /\ answer.outcome \in Allowed[answer.authority]

\* run asks the next authority; an answer that does not stand ends the run.
Decide(l) ==
    /\ loops[l].at = "deciding" /\ Len(file) < DecisionBudget
    /\ \E answer \in Answers(Authorities[Len(loops[l].decisions) + 1]) :
          IF Stands(answer, l)
          THEN Become(l, "writing", loops[l].journal, loops[l].proposal, Append(loops[l].decisions, answer))
          ELSE Become(l, "open", loops[l].journal, None, <<>>)
    /\ results' = {}
    /\ UNCHANGED <<file, alone>>

\* Mutated form of the next definition: the chain starts again with each run.
EntryOfDecisions(l) == loops[l].decisions

EntryOf(l) == Append(loops[l].journal, Last(loops[l].decisions))

\* Mutated form of the next definition: work to escalate need not have been.
EscalatedUnchecked(l) == TRUE

Escalated(l) == loops[l].proposal \in Escalating => loops[l].decisions[2].outcome = "escalated"

Result(l, outcome) ==
    [proposal |-> loops[l].proposal, decisions |-> loops[l].decisions, outcome |-> outcome, journal |-> EntryOf(l)]

\* Mutated form of the next definition: only what was approved is journaled.
WriteApprovals(l) ==
    file' = IF Last(loops[l].decisions).outcome = "approved" THEN Append(file, EntryOf(l)) ELSE file

Write(l) == file' = Append(file, EntryOf(l))

\* Mutated form of the next definition: only a refusal ends the gates.
CompleteUnlessRefused(l) ==
    LET outcome == Last(loops[l].decisions).outcome IN
    IF outcome = "rejected" THEN results' = {Result(l, outcome)}
    ELSE IF Escalated(l) THEN results' = {Result(l, "approved")} ELSE results' = {}

\* After a refusal, a cancellation or the last gate: run returns, or raises
\* because work that had to be escalated was not.
Complete(l) ==
    LET outcome == Last(loops[l].decisions).outcome IN
    IF outcome \in Endings THEN results' = {Result(l, outcome)}
    ELSE IF Escalated(l) THEN results' = {Result(l, "approved")} ELSE results' = {}

\* append writes the line and then remembers the entry; run goes on.
Append_(l) ==
    /\ loops[l].at = "writing"
    /\ Write(l)
    /\ IF Last(loops[l].decisions).outcome \in Endings \/ Len(loops[l].decisions) = Len(Authorities)
       THEN /\ Complete(l)
            /\ Become(l, "open", EntryOf(l), None, <<>>)
       ELSE /\ Become(l, "deciding", EntryOf(l), loops[l].proposal, loops[l].decisions)
            /\ results' = {}
    /\ UNCHANGED alone

\* The loop is done with, or its process dies - after the line was written or before.
Close(l) ==
    /\ loops[l].at # "closed"
    /\ loops' = [loops EXCEPT ![l] = Closed]
    /\ file' \in {file} \cup (IF loops[l].at = "writing" THEN {Append(file, EntryOf(l))} ELSE {})
    /\ results' = {}
    /\ UNCHANGED alone

Next ==
    \E l \in Loops :
        \/ Open(l) \/ Decide(l) \/ Append_(l) \/ Close(l)
        \/ \E p \in Proposals : Run(l, p)

Spec == Init /\ [][Next]_vars

-----------------------------------------------------------------------------
(* Properties. *)

Decided == UNION {Answers(a) : a \in DOMAIN Allowed}
TypeOK ==
    /\ file \in Seq(Seq(Decided)) /\ alone \in BOOLEAN
    /\ \A i \in DOMAIN file : Len(file[i]) \in 1..i
    /\ loops \in [Loops -> [at : {"closed", "open", "deciding", "writing"}, journal : Seq(Decided),
                           proposal : Proposals \cup {None}, decisions : Seq(Decided)]]
    /\ \A l \in Loops :
          /\ loops[l].at \in {"deciding", "writing"} <=> loops[l].proposal \in Proposals
          /\ Len(loops[l].decisions) <= Len(Authorities)
    /\ results \subseteq [proposal : Proposals, decisions : Seq(Decided), outcome : Endings \cup {"approved"},
                          journal : Seq(Decided)]

\* check.
Checks(r) ==
    LET names    == [i \in DOMAIN r.decisions |-> r.decisions[i].authority]
        outcomes == {r.decisions[i].outcome : i \in DOMAIN r.decisions}
        final    == Last(r.decisions).outcome IN
    /\ r.decisions # <<>> /\ IsPrefix(names, Authorities)
    /\ r.outcome = "approved" => names = Authorities /\ final = "approved" /\ outcomes \cap Endings = {}
    /\ r.outcome = "rejected" => "rejected" \in outcomes
    /\ r.outcome = "cancelled" => final = "cancelled"
    /\ IsSuffix(r.decisions, r.journal)

\* Every result run returns passes the check of its caller; it rests on durable
\* answers of the authorities about this very proposal; and what was uncertain or blocked is
\* approved only after guidance escalated it, which the check does not look at.
ResultsCheck ==
    \A r \in results :
        /\ Checks(r)
        /\ \A i \in DOMAIN r.decisions : r.decisions[i].durable /\ r.decisions[i].proposal = r.proposal
        /\ r.outcome = "approved" /\ r.proposal \in Escalating => r.decisions[2].outcome = "escalated"

LineOf(entry) == SelectInSeq(file, LAMBDA line : line = entry)

\* Whatever other loops wrote in between, the decisions of a result are lines of the
\* file, in the order they were taken, the last with the digest the result names.
ResultsAreJournaled ==
    \A r \in results :
        LET n     == Len(r.journal)
            k     == Len(r.decisions)
            At(i) == LineOf(SubSeq(r.journal, 1, n - k + i)) IN
        \A i \in 1..k : At(i) > 0 /\ (i > 1 => At(i) > At(i - 1))

\* Loops that open the file one after the other, whatever became of those before,
\* leave a journal that can be opened again.
AloneTheJournalVerifies == alone => Verifies(file)

\* VIOLATED.  Nothing keeps two objects from having the file open: both append their
\* first entry to the same last one, and the journal can never be opened again.
JournalVerifies == Verifies(file)
=============================================================================
