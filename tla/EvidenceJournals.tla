--------------------------- MODULE EvidenceJournals -------------------------
(***************************************************************************)
(* Chained evidence: the ledger of one agent and its replay                *)
(* (cross_agent_accounting.py), the journal with retention                 *)
(* (privacy_safe_journal.py), and two reports that are written in one go   *)
(* and judged by another process (operational_observability.py,            *)
(* runtime_observability.py).  A digest is the entry it is of.  A          *)
(* behaviour is of one of the four.                                        *)
(***************************************************************************)
EXTENDS Naturals, Sequences, SequencesExt, FiniteSets, FiniteSetsExt, Folds

CONSTANTS
    Ids,            \* event and record ids
    Actors,         \* operation ids of the journal, agents of a report
    Order,          \* the kinds a report must have; a lifecycle has them in this order
    Budget,         \* seconds of a ledger
    Retention,      \* max_records of the journal
    MaxAgents,      \* agents a report may name
    MaxEntries,     \* bounds the log
    None

VARIABLES
    contract,       \* which of the four
    log,            \* entries: [id, by, n, kind, amount, prev]
    used,           \* usage of the ledger
    anchor,         \* digest before the first entry that is retained
    known,          \* operation -> [n, kind] of its record, however long ago
    export,         \* usage in the record exported last, which shares the ledger's list
    file            \* the record as written: [log, used] with its panel, or None

vars == <<contract, log, used, anchor, known, export, file>>

Genesis == None
Dispositions == {"started", "accepted", "completed", "cancelled"}
Terminal == {"completed"}   \* "interrupted" is listed too, and no record has it
Kinds == CASE contract = "ledger" -> {"tool"} [] contract = "journal" -> Dispositions [] OTHER -> ToSet(Order)

Init ==
    /\ contract \in {"ledger", "journal", "operations", "lifecycle"}
    /\ log = <<>> /\ used = 0 /\ anchor = Genesis /\ known = <<>> /\ export = None /\ file = None

EndOf(s, first) == IF s = <<>> THEN first ELSE Last(s)
NextOf(s) == IF s = <<>> THEN 1 ELSE Last(s).n + 1
Entry(id, by, kind, amount) ==
    [id |-> id, by |-> by, n |-> NextOf(log), kind |-> kind, amount |-> amount, prev |-> EndOf(log, anchor)]

-----------------------------------------------------------------------------
(* AgentLedger. *)

\* Mutated form of the next definition.
AffordsMore(total, amount) == total < Budget

Affords(total, amount) == total + amount <= Budget

Charge(id, amount) ==
    /\ contract = "ledger" /\ Len(log) < MaxEntries
    /\ \A i \in DOMAIN log : log[i].id # id
    /\ Affords(used, amount)
    /\ log' = Append(log, Entry(id, None, "tool", amount))
    /\ used' = used + amount
    /\ UNCHANGED <<contract, anchor, known, export, file>>

\* export hands out the ledger's own list with the usage of that moment; writing
\* it, then or later, takes the list as it is by then.
Export ==
    /\ contract = "ledger" /\ export' = used
    /\ UNCHANGED <<contract, log, used, anchor, known, file>>

\* Mutated form of the next definition.
WriteExported(usage) == file' = [log |-> log, panel |-> None, used |-> IF export = None THEN usage ELSE export]

Write(usage) == file' = [log |-> log, panel |-> None, used |-> usage]

\* The record is written as it is exported, or an export kept from before is.
WriteRecord ==
    /\ contract = "ledger" /\ Write(used)
    /\ UNCHANGED <<contract, log, used, anchor, known, export>>

\* replay: a new ledger that is charged with every event of the record.
Total(entries) == MapThenFoldSet(LAMBDA x, y : x + y, 0, LAMBDA i : entries[i].amount, LAMBDA S : CHOOSE i \in S : TRUE, DOMAIN entries)
Replays(record) ==
    /\ \A i, j \in DOMAIN record.log : record.log[i].id = record.log[j].id => i = j
    /\ \A i \in DOMAIN record.log : Affords(Total(SubSeq(record.log, 1, i - 1)), record.log[i].amount)
    /\ Total(record.log) = record.used

-----------------------------------------------------------------------------
(* Journal. *)

\* Mutated form of the next definition.
AnsweredWhileRetained(op) == \E i \in DOMAIN log : log[i].by = op

\* A known operation is answered with its record, or refused as changed.
Answered(op) == op \in DOMAIN known

\* Mutated form of the next definition.
RotateOnly(entries) == log' = SubSeq(entries, 1 + Len(entries) - Min({Len(entries), Retention}), Len(entries)) /\ UNCHANGED anchor

\* The oldest entry goes when there are too many; its digest is the new anchor.
Rotate(entries) ==
    IF Len(entries) > Retention THEN log' = Tail(entries) /\ anchor' = Head(entries)
    ELSE log' = entries /\ UNCHANGED anchor

Record(id, op, kind) ==
    /\ contract = "journal" /\ NextOf(log) <= MaxEntries
    /\ ~Answered(op)
    /\ log # <<>> => Last(log).kind \notin Terminal
    /\ (log = <<>>) = (kind = "started")
    /\ Rotate(Append(log, Entry(id, op, kind, 0)))
    /\ known' = [x \in DOMAIN known \cup {op} |-> IF x = op THEN NextOf(log) ELSE known[x]]
    /\ UNCHANGED <<contract, used, export, file>>

Chained(entries, first) ==
    \A i \in DOMAIN entries :
       /\ entries[i].prev = IF i = 1 THEN first ELSE entries[i - 1]
       /\ entries[i].n = entries[1].n + i - 1

\* validate_journal, but for its demand that record ids differ.
ValidChain(entries, first) ==
    /\ Chained(entries, first)
    /\ first = Genesis => entries[1].n = 1
    /\ \A i, j \in DOMAIN entries : entries[i].by = entries[j].by => i = j

-----------------------------------------------------------------------------
(* Reports. *)

\* Agents and times matter in the one report, the ids of its events in the other.
Observe(id, agent, kind, at) ==
    /\ contract \in {"operations", "lifecycle"} /\ file = None /\ Len(log) < MaxEntries
    /\ IF contract = "operations" THEN id = None /\ agent # None ELSE id # None /\ agent = None /\ at = 0
    /\ log' = Append(log, Entry(id, agent, kind, at))
    /\ UNCHANGED <<contract, used, anchor, known, export, file>>

Agents(entries) == {entries[i].by : i \in DOMAIN entries}

\* The dashboards show how many agents there are, a metric is about one of them,
\* and the incident says how many events it is about.
PanelOf(entries) == [agents |-> Cardinality(Agents(entries)), metrics |-> Agents(entries), events |-> Len(entries)]

Seal ==
    /\ contract \in {"operations", "lifecycle"} /\ file = None /\ log # <<>>
    /\ file' = [log |-> log, used |-> 0, panel |-> PanelOf(log)]
    /\ UNCHANGED <<contract, log, used, anchor, known, export>>

\* The report before it is judged: an entry dropped, or two exchanged; numbers
\* and the digest of the whole are made to fit again, the digests in it are not.
Renumbered(s) == [i \in DOMAIN s |-> [s[i] EXCEPT !.n = i]]
Spoil ==
    /\ contract \in {"operations", "lifecycle"} /\ file # None /\ file.log = log
    /\ \E i, j \in DOMAIN log :
          file' = [file EXCEPT !.log = Renumbered(IF i = j THEN RemoveAt(log, i)
                                                  ELSE [log EXCEPT ![i] = log[j], ![j] = log[i]])]
    /\ UNCHANGED <<contract, log, used, anchor, known, export>>

\* Mutated form of the next definition.
SoundLinks(entries) ==
    \A i \in DOMAIN entries : entries[i].n = i

\* _validate_observations; the audit of the lifecycle has its chain.
Sound(entries) ==
    /\ entries # <<>> /\ Chained(entries, Genesis) /\ entries[1].n = 1

\* Mutated form of the next definition.
PanelFitsAgents(entries, panel) ==
    panel.metrics \subseteq Agents(entries) /\ panel.agents = Cardinality(Agents(entries))

PanelFits(entries, panel) ==
    /\ panel.metrics \subseteq Agents(entries)
    /\ panel.agents = Cardinality(Agents(entries))
    /\ panel.events = Len(entries)

OperationsAccepts(entries) ==
    /\ {entries[i].kind : i \in DOMAIN entries} = ToSet(Order)
    /\ Cardinality(Agents(entries)) <= MaxAgents
    /\ PanelFits(entries, file.panel)

LifecycleAccepts(entries) ==
    /\ [i \in DOMAIN entries |-> entries[i].kind] = Order
    /\ \A i, j \in DOMAIN entries : entries[i].id = entries[j].id => i = j

Accepts(entries) ==
    /\ Sound(entries)
    /\ IF contract = "operations" THEN OperationsAccepts(entries) ELSE LifecycleAccepts(entries)

Next ==
    \/ \E id \in Ids, amount \in 0..Budget : Charge(id, amount)
    \/ \E id \in Ids, op \in Actors, kind \in Kinds : Record(id, op, kind)
    \/ \E id \in Ids \cup {None}, agent \in Actors \cup {None}, kind \in Kinds, at \in 0..1 : Observe(id, agent, kind, at)
    \/ Export \/ WriteRecord \/ Seal \/ Spoil
Spec == Init /\ [][Next]_vars

-----------------------------------------------------------------------------
(* Properties. *)

TypeOK ==
    /\ Len(log) <= MaxEntries
    /\ contract = "journal" => Len(log) <= Retention /\ DOMAIN known \subseteq Actors
    /\ used <= Budget /\ (export # None => export <= used)
    /\ anchor = Genesis \/ contract = "journal"

\* A ledger spends at most its budget, and what was written of it replays to
\* the usage it states.
WrittenLedgersReplay ==
    contract = "ledger" =>
       /\ used = Total(log) /\ used <= Budget
       /\ file # None => Replays(file)

\* Whatever was rotated out, the journal that is left validates from its anchor,
\* and each operation was given one number: a retry is never appended again.
JournalsKeepTheirChain ==
    contract = "journal" /\ log # <<>> =>
       /\ ValidChain(log, anchor)
       /\ Cardinality(DOMAIN known) = Last(log).n
       /\ {known[op] : op \in DOMAIN known} = 1..Last(log).n
       /\ \A i \in DOMAIN log : known[log[i].by] = log[i].n

\* A report that is accepted is what was observed: no entry of it was left out or
\* moved, at its end neither, and a lifecycle is complete.
AcceptedIsAsObserved ==
    contract \in {"operations", "lifecycle"} /\ file # None /\ Accepts(file.log) =>
       /\ IsPrefix(file.log, log)
       /\ contract = "operations" => file.log = log
       /\ contract = "lifecycle" => Len(file.log) = Len(Order)

\* VIOLATED.  A record exported from a ledger replays: its events go on growing
\* with the ledger and its usage does not.
ExportsReplay == export # None => Replays([log |-> log, used |-> export])

\* VIOLATED.  The records of a journal validate: append accepts a record id twice,
\* and validate_journal does not.
RecordIdsAreUnique ==
    contract = "journal" => \A i, j \in DOMAIN log : log[i].id = log[j].id => i = j

\* VIOLATED.  Nothing follows the end of a session: a cancelled one goes on.
NothingFollowsTheEnd ==
    contract = "journal" => \A i \in DOMAIN log : log[i].kind \in {"completed", "cancelled"} => i = Len(log)

\* VIOLATED.  The trace of an accepted report goes forward in time.
AcceptedGoForward ==
    contract = "operations" /\ file # None /\ Accepts(file.log) =>
       \A i, j \in DOMAIN file.log : i <= j => file.log[i].amount <= file.log[j].amount
=============================================================================
