---------------------------- MODULE RuntimeHome ----------------------------
(***************************************************************************)
(* The runtime home (awr_cli/install.py): config.json, state.json and the  *)
(* marker of the installation, written one after the other by install,     *)
(* repair, upgrade, rollback and uninstall; and the audit journal beside   *)
(* them (awr_cli/observability.py).                                        *)
(*                                                                         *)
(* A marker is how many installations it records: itself and the nested    *)
(* previous ones.  A digest of the audit journal is the number of records  *)
(* it was computed over.  Nothing here is locked: a process may run beside *)
(* another, fail with an OSError at any write, or be killed.               *)
(***************************************************************************)
EXTENDS Naturals, Sequences

CONSTANTS
    Processes,
    MaxUpgrades,    \* bound: upgrades and repairs
    AuditBudget     \* the records and bytes that _records accepts

VARIABLES
    home,           \* [files : those that are there, marker : 0 for none]
    audited,        \* the audit journal: for each record, its previous_digest
    processes,      \* process |-> [at, command, previous, created]
    upgrades,
    alone           \* whether the processes take turns

vars == <<home, audited, processes, upgrades, alone>>

Files    == {"config", "state"}
Commands == {"install", "repair", "upgrade", "rollback", "uninstall"}
Idle     == [at |-> "idle", command |-> "none", previous |-> 0, created |-> {}]

Init ==
    /\ home = [files |-> {}, marker |-> 0]
    /\ audited = <<>>
    /\ processes = [p \in Processes |-> Idle]
    /\ upgrades = 0
    /\ alone \in BOOLEAN

\* _marker: the previous installation must be the first one.
IsValid(marker) == marker <= 2

MayStart(command) ==
    /\ IsValid(home.marker)
    /\ command = "install" => home.marker = 0
    /\ command \in {"repair", "upgrade", "uninstall"} => home.marker > 0
    /\ command = "rollback" => home.marker > 1

Moves(p, process) == processes' = [processes EXCEPT ![p] = process]

Start(p, command) ==
    /\ alone => \A q \in Processes : processes[q].at = "idle"
    /\ processes[p].at = "idle" /\ MayStart(command)
    /\ upgrades' = IF command \in {"repair", "upgrade"} THEN upgrades + 1 ELSE upgrades
    /\ upgrades' <= MaxUpgrades
    /\ Moves(p, [at |-> IF command \in {"rollback", "uninstall"} THEN "marker" ELSE "config",
                 command |-> command, previous |-> home.marker, created |-> {}])
    /\ UNCHANGED <<home, audited, alone>>

\* A file that is there is kept.
WriteFile(p, file) ==
    /\ processes[p].at = file
    /\ home' = [home EXCEPT !.files = home.files \cup {file}]
    /\ Moves(p, [processes[p] EXCEPT !.at = IF file = "config" THEN "state" ELSE "marker",
                                     !.created = processes[p].created \cup ({file} \ home.files)])
    /\ UNCHANGED <<audited, upgrades, alone>>

MarkerAfter(process) ==
    IF process.command = "uninstall" THEN 0
    ELSE IF process.command = "rollback" THEN process.previous - 1
    ELSE process.previous + 1
WriteMarker(p) ==
    /\ processes[p].at = "marker"
    /\ home' = [home EXCEPT !.marker = MarkerAfter(processes[p])]
    /\ Moves(p, Idle)
    /\ UNCHANGED <<audited, upgrades, alone>>

\* Mutated form of the next definition: whatever is there is removed.
LeftAllBehind(process) == {}

\* What a failed attempt leaves of the files.
LeftBehind(process) == home.files \ process.created

\* The except clause of install; the other commands have nothing to undo.
Fail(p) ==
    /\ processes[p].at \in Files \cup {"marker"}
    /\ home' = IF processes[p].command \in {"rollback", "uninstall"} THEN home
               ELSE [home EXCEPT !.files = LeftBehind(processes[p])]
    /\ Moves(p, Idle)
    /\ UNCHANGED <<audited, upgrades, alone>>

Killed(p) ==
    /\ processes[p].at # "idle"
    /\ Moves(p, Idle)
    /\ UNCHANGED <<home, audited, upgrades, alone>>

\* AuditJournal._records.
Verifies == Len(audited) <= AuditBudget /\ \A i \in DOMAIN audited : audited[i] = i - 1

ReadAudit(p) ==
    /\ alone => \A q \in Processes : processes[q].at = "idle"
    /\ processes[p].at = "idle" /\ Verifies
    /\ Moves(p, [Idle EXCEPT !.at = "audit", !.previous = Len(audited)])
    /\ UNCHANGED <<home, audited, upgrades, alone>>

\* Mutated form of the next definition: the journal is opened to be written anew.
RewriteAudit(p) ==
    /\ processes[p].at = "audit"
    /\ audited' = <<processes[p].previous>>
    /\ Moves(p, Idle)
    /\ UNCHANGED <<home, upgrades, alone>>

WriteAudit(p) ==
    /\ processes[p].at = "audit"
    /\ audited' = Append(audited, processes[p].previous)
    /\ Moves(p, Idle)
    /\ UNCHANGED <<home, upgrades, alone>>

Next == \E p \in Processes :
    \/ \E command \in Commands : Start(p, command)
    \/ \E file \in Files : WriteFile(p, file)
    \/ WriteMarker(p) \/ Fail(p) \/ Killed(p)
    \/ ReadAudit(p) \/ WriteAudit(p)

Spec == Init /\ [][Next]_vars

-----------------------------------------------------------------------------
(* Properties. *)

TypeOK ==
    /\ home.files \subseteq Files
    /\ home.marker \in 0..(MaxUpgrades + 1)
    /\ audited \in Seq(0..AuditBudget)
    /\ \A p \in Processes : processes[p].at \in Files \cup {"idle", "marker", "audit"}

\* A home with a marker has its files, wherever an attempt was killed or failed: the
\* marker is written last, and an attempt that fails removes only what it created
\* (docs/awr-install.md).
IsComplete == home.marker > 0 => home.files = Files
InstalledIsComplete == alone => IsComplete

\* The journal's chain verifies up to the last record that was reported as written.
ChainHolds == \A i \in DOMAIN audited : audited[i] = i - 1
AuditIsKept == alone => ChainHolds

\* VIOLATED.  A second upgrade nests a third record in the marker, which no command
\* accepts any more.
HomesStayUsable == alone => IsValid(home.marker)

\* VIOLATED.  Two installations at once: the one that fails removes the files on which
\* the other one relied.
InstalledIsCompleteTogether == IsComplete

\* VIOLATED.  Two appends that read the same end of the journal break its chain for good.
AuditVerifiesTogether == ChainHolds

\* VIOLATED.  Only reading is limited: the record after the limit makes the journal
\* unreadable.
AuditStaysReadable == alone => Verifies
=============================================================================
