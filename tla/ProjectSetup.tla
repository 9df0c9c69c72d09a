---------------------------- MODULE ProjectSetup ----------------------------
(***************************************************************************)
(* How a project comes under the runtime: "awr setup" adopts a checkout    *)
(* (awr_cli/existing_project_setup.py), "awr project-init" lays out an     *)
(* empty directory (awr_cli/project_bootstrap.py), and both are registered *)
(* under their name (awr_cli/project_registry.py).                         *)
(*                                                                         *)
(* A file is the name and the commit it was written for; the manifest, the *)
(* state record and the graph depend on both, the binding on the name.     *)
(* The helper and the README are always the same and left out, the runtime *)
(* home is the module RuntimeHome.  Any process may be killed.             *)
(***************************************************************************)
EXTENDS Naturals, FiniteSets

CONSTANTS
    Processes,
    Checkouts,
    Names,
    MaxHead,        \* bound: commits of a checkout
    None

VARIABLES
    head,           \* checkout |-> its commit, or 0 when it is no checkout
    files,          \* checkout |-> [FileNames -> None, Torn or what it was written for]
    registry,       \* name |-> [checkout, binding], or None
    processes,      \* process |-> [at, command, checkout, name, head, existed, read]
    alone           \* whether the processes take turns

vars == <<head, files, registry, processes, alone>>

FileNames == {"binding", "manifest", "state", "graph"}
Torn      == [name |-> None, head |-> 0]
Idle      == [at |-> "idle"]
NoFiles   == [f \in FileNames |-> None]

Init ==
    /\ head \in [Checkouts -> {0, 1}]
    /\ files = [c \in Checkouts |-> NoFiles]
    /\ registry = [n \in Names |-> None]
    /\ processes = [p \in Processes |-> Idle]
    /\ alone \in BOOLEAN

IsFree(p) == /\ processes[p] = Idle
             /\ alone => \A q \in Processes : processes[q] = Idle
Goes(p, process) == processes' = [processes EXCEPT ![p] = process]

\* The owner of the checkout commits.
Commit(c) ==
    /\ head[c] \in 1..(MaxHead - 1)
    /\ head' = [head EXCEPT ![c] = head[c] + 1]
    /\ UNCHANGED <<files, registry, processes, alone>>

\* setup_existing reads the commit once and writes what belongs to it, file by file.
StartSetup(p, c, n) ==
    /\ IsFree(p) /\ head[c] > 0
    /\ Goes(p, [at |-> "binding", command |-> "setup", checkout |-> c, name |-> n, head |-> head[c]])
    /\ UNCHANGED <<head, files, registry, alone>>

\* Mutated form of the next definition: only the product's own file is looked for.
EmptyOfProduct(c) == files[c].manifest = None

\* _directory: a checkout is never empty.
Empty(c) == head[c] = 0 /\ files[c] = NoFiles

\* bootstrap.
StartBootstrap(p, c, n) ==
    /\ IsFree(p) /\ Empty(c)
    /\ Goes(p, [at |-> "manifest", command |-> "bootstrap", checkout |-> c, name |-> n, head |-> 0])
    /\ UNCHANGED <<head, files, registry, alone>>

StartRegister(p, c, n) ==
    /\ IsFree(p)
    /\ Goes(p, [at |-> "register", command |-> "register", checkout |-> c, name |-> n, head |-> 0])
    /\ UNCHANGED <<head, files, registry, alone>>

Order == [setup     |-> [binding |-> "manifest", manifest |-> "state", state |-> "graph", graph |-> "register"],
          bootstrap |-> [manifest |-> "binding", binding |-> "state", state |-> "done"]]
ContentOf(process) ==
    [name |-> process.name, head |-> IF process.at = "binding" THEN 0 ELSE process.head]

\* Mutated form of the next definition: what is there is written again.
MayOverwrite(process) == TRUE

\* _write_managed; bootstrap writes without looking.
MayWrite(process) ==
    process.command = "setup" => files[process.checkout][process.at] \in {None, ContentOf(process)}

After(process) ==
    LET next == Order[process.command][process.at] IN
    IF next = "done" THEN Idle ELSE [process EXCEPT !.at = next]

Write(p) ==
    /\ processes[p] # Idle /\ processes[p].at \in FileNames
    /\ MayWrite(processes[p])
    /\ files' = [files EXCEPT ![processes[p].checkout][processes[p].at] = ContentOf(processes[p])]
    /\ Goes(p, After(processes[p]))
    /\ UNCHANGED <<head, registry, alone>>

\* The except clause of bootstrap removes the layout; setup leaves what it wrote.
Fail(p) ==
    /\ processes[p] # Idle
    /\ files' = IF processes[p].command = "bootstrap"
                THEN [files EXCEPT ![processes[p].checkout] = NoFiles] ELSE files
    /\ Goes(p, Idle)
    /\ UNCHANGED <<head, registry, alone>>

\* A write that is cut short leaves the file with a part of its content.
Killed(p) ==
    /\ processes[p] # Idle
    /\ files' \in {files} \cup
          (IF processes[p].at \in FileNames /\ (files[processes[p].checkout][processes[p].at] = None
                                                \/ processes[p].command = "bootstrap")
           THEN {[files EXCEPT ![processes[p].checkout][processes[p].at] = Torn]} ELSE {})
    /\ Goes(p, Idle)
    /\ UNCHANGED <<head, registry, alone>>

\* Mutated form of the next definition: a name goes to whoever asks last.
MayTakeName(c, n) == TRUE

MayRegister(c, n) == registry[n] \in {None, [checkout |-> c, name |-> n]}

IsBound(c, n) ==
    /\ files[c].binding # None /\ files[c].binding.name = n
    /\ files[c].state # None /\ files[c].state.name = n

\* register: the layout is checked, the registry loaded,
LoadRegistry(p) ==
    LET process == processes[p] IN
    /\ process # Idle /\ process.at = "register"
    /\ IsBound(process.checkout, process.name) /\ MayRegister(process.checkout, process.name)
    /\ Goes(p, [at |-> "save", command |-> "register", checkout |-> process.checkout, name |-> process.name,
                read |-> registry])
    /\ UNCHANGED <<head, files, registry, alone>>

\* and written as it was loaded, with the project in it.
SaveRegistry(p) ==
    LET process == processes[p] IN
    /\ process # Idle /\ process.at = "save"
    /\ registry' = [process.read EXCEPT ![process.name] = [checkout |-> process.checkout, name |-> process.name]]
    /\ Goes(p, Idle)
    /\ UNCHANGED <<head, files, alone>>

Next ==
    \/ \E c \in Checkouts : Commit(c)
    \/ \E p \in Processes, c \in Checkouts, n \in Names :
          StartSetup(p, c, n) \/ StartBootstrap(p, c, n) \/ StartRegister(p, c, n)
    \/ \E p \in Processes : Write(p) \/ Fail(p) \/ Killed(p) \/ LoadRegistry(p) \/ SaveRegistry(p)

Spec == Init /\ [][Next]_vars

-----------------------------------------------------------------------------
(* Properties. *)

Texts == [name : Names, head : 0..MaxHead]

TypeOK ==
    /\ head \in [Checkouts -> 0..MaxHead]
    /\ \A c \in Checkouts : files[c] \in [FileNames -> Texts \cup {None, Torn}]
    /\ registry \in [Names -> [checkout : Checkouts, name : Names] \cup {None}]

\* Whatever is done to it afterwards, killed or refused half-way, a project that is
\* registered keeps the binding and the state it was registered with.
AreBound == \A n \in Names : registry[n] # None => IsBound(registry[n].checkout, n)
RegistrationsLast == alone => AreBound

\* What belongs to a commit is all of one commit and of the binding's project, also in
\* a checkout that moved on between a setup that was cut short and the next one.
LayoutsAreOfOneCommit ==
    alone => \A c \in Checkouts : head[c] > 0 =>
        \A f, g \in FileNames \ {"binding"} :
            LET one == files[c][f]
                two == files[c][g] IN
            {one, two} \cap {None, Torn} = {} =>
                one = two /\ files[c].binding \notin {None, Torn} /\ files[c].binding.name = one.name

\* A name that is registered stays with its checkout.
Stay == \A n \in Names : registry[n] # None => registry'[n] = registry[n]
RegistrationsStay == [][alone => Stay]_vars

\* VIOLATED.  Two registrations that loaded the same registry: the last one wins.
RegistrationsStayTogether == [][Stay]_vars

\* VIOLATED.  A bootstrap that fails removes the layout of one that succeeded meanwhile.
RegisteredAreBoundTogether == AreBound

\* VIOLATED.  docs/getting-started.md:14 says that setup is idempotent.  After a commit,
\* or when it was killed during a write, it is refused for good.
SetupCanBeRepeated ==
    alone => \A c \in Checkouts, n \in Names : head[c] > 0 /\ registry[n] # None /\ registry[n].checkout = c =>
        \A f \in FileNames :
            files[c][f] = [name |-> n, head |-> IF f = "binding" THEN 0 ELSE head[c]]
=============================================================================
