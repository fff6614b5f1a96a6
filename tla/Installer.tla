----------------------------- MODULE Installer -----------------------------
(***************************************************************************)
(* The Windows installers and the uninstaller (gui-installer/): a window   *)
(* and the thread that installs, joined by a queue of events, over the     *)
(* data root of Install.  The thread reports how far it is before each of  *)
(* its steps, whether SinoRAG was there already, and how it ended.  The    *)
(* window shows what it takes from the queue, some time later.             *)
(***************************************************************************)
EXTENDS Install, Sequences

CONSTANTS Wishes, \* shortcuts a user may ask for
          MaxLag  \* bound: events the window is behind when the thread goes on

ASSUME LagAssumption == MaxLag \in Nat

VARIABLES
    phase,     \* of the window
    bar,       \* its progress bar, 0 .. 1000
    queue,     \* events the thread has sent and the window has not taken
    wish,      \* the shortcuts asked for
    received,  \* progress of the download was reported
    exe,       \* sinorag.exe: "new" is the version of this installer
    opencode,  \* OpenCode is installed
    shortcuts, \* the shortcuts there are
    entry,     \* the entry in Apps & features
    removal    \* the uninstaller has left a command that removes the directory

window  == <<phase, bar, queue, wish>>
machine == <<exe, opencode, shortcuts, entry, removal>>
installerVars == <<vars, window, received, machine>>

-----------------------------------------------------------------------------
(* Events.                                                                 *)

Event == [kind : {"step", "ok", "error"}, to : 0 .. 1000]
Step(to) == [kind |-> "step", to |-> to]
Ended(ok) == [kind |-> IF ok THEN "ok" ELSE "error", to |-> 0]

\* How far init is (of 1000) on the bar of the installer.
Mapped(p) == 100 + (p * 76) \div 100

\* What is reported before each step; Install's and the installer's own.
Report ==
    [check |-> 10, payload |-> 60, pack |-> 65, download |-> Mapped(100),
     extract |-> Mapped(350), table |-> Mapped(480), catalog |-> Mapped(560),
     phrase |-> Mapped(680), tfidf |-> Mapped(850), opencode |-> 880,
     shortcuts |-> 970, register |-> 990]

\* After the builds init says that it has done all, and so does the installer after
\* its last step.
LastReport == CASE At("registry") -> <<Step(Mapped(1000))>>
                [] At("register") -> <<Step(1000)>>
                [] OTHER -> <<>>

Gui == job.by = "gui" /\ ~ At("idle")

\* The events of a step of the thread that leads to job'.
Tell ==
    queue' = IF ~ Gui \/ job'.failed THEN queue
             ELSE queue \o LastReport
                        \o IF job'.at \in DOMAIN Report THEN <<Step(Report[job'.at])>> ELSE <<>>

-----------------------------------------------------------------------------
Usable ==
    /\ exe = "new" /\ wish \subseteq shortcuts
    /\ job.build => Ready

InstallerTypeOK ==
    /\ TypeOK
    /\ phase \in {"Ready", "Installing", "Complete", "Failed"}
    /\ bar \in 0 .. 1000
    /\ queue \in Seq(Event)
    /\ wish \subseteq Wishes /\ shortcuts \subseteq Wishes
    /\ received \in BOOLEAN
    /\ exe \in {"none", "torn", "old", "new"}
    /\ opencode \in BOOLEAN /\ entry \in BOOLEAN /\ removal \in BOOLEAN
    /\ Gui => phase = "Installing"

InstallerInit ==
    /\ Init
    /\ phase = "Ready" /\ bar = 0 /\ queue = <<>> /\ wish = {} /\ received = FALSE
    /\ exe = "none" /\ opencode \in BOOLEAN /\ shortcuts = {}
    /\ entry = FALSE /\ removal = FALSE

-----------------------------------------------------------------------------
(* The window: start_install, apply_event.                                 *)

\* Build: the indexes are asked for too; one of the installers always does.
StartInstall(shortcut, build) ==
    /\ phase \in {"Ready", "Failed"} /\ MayBegin
    /\ job' = [Idle EXCEPT !.at = "check", !.by = "gui", !.build = build]
    /\ phase' = "Installing" /\ bar' = 0 /\ queue' = <<Step(Report["check"])>>
    /\ wish' = shortcut
    /\ Suffer(IF removal THEN Spoiled ELSE IF build THEN Untouched ELSE Unindexed)
    /\ UNCHANGED <<store, derived, archive, deaths, received, machine>>

\* The path is not valid: empty, or its parent cannot be written to.
RefusePath ==
    /\ phase \in {"Ready", "Failed"} /\ At("idle")
    /\ phase' = "Failed"
    /\ UNCHANGED <<vars, bar, queue, wish, received, machine>>

\* Mutant of Shown: the bar shows what it is told.
ShownAsTold(to) == to

\* The reports of the download and those of the steps overlap.
Shown(to) == IF to > bar THEN to ELSE bar

ApplyEvent ==
    /\ phase = "Installing" /\ queue # <<>>
    /\ LET event == Head(queue) IN
          CASE event.kind = "step"  -> bar' = Shown(event.to) /\ UNCHANGED phase
            [] event.kind = "ok"    -> bar' = 1000 /\ phase' = "Complete"
            [] event.kind = "error" -> phase' = "Failed" /\ UNCHANGED bar
    /\ queue' = Tail(queue)
    /\ UNCHANGED <<vars, wish, received, machine>>

\* The window is closed and opened again.
Reopen ==
    /\ phase \in {"Complete", "Failed"} /\ At("idle")
    /\ phase' = "Ready" /\ bar' = 0 /\ wish' = {}
    /\ UNCHANGED <<vars, queue, received, machine>>

-----------------------------------------------------------------------------
(* The thread: install_impl.                                               *)

\* Mutant of Installed: the shortcuts are not looked for.
InstalledSomehow == exe = "new" /\ IndexesExist /\ Exists("canonical") /\ opencode

\* existing_install_summary: the version, the corpus and its indexes, OpenCode and
\* the shortcuts asked for.
Installed == /\ exe = "new" /\ IndexesExist /\ Exists("canonical")
             /\ opencode /\ wish \subseteq shortcuts

CheckInstalled ==
    /\ At("check")
    /\ Goto(IF Installed THEN "end" ELSE "payload")
    /\ UNCHANGED <<store, derived, archive, harm, deaths, machine>>

\* extract_payload_archive, the icon and the uninstaller.
ExtractPayload ==
    /\ At("payload")
    /\ exe' = "new"
    /\ Goto("pack")
    /\ UNCHANGED <<store, derived, archive, harm, deaths, opencode, shortcuts, entry, removal>>

\* Once the program, the corpus and the indexes are there.  It may stay uninstalled.
InstallOpenCode ==
    /\ At("opencode")
    /\ opencode' \in {opencode, TRUE}
    /\ Goto("shortcuts")
    /\ UNCHANGED <<store, derived, archive, harm, deaths, exe, shortcuts, entry, removal>>

CreateShortcuts ==
    /\ At("shortcuts")
    /\ shortcuts' = shortcuts \cup wish
    /\ Goto("register")
    /\ UNCHANGED <<store, derived, archive, harm, deaths, exe, opencode, entry, removal>>

\* write_uninstall_entry ignores errors; here there is none.
Register ==
    /\ At("register")
    /\ entry' = TRUE
    /\ Goto("end")
    /\ UNCHANGED <<store, derived, archive, harm, deaths, exe, opencode, shortcuts, removal>>

\* What an end at this step leaves of the program: in the payload it may not have been reached yet,
\* it may be torn, or it is there and the icon or the uninstaller is not.
Left == IF At("payload") THEN {exe, "torn", "new"} ELSE {exe}

\* A step of the installer's own fails; what it wrote stays.
FailInstall ==
    /\ job.at \in {"payload", "opencode", "shortcuts"}
    /\ exe' \in Left
    /\ job' = [job EXCEPT !.at = "end", !.failed = TRUE]
    /\ Suffer(HarmAt(job.at))
    /\ UNCHANGED <<store, derived, archive, deaths, opencode, shortcuts, entry, removal>>

EndThread ==
    /\ At("end")
    /\ queue' = Append(queue, Ended(~ job.failed))
    /\ Return /\ received' = FALSE
    /\ UNCHANGED <<phase, bar, wish, machine>>

\* Progress of the download: of the first reports and the last, one is modelled.
Receive ==
    /\ At("fetch") /\ ~ received
    /\ received' = TRUE
    /\ \E to \in {100, 350} : queue' = Append(queue, Step(to))
    /\ UNCHANGED <<vars, phase, bar, wish, machine>>

ThreadStep ==
    /\ Gui /\ Len(queue) <= MaxLag
    /\ \/ /\ \/ PackStep /\ UNCHANGED machine
             \/ CheckInstalled \/ ExtractPayload \/ InstallOpenCode \/ CreateShortcuts
             \/ Register \/ FailInstall
          /\ Tell
          /\ UNCHANGED <<phase, bar, wish, received>>
       \/ Receive
       \/ EndThread

-----------------------------------------------------------------------------
(* The process of the installer dies; the uninstaller; what else happens.  *)

DieInstalling ==
    /\ Gui /\ Die
    /\ phase' = "Ready" /\ bar' = 0 /\ queue' = <<>> /\ wish' = {} /\ received' = FALSE
    /\ exe' \in Left
    /\ UNCHANGED <<opencode, shortcuts, entry, removal>>

\* The shortcuts and the entry go at once, the directory two seconds later, by a
\* command of its own.  No mutex keeps the installer from running.
Uninstall ==
    /\ exe # "none" /\ ~ removal
    /\ shortcuts' = {} /\ entry' = FALSE /\ removal' = TRUE
    /\ Suffer(IF At("idle") THEN Untouched ELSE Spoiled)
    /\ UNCHANGED <<store, derived, archive, job, deaths, window, received, exe, opencode>>
RemoveDirectory ==
    /\ removal
    /\ store' = [dir \in {"canonical", "raw"} |-> NoPassages]
    /\ derived' = NoIndexes /\ archive' = "none" /\ exe' = "none" /\ removal' = FALSE
    /\ harm' = IF At("idle") THEN Untouched ELSE Spoiled
    /\ job' = IF job.at \in {"unpack", "extract", "fetch"}
              THEN [job EXCEPT !.at = "clean", !.failed = TRUE] ELSE job
    /\ UNCHANGED <<deaths, window, received, opencode, shortcuts, entry>>

\* An installer of the next version is started.
NextVersion ==
    /\ exe = "new" /\ At("idle")
    /\ exe' = "old"
    /\ UNCHANGED <<vars, window, received, opencode, shortcuts, entry, removal>>

\* A command the user runs, with the window closed.
Cli == ~ Gui /\ phase = "Ready" /\ (Begin \/ Look \/ IngestRaw \/ PackStep \/ Return \/ Die)

InstallerNext ==
    \/ \E shortcut \in SUBSET Wishes, build \in BOOLEAN : StartInstall(shortcut, build)
    \/ RefusePath \/ ApplyEvent \/ Reopen
    \/ ThreadStep \/ DieInstalling
    \/ Uninstall \/ RemoveDirectory \/ NextVersion
    \/ (Cli \/ Others) /\ UNCHANGED <<window, received, machine>>

\* The thread goes on until it ends, and the window takes its events.
InstallerFairness == WF_installerVars(ThreadStep) /\ WF_installerVars(ApplyEvent)

InstallerSpec == InstallerInit /\ [][InstallerNext]_installerVars /\ InstallerFairness

-----------------------------------------------------------------------------
(* What the installer says.                                                *)

\* An installation that ends well has installed this version of the program and the shortcuts asked
\* for, and where no other corpus is in the store, the whole of this one; also when runs before it
\* failed or died before the extraction, among the first indexes or later (harm < Spoiled).  Where
\* they did not end among the indexes, there are those that were asked for, of what is in the store;
\* and if none ended once the program was being put there, it is listed under Apps & features.
\*
\* It does not speak of what the next finds after an end in the extraction or among indexes that
\* replace older ones (Spoiled; MayBegin), nor of another corpus, which is taken for this one where
\* it has the four indexes.
InstalledIsUsable ==
    At("end") /\ Gui /\ ~ job.failed =>
        /\ harm < Spoiled => /\ exe = "new" /\ wish \subseteq shortcuts
                             /\ store.canonical.other = "none" => store.canonical.cbeta = "whole"
        /\ harm <= Unlisted /\ store.canonical.other = "none" =>
              Usable /\ (harm = Untouched => entry)

\* The bar is full when everything is done and not before: the reports of init are
\* scaled to the part it is of the whole.
FullBarMeansDone ==
    bar = 1000 => \/ phase = "Complete"
                  \/ phase = "Installing" /\ ~ Gui /\ Head(queue).kind = "ok"
                  \/ At("end") /\ Gui /\ ~ job.failed

\* While it installs, the bar never goes back (main.rs:449-451).
BarNeverFallsBack ==
    [][phase = "Installing" /\ phase' = "Installing" => bar' >= bar]_installerVars

\* Every installation ends, well or not, and the window says so.
InstallEnds == phase = "Installing" ~> phase # "Installing"

\* The window says how far the installation is, and in the end that it ended (main.rs:425-486).
WindowIsHonest == []FullBarMeansDone /\ BarNeverFallsBack /\ InstallEnds

=============================================================================
