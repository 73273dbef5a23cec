-------------------------- MODULE ContainerdConfig --------------------------
(* configure_containerd_cri.py and the part of devices.yml that runs it:     *)
(* the script rewrites containerd's configuration from its migrated form and *)
(* reports "changed" or "unchanged"; a changed report, or a CNI file that    *)
(* had to be copied, makes the play restart the daemon at its end.  The play *)
(* may fail or die after any step and be run again; others may edit the      *)
(* files and restart the daemon at any moment.                               *)
EXTENDS Naturals, FiniteSets

CONSTANTS
    Cri,          \* CRI_PLUGIN_IDS
    Nothing,      \* no text, no file, no report
    Others,       \* ids of plugins that are none of CRI's
    Required,     \* sets of CRI's plugins that each satisfy the play's last check
    Files,        \* configurations that installations and others' edits leave
    MaxEdits,     \* bound: edits of the file by others
    MaxFaults,    \* bound: failures of commands and crashes of the play
    MaxRestarts   \* bound: restarts of the daemon by others

ASSUME PluginsAssumption ==
    Cri # {} /\ Cri \cap Others = {} /\ Required # {} /\ Required \subseteq SUBSET Cri
ASSUME ContainerdBounds == MaxEdits \in Nat /\ MaxFaults \in Nat /\ MaxRestarts \in Nat

\* What the script tells apart in a configuration.  raw: not as `config
\* migrate` prints it; ok: `config dump` and the daemon accept it.
Content == [raw: BOOLEAN, disabled: SUBSET (Cri \cup Others),
            kata: {"absent", "kata", "other"}, ok: BOOLEAN]

ASSUME FilesAssumption == Files \subseteq Content
ASSUME NothingAssumption == Nothing \notin Content \cup {"changed", "unchanged"}

VARIABLES
    pc,         \* where the play is
    text,       \* the configuration in the script's memory
    temp,       \* the new file before it replaces the old one
    report,     \* what the script printed
    notified,   \* a CNI task has notified the restart handler
    outcome,    \* how the last play ended
    file,       \* config.toml
    newer,      \* its mtime is after the start that is computed for the daemon
    fresh,      \* its mtime is less than a second old
    tempNewer,  \* the mtime of the temporary file is after that start
    wrong,      \* the CNI files that are not as the play wants them
    daemon,     \* whether containerd runs, and the configuration it loaded
    edits, faults, restarts,
    source,     \* history: the file that the script migrated
    disturbed,  \* history: others touched the files or the daemon during the play
    raced,      \* history: since the daemon started, the file got an older mtime
    settled     \* history: nothing has happened since a play succeeded

play == <<pc, text, report, notified, outcome>>
times == <<newer, fresh, tempNewer>>
files == <<file, temp, times, wrong>>
bounds == <<edits, faults, restarts>>
history == <<source, disturbed, raced, settled>>
vars == <<play, files, daemon, bounds, history>>

CniFiles == {"plugin", "conf"}

Init ==
    /\ pc = "idle" /\ text = Nothing /\ temp = Nothing /\ report = Nothing /\ outcome = Nothing
    /\ notified = FALSE /\ wrong \in SUBSET CniFiles
    /\ file \in Files /\ file.ok
    /\ newer = FALSE /\ fresh = FALSE /\ tempNewer = FALSE
    /\ daemon = [up |-> TRUE, loaded |-> file]
    /\ edits = 0 /\ faults = 0 /\ restarts = 0
    /\ source = Nothing
    /\ disturbed = FALSE /\ raced = FALSE /\ settled = FALSE

Goto(step) == pc' = step /\ UNCHANGED <<report, notified, outcome>>
\* The play ends; a notified handler that has not run is forgotten.
End(how) == pc' = "idle" /\ outcome' = how /\ report' = Nothing /\ notified' = FALSE
Fail == End("failed") /\ text' = Nothing /\ settled' = FALSE

-----------------------------------------------------------------------------
(* The play up to the script.                                                *)

\* Between the start of a play and its handler more than a second goes by.
StartPlay ==
    /\ pc = "idle" /\ Goto("plugin")
    /\ disturbed' = FALSE /\ fresh' = FALSE
    /\ UNCHANGED <<text, file, temp, newer, tempNewer, wrong, daemon, bounds, source, raced, settled>>

\* A copy task repairs its file and then notifies the handler.
CopyCni(f) ==
    /\ pc = f
    /\ wrong' = wrong \ {f} /\ notified' = (notified \/ f \in wrong)
    /\ pc' = IF f = "plugin" THEN "conf" ELSE "migrate"
    /\ UNCHANGED <<text, report, outcome, file, temp, times, daemon, bounds, history>>

-----------------------------------------------------------------------------
(* The script.                                                               *)

\* External: `containerd config migrate` prints any configuration it can parse.
Migrated(c) == [c EXCEPT !.raw = FALSE]

\* configure_cri enables CRI and adds a Kata handler, in its own notation.
ConfigureCri(c) == [c EXCEPT !.raw = TRUE, !.disabled = @ \ Cri, !.kata = "kata"]

\* A Kata handler of another type is refused.
Migrate ==
    /\ pc = "migrate"
    /\ IF Migrated(file).kata = "other"
       THEN Fail
       ELSE text' = ConfigureCri(Migrated(file)) /\ Goto("normalize") /\ UNCHANGED settled
    /\ source' = file
    /\ UNCHANGED <<files, daemon, bounds, disturbed, raced>>

Normalize ==
    /\ pc = "normalize"
    /\ text' = Migrated(text) /\ Goto("validate")
    /\ UNCHANGED <<files, daemon, bounds, history>>

\* mutant: the verdict of `config dump` is not looked at
ValidateNothing ==
    /\ pc = "validate"
    /\ Goto("decide") /\ UNCHANGED <<text, settled>>
    /\ UNCHANGED <<files, daemon, bounds, source, disturbed, raced>>

Validate ==
    /\ pc = "validate"
    /\ IF text.ok THEN Goto("decide") /\ UNCHANGED <<text, settled>> ELSE Fail
    /\ UNCHANGED <<files, daemon, bounds, source, disturbed, raced>>

\* mutants: the daemon is never, or always, taken for an old one
NeverNeedsRestart == FALSE
AlwaysNeedsRestart == TRUE

\* containerd_needs_restart: no process, or one that looks older than the file.
NeedsRestart == ~daemon.up \/ newer

Says(word) == report' = word /\ pc' = "flush" /\ UNCHANGED <<notified, outcome>>

Decide ==
    /\ pc = "decide"
    /\ IF file = text THEN Goto("check") ELSE Goto("install")
    /\ UNCHANGED <<text, files, daemon, bounds, history>>

CheckRuntimeLoad ==
    /\ pc = "check"
    /\ IF NeedsRestart THEN Says("changed") ELSE Goto("install")
    /\ UNCHANGED <<text, files, daemon, bounds, history>>

Install ==
    /\ pc = "install"
    /\ IF file = text THEN Says("unchanged") ELSE Goto("backup")
    /\ UNCHANGED <<text, files, daemon, bounds, history>>

\* The backup is a file that no step reads.
Backup ==
    /\ pc = "backup"
    /\ Goto("write")
    /\ UNCHANGED <<text, files, daemon, bounds, history>>

Write ==
    /\ pc = "write"
    /\ temp' = text /\ tempNewer' = TRUE
    /\ Goto("replace")
    /\ UNCHANGED <<text, file, newer, fresh, wrong, daemon, bounds, history>>

\* mutant: the new file keeps the times of the old one
ReplaceOldTimes ==
    /\ pc = "replace"
    /\ file' = temp /\ UNCHANGED <<newer, fresh>> /\ temp' = Nothing /\ tempNewer' = FALSE
    /\ Says("changed")
    /\ UNCHANGED <<text, wrong, daemon, bounds, history>>

\* os.replace keeps the mtime that the temporary file got when it was written.
Replace ==
    /\ pc = "replace"
    /\ file' = temp /\ newer' = tempNewer /\ fresh' = TRUE
    /\ temp' = Nothing /\ tempNewer' = FALSE
    /\ raced' = (raced /\ ~tempNewer)
    /\ Says("changed")
    /\ UNCHANGED <<text, wrong, daemon, bounds, source, disturbed, settled>>

-----------------------------------------------------------------------------
(* The rest of the play.                                                     *)

\* Starting the daemon loads the file, if the daemon accepts it.  Its start is
\* computed from a boot time in whole seconds, hence up to a second too early:
\* a daemon started right after the file was written still looks older.
Load ==
    /\ daemon' = IF file.ok THEN [up |-> TRUE, loaded |-> file] ELSE [daemon EXCEPT !.up = FALSE]
    /\ newer' \in IF file.ok THEN {FALSE, newer /\ fresh} ELSE {newer}
    /\ tempNewer' \in IF file.ok THEN {FALSE, tempNewer} ELSE {tempNewer}

\* flush_handlers: the handler runs if the script or a CNI task notified it.
FlushHandlers ==
    /\ pc = "flush" /\ (report = "changed" \/ notified)
    /\ Load
    /\ IF file.ok
       THEN Goto("inspect") /\ raced' = FALSE /\ UNCHANGED <<text, settled>>
       ELSE Fail /\ UNCHANGED raced
    /\ UNCHANGED <<file, fresh, temp, wrong, bounds, source, disturbed>>

NoHandler ==
    /\ pc = "flush" /\ report = "unchanged" /\ ~notified
    /\ Goto("inspect")
    /\ UNCHANGED <<text, files, daemon, bounds, history>>

\* The play requires one of two sets of CRI plugins in the running daemon, and
\* no plugin with an error (otherwise PlayDies).
Inspect ==
    /\ pc = "inspect"
    /\ IF daemon.up /\ \E plugins \in Required : plugins \cap daemon.loaded.disabled = {}
       THEN End("ok") /\ text' = Nothing
            /\ settled' = (daemon.loaded = file /\ ~disturbed /\ ~fresh)
       ELSE Fail
    /\ UNCHANGED <<files, daemon, bounds, source, disturbed, raced>>

-----------------------------------------------------------------------------
(* Failures and other actors.                                                *)

\* A command fails, or the script or the connection to its host dies.  Whether
\* temporary files are then left in the directory matters to nobody: no step
\* reads them.
PlayDies ==
    /\ pc # "idle" /\ faults < MaxFaults /\ faults' = faults + 1
    /\ Fail
    /\ temp' = Nothing /\ tempNewer' = FALSE
    /\ UNCHANGED <<file, newer, fresh, wrong, daemon, edits, restarts, source, disturbed, raced>>

\* An edit may keep an mtime, such as the one of a backup that is moved back.
Edit ==
    /\ edits < MaxEdits /\ edits' = edits + 1
    /\ file' \in Files \ {file}
    /\ newer' \in BOOLEAN /\ fresh' = newer'
    /\ raced' = (raced \/ ~newer') /\ settled' = FALSE /\ disturbed' = TRUE
    /\ UNCHANGED <<play, temp, tempNewer, wrong, daemon, faults, restarts, source>>

EditCni(f) ==
    /\ edits < MaxEdits /\ edits' = edits + 1
    /\ wrong' = wrong \cup {f}
    /\ settled' = FALSE /\ disturbed' = TRUE
    /\ UNCHANGED <<play, file, temp, times, daemon, faults, restarts, source, raced>>

OutsideRestart ==
    /\ restarts < MaxRestarts /\ restarts' = restarts + 1
    /\ Load
    /\ raced' = IF file.ok THEN temp # Nothing ELSE raced
    /\ settled' = FALSE /\ disturbed' = TRUE
    /\ UNCHANGED <<play, file, fresh, temp, wrong, edits, faults, source>>

DaemonDies ==
    /\ daemon.up /\ restarts < MaxRestarts /\ restarts' = restarts + 1
    /\ daemon' = [daemon EXCEPT !.up = FALSE]
    /\ settled' = FALSE /\ disturbed' = TRUE
    /\ UNCHANGED <<play, files, edits, faults, source, raced>>

PlayStep ==
    \/ \E f \in CniFiles : CopyCni(f)
    \/ Migrate \/ Normalize \/ Validate \/ Decide \/ CheckRuntimeLoad \/ Install
    \/ Backup \/ Write \/ Replace \/ FlushHandlers \/ NoHandler \/ Inspect

Next ==
    \/ StartPlay \/ PlayStep
    \/ PlayDies \/ Edit \/ (\E f \in CniFiles : EditCni(f)) \/ OutsideRestart \/ DaemonDies

\* Commands return; a play that failed is run again.
Fairness == WF_vars(PlayStep) /\ WF_vars(StartPlay)
Spec == Init /\ [][Next]_vars /\ Fairness

-----------------------------------------------------------------------------
(* Properties.                                                               *)

\* The types of the state; a new file waits in the directory only between
\* its writing and the replacement, and a report only between the script and the end of the play.
TypeOK ==
    /\ pc \in {"idle", "plugin", "conf", "migrate", "normalize", "validate", "decide", "check",
               "install", "backup", "write", "replace", "flush", "inspect"}
    /\ text \in Content \cup {Nothing} /\ temp \in Content \cup {Nothing}
    /\ report \in {Nothing, "changed", "unchanged"} /\ outcome \in {Nothing, "ok", "failed"}
    /\ file \in Content /\ newer \in BOOLEAN /\ fresh \in BOOLEAN /\ tempNewer \in BOOLEAN
    /\ notified \in BOOLEAN /\ wrong \subseteq CniFiles
    /\ daemon \in [up: BOOLEAN, loaded: Content]
    /\ edits \in 0 .. MaxEdits /\ faults \in 0 .. MaxFaults /\ restarts \in 0 .. MaxRestarts
    /\ source \in Content \cup {Nothing}
    /\ disturbed \in BOOLEAN /\ raced \in BOOLEAN /\ settled \in BOOLEAN
    /\ (temp # Nothing) <=> (pc = "replace")
    /\ (report # Nothing) <=> (pc \in {"flush", "inspect"})

Configured(c) == c.kata = "kata" /\ c.disabled \cap Cri = {}

\* What the script installs is accepted by containerd, has CRI and Kata, is a
\* fixed point of the migration, and has the plugins of others as they were
\* unless somebody edited the file after it was migrated; any other step leaves
\* the file alone, so a crash finds the old file or the new one
\* (install_configuration).
InstallsAccepted ==
    [][(file' # file /\ edits' = edits) =>
         /\ pc = "replace" /\ file'.ok /\ Configured(file') /\ ~file'.raw
         /\ file = source => file'.disabled \ Cri = file.disabled \ Cri]_vars

\* containerd_needs_restart notices every daemon that runs with another
\* configuration than the file's, crashes before the handler included; the
\* exceptions are a daemon restarted while a temporary file waited and an edit
\* that kept an older mtime, until the next replacement or restart.
StaleIsNoticed ==
    (daemon.up /\ daemon.loaded # file /\ ~raced) => newer

\* A play that succeeds undisturbed leaves a daemon that runs with the file and
\* has CRI and Kata, although its own check looks at the CRI plugins only.
LoadedAtEnd ==
    [][(pc = "inspect" /\ outcome' = "ok" /\ ~disturbed /\ ~raced) =>
         daemon.loaded = file /\ Configured(file)]_vars

\* Restarts come to rest, so that running capsules are not disturbed: after a
\* play that succeeded without installing a file, plays do not restart a daemon
\* while everything is left alone.  A play that installs its file may make the
\* next one restart once more: its daemon can look older than the new file.
NoNeedlessRestart == settled => report # "changed" /\ ~notified

\* A file that containerd refuses, or with a Kata handler of another type.
Stuck == ~file.ok \/ file.kata = "other"

\* Plays that are repeated until one succeeds end with a daemon that runs with
\* CRI and Kata, whatever step an earlier one died in.
Converges ==
    <>[](raced \/ Stuck \/ (daemon.up /\ daemon.loaded = file /\ Configured(file)))

=============================================================================
