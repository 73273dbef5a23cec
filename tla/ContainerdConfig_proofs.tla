----------------------- MODULE ContainerdConfig_proofs ----------------------
(* What configure_containerd_cri.py and its play guarantee for any set of    *)
(* plugins and any number of faults, edits and restarts by others.           *)
EXTENDS ContainerdConfig, TLAPS

Normalized == {"validate", "decide", "check", "install", "backup", "write", "replace", "flush", "inspect"}
Validated == {"decide", "check", "install", "backup", "write", "replace"}

(* What the script holds at each of its steps.                               *)
TextInv ==
    /\ pc \in {"normalize"} \cup Normalized =>
         /\ text \in Content /\ source \in Content
         /\ Configured(text) /\ text.disabled \ Cri = source.disabled \ Cri
    /\ pc \in Normalized => text.raw = FALSE
    /\ pc \in Validated => text.ok
    /\ pc = "replace" => temp = text

(* A temporary file is newer than the daemon unless somebody restarted it.   *)
TempInv == (pc = "replace" /\ ~raced) => tempNewer

(* In a play that nobody disturbs, a daemon that needs no restart is         *)
(* recognised by CheckRuntimeLoad, and made by FlushHandlers; it looks older *)
(* than the file only if this play has written the file.                     *)
Undisturbed ==
    ~disturbed =>
        /\ pc \in Normalized \cup {"migrate", "normalize"} => wrong = {}
        /\ pc = "check" => file = text
        /\ (pc = "install" /\ file = text) => daemon.up /\ ~newer
        /\ pc = "flush" => file = text /\ (report = "unchanged" => daemon.up /\ ~newer)
        /\ pc = "inspect" => file = text /\ daemon.up /\ (newer => fresh /\ daemon.loaded = file)
        /\ pc = "conf" => "plugin" \notin wrong

PlayInv == TypeOK /\ TextInv /\ TempInv /\ Undisturbed /\ StaleIsNoticed

-----------------------------------------------------------------------------

(* Migration and configure_cri change the fields they are about.             *)
LEMMA MigratedFields ==
    ASSUME NEW c \in Content
    PROVE  /\ Migrated(c) \in Content
           /\ Migrated(c).raw = FALSE /\ Migrated(c).disabled = c.disabled
           /\ Migrated(c).kata = c.kata /\ Migrated(c).ok = c.ok
  BY DEF Migrated, Content

LEMMA ConfigureFields ==
    ASSUME NEW c \in Content
    PROVE  /\ ConfigureCri(c) \in Content
           /\ ConfigureCri(c).disabled = c.disabled \ Cri
           /\ ConfigureCri(c).kata = "kata" /\ ConfigureCri(c).ok = c.ok
           /\ Configured(ConfigureCri(c))
  BY DEF ConfigureCri, Configured, Content

LEMMA NothingIsNoContent ==
    Nothing \notin Content /\ Nothing # "changed" /\ Nothing # "unchanged"
  BY NothingAssumption

LEMMA PlayInit == Init => PlayInv
<1> SUFFICES ASSUME Init PROVE PlayInv
  OBVIOUS
<1> USE NothingIsNoContent, ContainerdBounds, FilesAssumption DEF Init
<1>1. TypeOK
  <2>1. file \in Content /\ daemon \in [up: BOOLEAN, loaded: Content]
    OBVIOUS
  <2>2. edits \in 0 .. MaxEdits /\ faults \in 0 .. MaxFaults /\ restarts \in 0 .. MaxRestarts
    OBVIOUS
  <2>3. QED BY <2>1, <2>2 DEF TypeOK
<1>2. TextInv /\ TempInv /\ Undisturbed /\ StaleIsNoticed
  BY DEF TextInv, TempInv, Undisturbed, StaleIsNoticed, Normalized, Validated
<1>3. QED BY <1>1, <1>2 DEF PlayInv

LEMMA PlayTypes == TypeOK /\ TextInv /\ [Next]_vars => TypeOK'
<1> SUFFICES ASSUME TypeOK, TextInv, [Next]_vars PROVE TypeOK'
  OBVIOUS
<1> USE NothingIsNoContent, ContainerdBounds, FilesAssumption
    DEF TypeOK, Goto, End, Fail, Says, play, files, times, bounds, history
<1>0. ASSUME UNCHANGED <<file, newer, tempNewer, temp, wrong, daemon, edits, faults, restarts, raced>>,
             text' \in Content \cup {Nothing}, source' \in Content \cup {Nothing},
             report' \in {Nothing, "changed", "unchanged"}, outcome' \in {Nothing, "ok", "failed"},
             notified' \in BOOLEAN, fresh' \in BOOLEAN, disturbed' \in BOOLEAN, settled' \in BOOLEAN,
             pc # "replace", pc' \in {"idle", "plugin", "normalize"} \cup Normalized,
             pc' # "replace", (report' # Nothing) <=> (pc' \in {"flush", "inspect"})
      PROVE  TypeOK'
  BY <1>0 DEF Normalized
<1>1. CASE StartPlay
  <2>1. pc = "idle" /\ pc' = "plugin" /\ fresh' = FALSE /\ disturbed' = FALSE
    BY <1>1 DEF StartPlay
  <2>2. UNCHANGED <<text, source, report, outcome, notified, settled>>
    BY <1>1 DEF StartPlay
  <2>3. UNCHANGED <<file, newer, tempNewer, temp, wrong, daemon, edits, faults, restarts, raced>>
    BY <1>1 DEF StartPlay
  <2>4. report' = Nothing
    BY <2>1, <2>2
  <2>5. QED BY <1>0, <2>1, <2>2, <2>3, <2>4
<1>16. ASSUME NEW f \in CniFiles, CopyCni(f) PROVE TypeOK'
  <2>1. wrong' \subseteq CniFiles /\ notified' \in BOOLEAN /\ pc' \in {"conf", "migrate"}
    BY <1>16 DEF CopyCni
  <2>2. pc \in {"plugin", "conf"}
    BY <1>16 DEF CopyCni, CniFiles
  <2>3. QED BY <1>16, <2>1, <2>2 DEF CopyCni
<1>17. ASSUME NEW f \in CniFiles, EditCni(f) PROVE TypeOK'
  <2>1. edits' \in 0 .. MaxEdits
    BY <1>17 DEF EditCni
  <2>2. wrong' \subseteq CniFiles /\ settled' \in BOOLEAN /\ disturbed' \in BOOLEAN
    BY <1>17 DEF EditCni
  <2>3. /\ UNCHANGED <<pc, text, report, notified, outcome, file, temp, newer, fresh, tempNewer>>
        /\ UNCHANGED <<daemon, faults, restarts, source, raced>>
    BY <1>17 DEF EditCni
  <2>4. QED BY <2>1, <2>2, <2>3
<1>2. CASE Migrate
  <2>1. pc = "migrate" /\ pc' \in {"idle", "normalize"} /\ report' = Nothing /\ source' = file
    BY <1>2 DEF Migrate
  <2>2. text' \in Content \cup {Nothing}
    BY <1>2, MigratedFields, ConfigureFields DEF Migrate
  <2>3. outcome' \in {Nothing, "ok", "failed"} /\ notified' \in BOOLEAN /\ settled' \in BOOLEAN
    BY <1>2 DEF Migrate
  <2>4. /\ UNCHANGED <<file, newer, tempNewer, temp, wrong, daemon, edits, faults, restarts, raced>>
        /\ UNCHANGED <<fresh, disturbed>>
    BY <1>2 DEF Migrate
  <2>5. QED BY <1>0, <2>1, <2>2, <2>3, <2>4
<1>3. CASE Normalize
  <2>1. pc = "normalize" /\ pc' = "validate" /\ UNCHANGED <<report, outcome, notified, settled, source>>
    BY <1>3 DEF Normalize
  <2>2. text' \in Content
    BY <1>3, MigratedFields DEF Normalize, TextInv
  <2>3. /\ UNCHANGED <<file, newer, tempNewer, temp, wrong, daemon, edits, faults, restarts, raced>>
        /\ UNCHANGED <<fresh, disturbed>>
    BY <1>3 DEF Normalize
  <2>4. report' = Nothing
    BY <2>1
  <2>5. QED BY <1>0, <2>1, <2>2, <2>3, <2>4 DEF Normalized
<1>4. CASE Validate
  <2>1. pc = "validate" /\ UNCHANGED <<file, newer, fresh, tempNewer, temp, wrong, daemon>>
    BY <1>4 DEF Validate
  <2>2. UNCHANGED <<edits, faults, restarts, source, disturbed, raced>>
    BY <1>4 DEF Validate
  <2>3. CASE text.ok
    <3>1. Goto("decide") /\ UNCHANGED <<text, settled>>
      BY <1>4, <2>3 DEF Validate
    <3>2. QED BY <2>1, <2>2, <3>1
  <2>4. CASE ~text.ok
    <3>1. Fail
      BY <1>4, <2>4 DEF Validate
    <3>2. QED BY <2>1, <2>2, <3>1
  <2>5. QED BY <2>3, <2>4
<1>5. CASE Decide \/ CheckRuntimeLoad \/ Install
  <2>1. /\ UNCHANGED <<file, newer, tempNewer, temp, wrong, daemon, edits, faults, restarts, raced>>
        /\ UNCHANGED <<text, source, outcome, notified, fresh, disturbed, settled>>
    BY <1>5 DEF Decide, CheckRuntimeLoad, Install
  <2>2. pc \in {"decide", "check", "install"} /\ report = Nothing
    BY <1>5 DEF Decide, CheckRuntimeLoad, Install
  <2>3. \/ pc' \in {"check", "install", "backup"} /\ report' = report
        \/ pc' = "flush" /\ report' \in {"changed", "unchanged"}
    BY <1>5 DEF Decide, CheckRuntimeLoad, Install
  <2>4. QED BY <1>0, <2>1, <2>2, <2>3 DEF Normalized
<1>6. CASE Backup
  BY <1>6 DEF Backup
<1>18. CASE Write
  BY <1>18 DEF Write, TextInv, Normalized
<1>7. CASE Replace
  BY <1>7 DEF Replace
<1>8. CASE FlushHandlers
  <2>1. daemon' \in [up: BOOLEAN, loaded: Content] /\ newer' \in BOOLEAN /\ tempNewer' \in BOOLEAN
    BY <1>8 DEF FlushHandlers, Load
  <2>2. UNCHANGED <<file, fresh, temp, wrong, edits, faults, restarts, source, disturbed>>
    BY <1>8 DEF FlushHandlers
  <2>3. CASE file.ok
    <3>1. pc' = "inspect" /\ raced' = FALSE /\ UNCHANGED <<text, report, notified, outcome, settled>>
      BY <1>8, <2>3 DEF FlushHandlers
    <3>2. pc = "flush"
      BY <1>8 DEF FlushHandlers
    <3>3. QED BY <2>1, <2>2, <3>1, <3>2
  <2>4. CASE ~file.ok
    <3>1. Fail /\ UNCHANGED raced /\ pc = "flush"
      BY <1>8, <2>4 DEF FlushHandlers
    <3>2. QED BY <2>1, <2>2, <3>1
  <2>5. QED BY <2>3, <2>4
<1>9. CASE NoHandler
  BY <1>9 DEF NoHandler
<1>19. CASE Inspect
  <2>1. /\ UNCHANGED <<file, newer, tempNewer, temp, wrong, daemon, edits, faults, restarts, raced>>
        /\ UNCHANGED <<fresh, source, disturbed>>
    BY <1>19 DEF Inspect
  <2>2. /\ pc = "inspect" /\ pc' = "idle" /\ report' = Nothing /\ notified' = FALSE
        /\ text' = Nothing /\ outcome' \in {"ok", "failed"} /\ settled' \in BOOLEAN
    BY <1>19 DEF Inspect
  <2>3. QED BY <1>0, <2>1, <2>2
<1>10. CASE PlayDies
  <2>1. faults' \in 0 .. MaxFaults
    BY <1>10 DEF PlayDies
  <2>2. QED BY <1>10, <2>1 DEF PlayDies
<1>11. CASE Edit
  <2>1. edits' \in 0 .. MaxEdits
    BY <1>11 DEF Edit
  <2>2. /\ file' \in Content /\ newer' \in BOOLEAN /\ fresh' \in BOOLEAN
        /\ raced' \in BOOLEAN /\ settled' \in BOOLEAN /\ disturbed' \in BOOLEAN
    BY <1>11 DEF Edit
  <2>3. /\ UNCHANGED <<pc, text, report, notified, outcome, temp, tempNewer, wrong, daemon>>
        /\ UNCHANGED <<faults, restarts, source>>
    BY <1>11 DEF Edit
  <2>4. QED BY <2>1, <2>2, <2>3
<1>12. CASE OutsideRestart
  <2>1. daemon' \in [up: BOOLEAN, loaded: Content] /\ newer' \in BOOLEAN /\ tempNewer' \in BOOLEAN
    BY <1>12 DEF OutsideRestart, Load
  <2>2. raced' \in BOOLEAN /\ settled' \in BOOLEAN /\ disturbed' \in BOOLEAN
    BY <1>12 DEF OutsideRestart
  <2>3. QED BY <1>12, <2>1, <2>2 DEF OutsideRestart
<1>13. CASE DaemonDies
  <2>1. restarts' \in 0 .. MaxRestarts
    BY <1>13 DEF DaemonDies
  <2>2. daemon' \in [up: BOOLEAN, loaded: Content]
    BY <1>13 DEF DaemonDies
  <2>3. settled' \in BOOLEAN /\ disturbed' \in BOOLEAN
    BY <1>13 DEF DaemonDies
  <2>4. /\ UNCHANGED <<pc, text, report, notified, outcome, file, newer, fresh, temp, tempNewer>>
        /\ UNCHANGED <<wrong, edits, faults, source, raced>>
    BY <1>13 DEF DaemonDies
  <2>5. QED BY <2>1, <2>2, <2>3, <2>4
<1>14. CASE UNCHANGED vars
  BY <1>14 DEF vars
<1>15. QED
  BY <1>1, <1>2, <1>3, <1>4, <1>5, <1>6, <1>7, <1>8, <1>9, <1>10, <1>11, <1>12, <1>13, <1>14,
     <1>16, <1>17, <1>18, <1>19
  DEF Next, PlayStep

LEMMA TextStep == TypeOK /\ TextInv /\ [Next]_vars => TextInv'
<1> SUFFICES ASSUME TypeOK, TextInv, [Next]_vars PROVE TextInv'
  OBVIOUS
<1> USE NothingIsNoContent
    DEF TextInv, Normalized, Validated, Goto, End, Fail, Says, play, files, times, bounds, history
<1>1. CASE Migrate
  <2>1. ASSUME pc' # "idle" PROVE text' = ConfigureCri(Migrated(file)) /\ source' = file
    BY <1>1, <2>1 DEF Migrate
  <2>2. file \in Content /\ Migrated(file) \in Content /\ Migrated(file).disabled = file.disabled
    BY MigratedFields DEF TypeOK
  <2>3. pc' \in {"idle", "normalize"}
    BY <1>1 DEF Migrate
  <2>4. QED BY <2>1, <2>2, <2>3, ConfigureFields
<1>2. CASE Normalize
  <2>1. text' = Migrated(text) /\ text \in Content /\ pc' = "validate" /\ UNCHANGED source
    BY <1>2 DEF Normalize
  <2>2. Configured(text')
    BY <1>2, <2>1, MigratedFields DEF Configured, Normalize
  <2>3. QED BY <1>2, <2>1, <2>2, MigratedFields DEF Normalize
<1>8. ASSUME NEW f \in CniFiles, CopyCni(f) \/ EditCni(f) PROVE TextInv'
  BY <1>8 DEF CopyCni, EditCni
<1>3. CASE StartPlay \/ Validate \/ Decide \/ CheckRuntimeLoad \/ Install \/ Backup \/ Write \/ Replace
  BY <1>3 DEF StartPlay, Validate, Decide, CheckRuntimeLoad, Install, Backup, Write, Replace
<1>4. CASE FlushHandlers \/ NoHandler \/ Inspect
  BY <1>4 DEF FlushHandlers, NoHandler, Inspect
<1>5. CASE PlayDies \/ Edit \/ OutsideRestart \/ DaemonDies
  BY <1>5 DEF PlayDies, Edit, OutsideRestart, DaemonDies
<1>6. CASE UNCHANGED vars
  BY <1>6 DEF vars
<1>7. QED
  BY <1>1, <1>2, <1>3, <1>4, <1>5, <1>6, <1>8 DEF Next, PlayStep

LEMMA TempStep == TypeOK /\ TempInv /\ [Next]_vars => TempInv'
<1> SUFFICES ASSUME TypeOK, TempInv, [Next]_vars PROVE TempInv'
  OBVIOUS
<1> USE NothingIsNoContent DEF TempInv, Goto, End, Fail, Says, play, files, times, bounds, history
<1>1. CASE OutsideRestart
  BY <1>1 DEF OutsideRestart, Load, TypeOK
<1>2. CASE PlayStep \/ StartPlay
  BY <1>2 DEF PlayStep, StartPlay, CopyCni, Migrate, Normalize, Validate, Decide, CheckRuntimeLoad,
     Install, Backup, Write, Replace, FlushHandlers, NoHandler, Inspect
<1>3. CASE PlayDies \/ Edit \/ (\E f \in CniFiles : EditCni(f)) \/ DaemonDies
  BY <1>3 DEF PlayDies, Edit, EditCni, DaemonDies
<1>4. CASE UNCHANGED vars
  BY <1>4 DEF vars
<1>5. QED BY <1>1, <1>2, <1>3, <1>4 DEF Next

LEMMA StaleStep == TypeOK /\ TempInv /\ StaleIsNoticed /\ [Next]_vars => StaleIsNoticed'
<1> SUFFICES ASSUME TypeOK, TempInv, StaleIsNoticed, [Next]_vars PROVE StaleIsNoticed'
  OBVIOUS
<1> USE DEF StaleIsNoticed, play, files, times, bounds, history
<1>1. ASSUME Load, UNCHANGED file PROVE file.ok \/ raced' = raced => StaleIsNoticed'
  <2>1. CASE file.ok
    BY <1>1, <2>1 DEF Load
  <2>2. CASE ~file.ok
    <3>1. daemon'.up = FALSE
      BY <1>1, <2>2 DEF Load, TypeOK
    <3>2. QED BY <3>1
  <2>3. QED BY <2>1, <2>2
<1>2. CASE FlushHandlers \/ OutsideRestart
  BY <1>1, <1>2 DEF FlushHandlers, OutsideRestart
<1>3. CASE Replace
  BY <1>3 DEF Replace, TempInv
<1>4. CASE Edit
  BY <1>4 DEF Edit
<1>5. CASE DaemonDies
  <2>1. daemon'.up = FALSE
    BY <1>5 DEF DaemonDies, TypeOK
  <2>2. QED BY <2>1
<1>6. CASE UNCHANGED <<file, newer, daemon, raced>>
  BY <1>6
<1>7. QED
  BY <1>2, <1>3, <1>4, <1>5, <1>6 DEF Next, PlayStep, vars, StartPlay, CopyCni, Migrate, Normalize,
     Validate, Decide, CheckRuntimeLoad, Install, Backup, Write, NoHandler, Inspect, PlayDies, EditCni

LEMMA UndisturbedStep == TypeOK /\ TextInv /\ Undisturbed /\ [Next]_vars => Undisturbed'
<1> SUFFICES ASSUME TypeOK, TextInv, Undisturbed, [Next]_vars PROVE Undisturbed'
  OBVIOUS
<1> USE NothingIsNoContent DEF Undisturbed, Normalized, Goto, End, Fail, Says, play, files, times, bounds, history
<1>1. CASE FlushHandlers
  <2>1. CASE file.ok
    BY <1>1, <2>1 DEF FlushHandlers, Load
  <2>2. CASE ~file.ok
    BY <1>1, <2>2 DEF FlushHandlers
  <2>3. QED BY <2>1, <2>2
<1>10. ASSUME NEW f \in CniFiles, CopyCni(f) PROVE Undisturbed'
  BY <1>10 DEF CopyCni, CniFiles, TypeOK
<1>2. CASE Decide \/ CheckRuntimeLoad
  BY <1>2 DEF Decide, CheckRuntimeLoad, NeedsRestart
<1>3. CASE Install
  BY <1>3 DEF Install
<1>4. CASE Replace
  BY <1>4 DEF Replace, TextInv
<1>5. CASE NoHandler \/ Inspect
  BY <1>5 DEF NoHandler, Inspect
<1>6. CASE StartPlay \/ Migrate \/ Normalize \/ Validate \/ Backup \/ Write \/ PlayDies
  BY <1>6 DEF StartPlay, Migrate, Normalize, Validate, Backup, Write, PlayDies
<1>7. CASE Edit \/ (\E f \in CniFiles : EditCni(f)) \/ OutsideRestart \/ DaemonDies
  BY <1>7 DEF Edit, EditCni, OutsideRestart, DaemonDies
<1>8. CASE UNCHANGED vars
  BY <1>8 DEF vars
<1>9. QED
  BY <1>1, <1>2, <1>3, <1>4, <1>5, <1>6, <1>7, <1>8, <1>10 DEF Next, PlayStep

LEMMA PlayInvariant == Spec => []PlayInv
<1>1. PlayInv /\ [Next]_vars => PlayInv'
  BY PlayTypes, TextStep, TempStep, UndisturbedStep, StaleStep DEF PlayInv
<1>2. QED BY PlayInit, <1>1, PTL DEF Spec

-----------------------------------------------------------------------------

(* Script, play and daemon keep their state within its types; a temporary    *)
(* file exists only between its writing and os.replace.                      *)
THEOREM ContainerdTypeCorrect == Spec => []TypeOK
<1>1. PlayInv => TypeOK
  BY DEF PlayInv
<1>2. QED BY PlayInvariant, <1>1, PTL

(* However often plays die between os.replace and their handler, the mtime   *)
(* shows every daemon that runs with another configuration than the file's,  *)
(* unless the file got an older mtime since the daemon started.              *)
THEOREM StaleDaemonsAreNoticed == Spec => []StaleIsNoticed
<1>1. PlayInv => StaleIsNoticed
  BY DEF PlayInv
<1>2. QED BY PlayInvariant, <1>1, PTL

(* install_configuration only ever installs a configuration that containerd  *)
(* accepted, with CRI and Kata and the other plugins as they were, and       *)
(* nothing else of the play writes the file.                                 *)
THEOREM OnlyAcceptedIsInstalled == Spec => InstallsAccepted
<1> DEFINE Accepted ==
      (file' # file /\ edits' = edits) =>
        /\ pc = "replace" /\ file'.ok /\ Configured(file') /\ ~file'.raw
        /\ file = source => file'.disabled \ Cri = file.disabled \ Cri
<1>1. PlayInv /\ [Next]_vars => [Accepted]_vars
  <2> SUFFICES ASSUME PlayInv, Next, file' # file, edits' = edits PROVE Accepted
    BY DEF vars
  <2>1. ~Edit
    BY ContainerdBounds DEF Edit, PlayInv, TypeOK
  <2>2. Replace
    BY <2>1 DEF Next, PlayStep, StartPlay, CopyCni, Migrate, Normalize, Validate, Decide,
       CheckRuntimeLoad, Install, Backup, Write, FlushHandlers, NoHandler, Inspect, PlayDies,
       EditCni, OutsideRestart, DaemonDies, files
  <2>3. pc = "replace" /\ file' = text
    BY <2>2 DEF Replace, PlayInv, TextInv
  <2>4. QED BY <2>3 DEF PlayInv, TextInv, Normalized, Validated
<1>2. QED BY PlayInvariant, <1>1, PTL DEF Spec, InstallsAccepted

(* A play that succeeds undisturbed leaves a daemon that runs with the file, *)
(* with CRI and Kata: by the mtime when nothing changed, by the handler      *)
(* otherwise, also after any number of plays that died.                      *)
THEOREM SuccessMeansLoaded == Spec => LoadedAtEnd
<1> DEFINE Loaded == (pc = "inspect" /\ outcome' = "ok" /\ ~disturbed /\ ~raced) =>
                       daemon.loaded = file /\ Configured(file)
<1>1. PlayInv => Loaded
  BY DEF PlayInv, StaleIsNoticed, Undisturbed, TextInv, Normalized
<1>2. QED BY PlayInvariant, <1>1, PTL DEF Spec, LoadedAtEnd

-----------------------------------------------------------------------------
(* After a play succeeded and while nobody touches anything, the file is a   *)
(* fixed point of the script and its daemon needs no restart.                *)
SettledInv ==
    settled =>
        /\ daemon.up /\ daemon.loaded = file /\ ~newer
        /\ Configured(file) /\ file.raw = FALSE
        /\ wrong = {} /\ ~notified
        /\ pc = "normalize" => Migrated(text) = file
        /\ pc \in Normalized => text = file
        /\ pc \notin {"backup", "write", "replace"}
        /\ report # "changed"

(* What configure_cri and the migration make of a configured file.           *)
LEMMA FixedPoint ==
    ASSUME NEW c \in Content, Configured(c), c.raw = FALSE
    PROVE  Migrated(ConfigureCri(Migrated(c))) = c
<1>1. c.disabled \ Cri = c.disabled /\ c.kata = "kata"
  BY DEF Configured, Content
<1>2. Migrated(c) = c
  BY DEF Migrated, Content
<1>3. ConfigureCri(c) = [c EXCEPT !.raw = TRUE]
  BY <1>1 DEF ConfigureCri, Content
<1>4. QED BY <1>2, <1>3 DEF Migrated, Content

LEMMA SettledStep == PlayInv /\ SettledInv /\ [Next]_vars => SettledInv'
<1> SUFFICES ASSUME PlayInv, SettledInv, [Next]_vars, settled' PROVE SettledInv!2'
  BY DEF SettledInv
<1> USE NothingIsNoContent
    DEF SettledInv, Normalized, Goto, End, Fail, Says, play, files, times, bounds, history
<1>1. CASE StartPlay
  BY <1>1 DEF StartPlay
<1>2. CASE Migrate
  <2>1. pc' = "normalize" /\ text' = ConfigureCri(Migrated(file)) /\ settled
    BY <1>2 DEF Migrate
  <2>2. Migrated(text') = file
    BY <2>1, FixedPoint DEF PlayInv, TypeOK
  <2>3. QED BY <1>2, <2>1, <2>2 DEF Migrate
<1>3. CASE Normalize
  BY <1>3 DEF Normalize
<1>4. CASE Validate
  BY <1>4 DEF Validate
<1>14. ASSUME NEW f \in CniFiles, CopyCni(f) PROVE SettledInv!2'
  BY <1>14 DEF CopyCni, CniFiles
<1>5. CASE Decide
  BY <1>5 DEF Decide
<1>15. CASE CheckRuntimeLoad
  <2>1. settled /\ pc = "check" /\ UNCHANGED <<text, file, newer, wrong, daemon>>
    BY <1>15 DEF CheckRuntimeLoad
  <2>2. ~NeedsRestart
    BY <2>1 DEF NeedsRestart
  <2>3. pc' = "install" /\ UNCHANGED <<report, notified>>
    BY <1>15, <2>2 DEF CheckRuntimeLoad
  <2>4. QED BY <2>1, <2>3
<1>6. CASE Install
  BY <1>6 DEF Install
<1>7. CASE Backup \/ Write \/ Replace
  BY <1>7 DEF Backup, Write, Replace
<1>8. CASE FlushHandlers
  BY <1>8 DEF FlushHandlers
<1>9. CASE NoHandler
  BY <1>9 DEF NoHandler
<1>10. CASE Inspect
  <2>1. daemon.loaded = file /\ ~disturbed /\ ~fresh /\ pc' = "idle" /\ report' = Nothing
    BY <1>10 DEF Inspect
  <2>2. daemon.up /\ ~newer /\ file = text /\ wrong = {}
    BY <1>10, <2>1 DEF Inspect, PlayInv, Undisturbed
  <2>3. Configured(file) /\ file.raw = FALSE
    BY <1>10, <2>2 DEF Inspect, PlayInv, TextInv
  <2>4. QED BY <1>10, <2>1, <2>2, <2>3 DEF Inspect
<1>11. CASE PlayDies \/ Edit \/ (\E f \in CniFiles : EditCni(f)) \/ OutsideRestart \/ DaemonDies
  BY <1>11 DEF PlayDies, Edit, EditCni, OutsideRestart, DaemonDies
<1>12. CASE UNCHANGED vars
  BY <1>12 DEF vars
<1>13. QED
  BY <1>1, <1>2, <1>3, <1>4, <1>5, <1>6, <1>7, <1>8, <1>9, <1>10, <1>11, <1>12, <1>14, <1>15
  DEF Next, PlayStep

(* Restarts come to rest: after a play that succeeded and wrote no file, the *)
(* script's text is a fixed point of itself, the CNI files are as wanted and *)
(* the daemon no longer looks older than the file, so that no later play     *)
(* restarts a daemon that nobody touched.                                    *)
THEOREM RepeatedPlaysAreQuiet == Spec => []NoNeedlessRestart
<1>1. Init => SettledInv
  BY DEF Init, SettledInv
<1>2. SettledInv => NoNeedlessRestart
  BY DEF SettledInv, NoNeedlessRestart
<1>3. QED BY PlayInvariant, <1>1, <1>2, SettledStep, PTL DEF Spec
=============================================================================
