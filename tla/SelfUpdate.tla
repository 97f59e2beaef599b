----------------------------- MODULE SelfUpdate -----------------------------
(* Checking for a newer release and installing it: updates.py, and the      *)
(* handlers of gui.py that drive it.  A running program cannot overwrite    *)
(* its own files, so a batch script waits for it to leave, moves the old    *)
(* runtime aside, copies the new one and puts the old one back when that    *)
(* fails.  Each command of the script is a step; any of them may fail, the  *)
(* machine may stop between two of them, and another instance of the app    *)
(* may sweep the temp folder (clean_temp).                                  *)
EXTENDS Integers, Sequences, FiniteSets

CONSTANTS
  Versions,    \* the version texts in play
  Numbers,     \* parse_version: the numbers of each text, <<>> for junk
  Current,     \* __version__ of the program that is installed
  Offers,      \* the releases GitHub may answer with
  MaxTries,    \* 60 in the script
  MaxFaults,   \* script commands that may fail
  MaxScripts   \* scripts one program may start

ASSUME VersionsAreTexts ==
  /\ Current \in Versions /\ Versions \cap {"none", "part"} = {}
  /\ Numbers \in [Versions -> Seq(Nat)]
ASSUME OffersAreReleases ==
  Offers \subseteq [version : Versions, assets : Seq({"zip", "text", "elsewhere"}),
                   holds : Versions \cup {"none"}, declares : BOOLEAN]
ASSUME UpdateBounds == MaxTries \in Nat /\ MaxFaults \in Nat /\ MaxScripts \in Nat

VARIABLES
  consent,     \* update_check: "ask", "on" or "off"
  checked,     \* update_last_check is today
  looking,     \* a check is under way, on a thread of its own
  banner,      \* the release the bar offers, NoRelease for none
  app,         \* the version that runs, "none" when none does
  stage,       \* how far on_install_update is
  chosen,      \* the release that it installs
  folder,      \* the install folder: launcher, _runtime, _runtime.old
  work,        \* WORK: is it there, the unpacked tree, launcher.backup
  scripts,     \* the updater scripts started, oldest first
  mishaps      \* faults, a crash, WORK taken from under a script

offerVars   == <<consent, checked, looking, banner>>
installVars == <<stage, chosen>>
updateVars  == <<offerVars, app, installVars, folder, work, scripts, mishaps>>

-----------------------------------------------------------------------------
(* Versions and releases.                                                   *)

Longer(a, b) == IF Len(a) > Len(b) THEN Len(a) ELSE Len(b)
Padded(v, n) == [i \in 1 .. n |-> IF i <= Len(v) THEN v[i] ELSE 0]

\* is_newer: component by component, a missing component is 0; never on a guess.
IsNewer(candidate, current) ==
  LET a == Numbers[candidate]
      b == Numbers[current]
      n == Longer(a, b)
  IN  /\ a # <<>> /\ b # <<>>
      /\ \E i \in 1 .. n : /\ Padded(a, n)[i] > Padded(b, n)[i]
                           /\ \A j \in 1 .. i - 1 : Padded(a, n)[j] = Padded(b, n)[j]

\* _same_version compares the numbers as they are: 1 and 1.0 are not the same.
SameVersion(a, b) == Numbers[a] = Numbers[b]

\* _pick_asset: the first zip that lies on a trusted host; 0 when there is none.
PickAsset(assets) ==
  LET usable == {i \in DOMAIN assets : assets[i] = "zip"}
  IN  IF usable = {} THEN 0 ELSE CHOOSE i \in usable : \A j \in usable : i <= j

NoRelease == [version |-> "none", assets |-> <<>>, holds |-> "none", declares |-> FALSE]

\* portable_root: the launcher and the runtime are both where they belong.
Packaged == folder.exe # "none" /\ folder.rt # "none"

CanInstall(release) == Packaged /\ PickAsset(release.assets) # 0

At(s, label) == s \in DOMAIN scripts /\ scripts[s].at = label
Waiting      == \E s \in DOMAIN scripts : ~At(s, "ended")

NoWork    == [there |-> FALSE, tree |-> "none", backup |-> "none"]
Script    == [at |-> "backup", tries |-> 0]

UpdateInit ==
  /\ consent \in {"ask", "on", "off"} /\ checked \in BOOLEAN
  /\ looking = FALSE /\ banner = NoRelease
  /\ app = Current /\ stage = "idle" /\ chosen = NoRelease
  /\ folder = [exe |-> Current, rt |-> Current, old |-> "none"]
  /\ work = NoWork /\ scripts = <<>>
  /\ mishaps = [faults |-> 0, crashed |-> FALSE, robbed |-> FALSE]

-----------------------------------------------------------------------------
(* The daily check.                                                         *)

\* _startup_update_check: ask once, then look at most once a day.
StartupCheck ==
  /\ app # "none" /\ stage = "idle" /\ ~looking
  /\ consent' \in (IF consent = "ask" THEN {"on", "off"} ELSE {consent})
  /\ looking' = (consent' = "on" /\ ~checked)
  /\ UNCHANGED <<checked, banner, app, installVars, folder, work, scripts, mishaps>>

\* on_check_updates: looks whatever the day, and turns the daily check on.
CheckNow ==
  /\ app # "none" /\ stage = "idle" /\ ~looking
  /\ consent' = "on" /\ looking' = TRUE
  /\ UNCHANGED <<checked, banner, app, installVars, folder, work, scripts, mishaps>>

\* _on_toggle_update_check: the daily check on or off, whatever is under way.
ToggleCheck ==
  /\ app # "none" /\ consent # "ask" /\ consent' \in {"on", "off"} \ {consent}
  /\ UNCHANGED <<checked, looking, banner, app, installVars, folder, work, scripts, mishaps>>

\* check and _update_check_done, whatever is under way: a failed check counts as today's too.
CheckDone ==
  /\ looking /\ stage # "launch"
  /\ looking' = FALSE /\ checked' = TRUE
  /\ \/ UNCHANGED banner
     \/ \E release \in Offers :
          banner' = IF IsNewer(release.version, app) THEN release ELSE banner
  /\ UNCHANGED <<consent, app, installVars, folder, work, scripts, mishaps>>

-----------------------------------------------------------------------------
(* on_install_update: everything before the launch touches only WORK.       *)

\* prepare begins: what an earlier attempt of this process left is removed.
Install ==
  /\ app # "none" /\ stage = "idle" /\ banner # NoRelease
  /\ CanInstall(banner) /\ Len(scripts) < MaxScripts
  /\ stage' = "download" /\ chosen' = banner /\ work' = [NoWork EXCEPT !.there = TRUE]
  /\ mishaps' = [mishaps EXCEPT !.robbed = @ \/ Waiting]
  /\ UNCHANGED <<offerVars, app, folder, scripts>>

\* download and unpack: cut short, not a zip or without the launcher, nothing goes on.
Fetch ==
  /\ stage = "download"
  /\ \/ stage' = "idle" /\ UNCHANGED work
     \/ stage' = "check" /\ work.there /\ work' = [work EXCEPT !.tree = chosen.holds]
  /\ UNCHANGED <<offerVars, chosen, app, folder, scripts, mishaps>>

\* The declared version when there is one, the signature, the script's own encoding.
Verify ==
  /\ stage = "check"
  /\ \/ stage' = "idle"
     \/ /\ work.tree # "none"
        /\ chosen.declares => SameVersion(work.tree, chosen.version)
        /\ stage' = "launch"
  /\ UNCHANGED <<offerVars, chosen, app, folder, work, scripts, mishaps>>

\* launch: the script waits from here on.
Launch ==
  /\ stage = "launch"
  /\ \/ stage' = "idle" /\ UNCHANGED scripts
     \/ stage' = "leave" /\ scripts' = Append(scripts, Script)
  /\ UNCHANGED <<offerVars, chosen, app, folder, work, mishaps>>

\* What the program only remembers is gone with it.
Forgets == stage' = "idle" /\ chosen' = NoRelease /\ looking' = FALSE /\ banner' = NoRelease

\* destroy: the owner may keep an unsaved note open, and the program stays.  The download
\* keeps the event loop turning, so the window can be closed under it.
Leave ==
  /\ \/ /\ app # "none" /\ stage # "launch" /\ app' = "none" /\ Forgets
     \/ stage = "leave" /\ stage' = "idle" /\ UNCHANGED <<app, chosen, looking, banner>>
  /\ UNCHANGED <<consent, checked, folder, work, scripts, mishaps>>

-----------------------------------------------------------------------------
(* The updater script.                                                      *)

Goes(s, next) == scripts' = [scripts EXCEPT ![s].at = next]
Fine          == UNCHANGED mishaps
Fault         == /\ mishaps.faults < MaxFaults
                 /\ mishaps' = [mishaps EXCEPT !.faults = @ + 1]
ScriptOnly    == UNCHANGED <<offerVars, installVars>>

\* A copy of the launcher first; without one nothing is attempted.
TakeBackup(s) ==
  /\ At(s, "backup")
  /\ \/ /\ work.there /\ folder.exe # "none" /\ Fine
        /\ work' = [work EXCEPT !.backup = folder.exe]
     \/ (IF work.there /\ folder.exe # "none" THEN Fault ELSE Fine) /\ UNCHANGED work
  /\ Goes(s, IF work'.backup = "none" THEN "cleanup" ELSE "wait")
  /\ ScriptOnly /\ UNCHANGED <<app, folder>>

\* The program has not left in time, or is given another second.
Tried(script) == IF script.tries + 1 >= MaxTries THEN [script EXCEPT !.at = "cleanup"]
                                                 ELSE [script EXCEPT !.tries = @ + 1]

\* Deleting the launcher works only once the program has left.
WaitForExit(s) ==
  /\ At(s, "wait")
  /\ \/ /\ app = "none" /\ folder' = [folder EXCEPT !.exe = "none"] /\ Goes(s, "clear")
     \/ /\ app # "none" /\ UNCHANGED folder
        /\ scripts' = [scripts EXCEPT ![s] = Tried(@)]
  /\ Fine /\ ScriptOnly /\ UNCHANGED <<app, work>>

\* rmdir _runtime.old: left by an earlier update.
ClearOld(s) ==
  /\ At(s, "clear") /\ Goes(s, "aside")
  /\ \/ Fine /\ folder' = [folder EXCEPT !.old = "none"]
     \/ Fault /\ folder.old # "none" /\ folder' = [folder EXCEPT !.old = "part"]
  /\ ScriptOnly /\ UNCHANGED <<app, work>>

\* Mutant (UpdateIsSafe): the old runtime is deleted, not moved aside.
Mutant_MoveAside(s) ==
  /\ At(s, "aside") /\ Goes(s, "launcher")
  /\ Fine /\ folder' = [folder EXCEPT !.rt = "none"]
  /\ ScriptOnly /\ UNCHANGED <<app, work>>

\* ren _runtime _runtime.old; still there means cancelled.
MoveAside(s) ==
  /\ At(s, "aside")
  /\ \/ /\ folder.old = "none" /\ Fine
        /\ folder' = [folder EXCEPT !.old = folder.rt, !.rt = "none"]
     \/ (IF folder.old = "none" THEN Fault ELSE Fine) /\ UNCHANGED folder
  /\ Goes(s, IF folder'.rt # "none" THEN "restore" ELSE "launcher")
  /\ ScriptOnly /\ UNCHANGED <<app, work>>

\* xcopy: the files of the folder, then the runtime, file after file.
Copied == [launcher |-> "runtime", runtime |-> "rest", rest |-> "tidy"]
CopyNew(s) ==
  \E part \in DOMAIN Copied :
    /\ At(s, part)
    /\ \/ /\ work.tree # "none" /\ Fine /\ Goes(s, Copied[part])
          /\ folder' = CASE part = "launcher" -> [folder EXCEPT !.exe = work.tree]
                         [] part = "runtime"  -> [folder EXCEPT !.rt = "part"]
                         [] part = "rest"     -> [folder EXCEPT !.rt = work.tree]
       \/ /\ IF work.tree = "none" THEN Fine ELSE Fault
          /\ Goes(s, "undo") /\ UNCHANGED folder
    /\ ScriptOnly /\ UNCHANGED <<app, work>>

\* Installed: the old runtime goes.
Tidy(s) ==
  /\ At(s, "tidy") /\ Goes(s, "start")
  /\ \/ Fine /\ folder' = [folder EXCEPT !.old = "none"]
     \/ Fault /\ folder' = [folder EXCEPT !.old = "part"]
  /\ ScriptOnly /\ UNCHANGED <<app, work>>

\* :rollback, first half: the copy that failed goes.
DropNew(s) ==
  /\ At(s, "undo") /\ Goes(s, "back")
  /\ \/ Fine /\ folder' = [folder EXCEPT !.rt = "none"]
     \/ Fault /\ folder.rt # "none" /\ UNCHANGED folder
  /\ ScriptOnly /\ UNCHANGED <<app, work>>

\* :rollback, second half: _runtime.old takes its name back.
PutBack(s) ==
  /\ At(s, "back") /\ Goes(s, "restore")
  /\ \/ /\ folder.rt = "none" /\ folder.old # "none" /\ Fine
        /\ folder' = [folder EXCEPT !.rt = folder.old, !.old = "none"]
     \/ (IF folder.rt = "none" /\ folder.old # "none" THEN Fault ELSE Fine) /\ UNCHANGED folder
  /\ ScriptOnly /\ UNCHANGED <<app, work>>

\* copy BACKUP back over the launcher.
RestoreLauncher(s) ==
  /\ At(s, "restore") /\ Goes(s, "start")
  /\ \/ work.backup # "none" /\ Fine /\ folder' = [folder EXCEPT !.exe = work.backup]
     \/ (IF work.backup # "none" THEN Fault ELSE Fine) /\ UNCHANGED folder
  /\ ScriptOnly /\ UNCHANGED <<app, work>>

Startable == folder.exe # "none" /\ folder.rt \in Versions

\* start: the program runs again when the install is whole.
StartApp(s) ==
  /\ At(s, "start") /\ Goes(s, "cleanup")
  /\ app' = IF app = "none" /\ Startable THEN folder.rt ELSE app
  /\ Fine /\ ScriptOnly /\ UNCHANGED <<folder, work>>

Cleanup(s) ==
  /\ At(s, "cleanup") /\ Goes(s, "ended")
  /\ work' = NoWork
  /\ Fine /\ ScriptOnly /\ UNCHANGED <<app, folder>>

ScriptStep(s) ==
  \/ TakeBackup(s) \/ WaitForExit(s) \/ ClearOld(s) \/ MoveAside(s) \/ CopyNew(s)
  \/ Tidy(s) \/ DropNew(s) \/ PutBack(s) \/ RestoreLauncher(s) \/ StartApp(s) \/ Cleanup(s)

-----------------------------------------------------------------------------
(* What else happens.                                                       *)

StoppedScripts == [s \in DOMAIN scripts |-> [scripts[s] EXCEPT !.at = "ended"]]

\* The machine stops: the program and its scripts are gone, the files stay.
PowerCut ==
  /\ ~mishaps.crashed
  /\ mishaps' = [mishaps EXCEPT !.crashed = TRUE]
  /\ app' = "none" /\ Forgets /\ scripts' = StoppedScripts
  /\ UNCHANGED <<consent, checked, folder, work>>

\* The owner starts the program again, when there is one to start.
StartAgain ==
  /\ app = "none" /\ Startable /\ app' = folder.rt
  /\ UNCHANGED <<offerVars, installVars, folder, work, scripts, mishaps>>

\* clean_temp of another instance: it spares its own process number only, so WORK goes,
\* and the .cmd with it - cmd.exe reads the script line by line and ends without it.
Sweep ==
  /\ work.there
  /\ mishaps' = [mishaps EXCEPT !.robbed = @ \/ mishaps.crashed \/ Waiting]
  /\ work' = NoWork /\ scripts' = StoppedScripts
  /\ UNCHANGED <<offerVars, app, installVars, folder>>

UpdateNext ==
  \/ StartupCheck \/ CheckNow \/ ToggleCheck \/ CheckDone
  \/ Install \/ Fetch \/ Verify \/ Launch \/ Leave
  \/ \E s \in DOMAIN scripts : ScriptStep(s)
  \/ PowerCut \/ StartAgain \/ Sweep

UpdateSpec == UpdateInit /\ [][UpdateNext]_updateVars

-----------------------------------------------------------------------------
(* Properties.                                                              *)

\* The cases the script does not provide for: two commands fail, another instance
\* sweeps WORK away under it, or the same one prepares a second update in it.
Ordinary == mishaps.faults <= 1 /\ ~mishaps.robbed

\* Once the script has ended, the install folder holds one whole version, launcher and
\* runtime alike, whichever command failed.
EndsWhole ==
  (Ordinary /\ ~mishaps.crashed /\ \A s \in DOMAIN scripts : At(s, "ended")) =>
    folder.rt \in Versions /\ folder.exe = folder.rt

\* At every moment, were the machine to stop there, a launcher and a whole runtime are
\* still on the disk: in the install folder, moved aside or in WORK.
StillThere ==
  Ordinary => /\ Versions \cap {folder.exe, work.backup, work.tree} # {}
              /\ Versions \cap {folder.rt, folder.old, work.tree} # {}

\* The releases that can be installed say which version they hold.
Declared == \A r \in Offers : PickAsset(r.assets) # 0 => r.declares

\* However many updates follow each other, what is installed is never older than what was
\* there first, as long as WORK belongs to one script at a time: what is unpacked in it for
\* a second update is there before anything of it is verified.
NeverOlder ==
  Declared /\ ~mishaps.robbed /\ folder.rt \in Versions \ {Current}
     => IsNewer(folder.rt, Current)

\* An update leaves a whole program behind and never an older one, and no moment of it
\* is one that could not be recovered from.
UpdateIsSafe == EndsWhole /\ StillThere /\ NeverOlder
=============================================================================
