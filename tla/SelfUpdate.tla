----------------------------- MODULE SelfUpdate -----------------------------
(***************************************************************************)
(* The process replaces its own executable: UpdateCore downloads and       *)
(* installs a version in steps, leaves a marker and restarts; each start   *)
(* counts the marker up and, when it has been counted up too often, puts   *)
(* the saved version back; a version that stays up long enough removes the *)
(* marker and is verified with that.  The process may end between any two  *)
(* steps, and a supervisor starts whatever executable it finds.            *)
(***************************************************************************)
EXTENDS Naturals, FiniteSets

CONSTANTS
    NoFile,         \* a path at which there is no file
    Partial,        \* a file that was not written to its end
    MaxRetries,     \* maxUpdateRetries
    MaxUpdates,     \* bound: updates begun
    MaxEnds,        \* bound: how often the process ends other than by a restart
    MaxFaults       \* bound: renames and writes that fail

\* Installations, numbered in their order; 0 was made by hand.  The same release installed
\* twice is two of them.
Installations == 0..MaxUpdates

ASSUME UpdateAssumption ==
    /\ MaxRetries \in Nat \ {0}   \* 3 in the code; without a start there is nothing to count
    /\ {MaxUpdates, MaxEnds, MaxFaults} \subseteq Nat
    /\ NoFile \notin Installations
    /\ Partial \notin Installations

VARIABLES
    suUnfit,    \* installations whose process ends before it has been up for the delay
    suExec,     \* the file at the path of the executable
    suOld,      \* the file at .old
    suNew,      \* the file at .new
    suMarker,   \* the number in .update-pending, 0 if there is no such file
    suLife,     \* the process: "down", "checking", "putback" (the saved version is back, the
                \* marker is still there), "starting", "up"
    suClearing, \* the goroutine of ClearUpdateMarker sleeps
    suStep,     \* UpdateCore: the step it has done, "none" if it is not at work
    suTarget,   \* the installation it makes, or made last
    suRestart,  \* the goroutine of restartExecutable is at work
    suVerified, \* those that have removed the marker, and the first
    suHasty,    \* an update began while the installed version was not verified
    suCounts    \* updates begun, ends of the process, faults

suFiles == <<suExec, suOld, suNew, suMarker>>
suUpdate == <<suStep, suTarget>>
suHistory == <<suUnfit, suVerified, suHasty>>
suVars == <<suFiles, suLife, suClearing, suUpdate, suRestart, suCounts, suHistory>>

SuInit ==
    /\ suUnfit \in SUBSET (Installations \ {0})
    /\ suExec = 0
    /\ suOld = NoFile
    /\ suNew = NoFile
    /\ suMarker = 0
    /\ suLife = "up"
    /\ suClearing = FALSE
    /\ suStep = "none"
    /\ suTarget = 0
    /\ suRestart = FALSE
    /\ suVerified = {0}
    /\ suHasty = FALSE
    /\ suCounts = [updates |-> 0, ends |-> 0, faults |-> 0]

MayFail == suCounts.faults < MaxFaults /\ suCounts' = [suCounts EXCEPT !.faults = @ + 1]
Succeeds == UNCHANGED suCounts

(******************************** the update *******************************)

\* TryLock; the restart of an update that has returned may still be on its way.
BeginUpdate ==
    /\ suLife = "up"
    /\ suStep = "none"
    /\ suCounts.updates < MaxUpdates
    /\ suCounts' = [suCounts EXCEPT !.updates = @ + 1]
    /\ suStep' = "begun"
    /\ suTarget' = suTarget + 1
    /\ suHasty' = (suHasty \/ suExec \notin suVerified)
    /\ UNCHANGED <<suUnfit, suFiles, suLife, suClearing, suRestart, suVerified>>

UpdateGoes(place) ==
    /\ suStep' = place
    /\ UNCHANGED <<suFiles, suLife, suClearing, suTarget, suRestart, suCounts, suHistory>>

\* Disabled, or nothing for this platform, or neither a direct request nor one through the
\* proxy brings the archive and the list of checksums.
Download ==
    /\ suStep = "begun"
    /\ UpdateGoes("downloaded") \/ UpdateGoes("none")

\* The archive has the checksum the list says.
CheckArchive ==
    /\ suStep = "downloaded"
    /\ UpdateGoes("checked") \/ UpdateGoes("none")

\* It is unpacked within the limits into a directory of its own and holds the executable.
Unpack ==
    /\ suStep = "checked"
    /\ UpdateGoes("unpacked") \/ UpdateGoes("none")

\* replaceExecutable: the new version is copied next to the old one, ...
CopyNew ==
    /\ suStep = "unpacked"
    /\ suStep' = "copied"
    /\ suNew' \in {suTarget, Partial}
    /\ UNCHANGED <<suExec, suOld, suMarker, suLife, suClearing, suTarget,
                   suRestart, suCounts, suHistory>>

\* ... and compared with what was downloaded; a copy that differs is removed, one that could
\* not be written stays.
CompareNew ==
    /\ suStep = "copied"
    /\ IF suNew = Partial
       THEN suNew' \in {NoFile, Partial} /\ suStep' = "none"
       ELSE suStep' = "compared" /\ UNCHANGED suNew
    /\ UNCHANGED <<suExec, suOld, suMarker, suLife, suClearing, suTarget,
                   suRestart, suCounts, suHistory>>

\* What an earlier update saved is removed ...
DropOld ==
    /\ suStep = "compared"
    /\ suOld' = NoFile
    /\ suStep' = "dropped"
    /\ UNCHANGED <<suExec, suNew, suMarker, suLife, suClearing, suTarget,
                   suRestart, suCounts, suHistory>>

\* ... and the installed version is saved instead, or the update given up.
SaveOld ==
    /\ suStep = "dropped"
    /\ \/ /\ suExec # NoFile /\ Succeeds
          /\ suOld' = suExec /\ suExec' = NoFile /\ UNCHANGED suNew
          /\ suStep' = "saved"
       \/ /\ IF suExec = NoFile THEN Succeeds ELSE MayFail
          /\ suNew' = NoFile /\ UNCHANGED <<suExec, suOld>>
          /\ suStep' = "none"
    /\ UNCHANGED <<suMarker, suLife, suClearing, suTarget, suRestart, suHistory>>

Install ==
    /\ suStep = "saved"
    /\ \/ Succeeds /\ suExec' = suNew /\ suNew' = NoFile /\ suStep' = "installed"
       \/ MayFail /\ suStep' = "failed" /\ UNCHANGED <<suExec, suNew>>
    /\ UNCHANGED <<suOld, suMarker, suLife, suClearing, suTarget, suRestart, suHistory>>

\* The saved version goes back; if that fails too, it is only logged.
UndoSave ==
    /\ suStep = "failed"
    /\ \/ Succeeds /\ suExec' = suOld /\ suOld' = NoFile
       \/ MayFail /\ UNCHANGED <<suExec, suOld>>
    /\ suStep' = "none"
    /\ UNCHANGED <<suNew, suMarker, suLife, suClearing, suTarget, suRestart, suHistory>>

\* writeUpdateMarker, whose failure does not stop the update; then the restart is launched
\* and UpdateCore returns.
MarkPending ==
    /\ suStep = "installed"
    /\ \/ Succeeds /\ suMarker' = 1
       \/ MayFail /\ UNCHANGED suMarker
    /\ suRestart' = TRUE
    /\ suStep' = "none"
    /\ UNCHANGED <<suExec, suOld, suNew, suLife, suClearing, suTarget, suHistory>>

(**************************** ends and starts ******************************)

\* What is left of a process: its files.
Stopped ==
    /\ suLife' = "down"
    /\ suClearing' = FALSE
    /\ suStep' = "none"
    /\ suRestart' = FALSE

\* restartExecutable after Shutdown: the path is executed, or the process exits with 1.
Restart ==
    /\ suRestart
    /\ Stopped
    /\ UNCHANGED <<suFiles, suTarget, suCounts, suHistory>>

ProcessDies ==
    /\ suLife # "down"
    /\ suCounts.ends < MaxEnds
    /\ suCounts' = [suCounts EXCEPT !.ends = @ + 1]
    /\ Stopped
    /\ UNCHANGED <<suFiles, suTarget, suHistory>>

StartProcess ==
    /\ suLife = "down"
    /\ suExec # NoFile
    /\ suLife' = "checking"
    /\ UNCHANGED <<suFiles, suClearing, suUpdate, suRestart, suCounts, suHistory>>

\* CheckPendingUpdate: no marker, or one that is counted up.
CheckPasses ==
    /\ suLife = "checking"
    /\ suMarker < MaxRetries
    /\ \/ Succeeds /\ suMarker' = IF suMarker = 0 THEN 0 ELSE suMarker + 1
       \/ suMarker > 0 /\ MayFail /\ UNCHANGED suMarker
    /\ suLife' = "starting"
    /\ UNCHANGED <<suExec, suOld, suNew, suClearing, suUpdate, suRestart, suHistory>>

\* Too many starts: the saved version is renamed to the path ...
RollBack ==
    /\ suLife = "checking"
    /\ suMarker >= MaxRetries
    /\ suOld # NoFile
    /\ Succeeds
    /\ suExec' = suOld
    /\ suOld' = NoFile
    /\ suLife' = "putback"
    /\ UNCHANGED <<suNew, suMarker, suClearing, suUpdate, suRestart, suHistory>>

\* ... and executed once the marker is gone.
ExecuteOld ==
    /\ suLife = "putback"
    /\ suMarker' = 0
    /\ suLife' = "checking"
    /\ UNCHANGED <<suExec, suOld, suNew, suClearing, suUpdate, suRestart, suCounts, suHistory>>

\* Nothing to put back, or it cannot be renamed: the marker goes, the version stays.
RollBackFails ==
    /\ suLife = "checking"
    /\ suMarker >= MaxRetries
    /\ IF suOld = NoFile THEN Succeeds ELSE MayFail
    /\ suMarker' = 0
    /\ suLife' = "starting"
    /\ UNCHANGED <<suExec, suOld, suNew, suClearing, suUpdate, suRestart, suHistory>>

\* The server listens; ClearUpdateMarker starts its goroutine if there is a marker.
ServerListens ==
    /\ suLife = "starting"
    /\ suLife' = "up"
    /\ suClearing' = (suMarker > 0)
    /\ UNCHANGED <<suFiles, suUpdate, suRestart, suCounts, suHistory>>

\* Mutated: the marker is not removed.
ClearMarkerKeeps ==
    /\ suClearing
    /\ suExec \notin suUnfit
    /\ suClearing' = FALSE
    /\ UNCHANGED suMarker
    /\ suVerified' = suVerified \cup IF suMarker > 0 THEN {suExec} \ {NoFile} ELSE {}
    /\ UNCHANGED <<suUnfit, suExec, suOld, suNew, suLife, suUpdate,
                   suRestart, suHasty, suCounts>>

\* The goroutine wakes up in a process that lived that long and removes what it finds.
ClearMarker ==
    /\ suClearing
    /\ suExec \notin suUnfit
    /\ suClearing' = FALSE
    /\ suMarker' = 0
    /\ suVerified' = suVerified \cup IF suMarker > 0 THEN {suExec} \ {NoFile} ELSE {}
    /\ UNCHANGED <<suUnfit, suExec, suOld, suNew, suLife, suUpdate,
                   suRestart, suHasty, suCounts>>

SuNext ==
    \/ BeginUpdate
    \/ Download
    \/ CheckArchive
    \/ Unpack
    \/ CopyNew
    \/ CompareNew
    \/ DropOld
    \/ SaveOld
    \/ Install
    \/ UndoSave
    \/ MarkPending
    \/ Restart
    \/ ProcessDies
    \/ StartProcess
    \/ CheckPasses
    \/ RollBack
    \/ ExecuteOld
    \/ RollBackFails
    \/ ServerListens
    \/ ClearMarker

\* While no update is begun on a version that is not verified yet, a verified version is
\* there to be started or put back, wherever the process ends (update/core.go:163).
VersionKept == suHasty \/ suExec \in suVerified \/ suOld \in suVerified

\* What is put back takes the place of a version that was never verified.
RollBackJustified == [][RollBack /\ ~suHasty => suExec \notin suVerified]_suVars
=============================================================================
