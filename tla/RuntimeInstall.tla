---------------------------- MODULE RuntimeInstall ---------------------------
(***************************************************************************)
(* The installation of the helper runtime (runtime/downloader.py): an      *)
(* asset is downloaded to a private file, extracted into a staging         *)
(* directory, verified there, and renamed to runtime/current, with the     *)
(* directory it replaces set aside until then.  The steps of one           *)
(* installation run in an executor thread; nothing serialises those of two *)
(* config entries, or of an entry that was reloaded meanwhile.             *)
(*                                                                         *)
(* A directory stands for what its manifest says.  "broken" is one that    *)
(* fails _verify_runtime, "foreign" one that passes it but is not of this  *)
(* release.  Staging directories and partial files that a crash leaves     *)
(* behind are never read again, and are left out.                          *)
(***************************************************************************)
EXTENDS Naturals

CONSTANTS
  Installs,   \* calls of async_ensure_release_runtime
  Pids,       \* process identifiers
  MaxFaults,  \* bound: renames and removals that fail
  MaxCrashes, \* bound: crashes of the process
  None

ASSUME InstallAssumption ==
  /\ MaxFaults \in Nat /\ MaxCrashes \in Nat /\ Pids # {}
  /\ None \notin {"release", "foreign", "broken"}

VARIABLES
  current,  \* the runtime of runtime/current
  backup,   \* the runtime of .runtime-previous-<pid>
  pid,      \* this process
  step,     \* where each installation is
  moved,    \* its backup is not None
  staging,  \* the runtime in its staging directory
  faults,   \* operations that failed so far
  crashes,  \* crashes so far
  cut,      \* history: a crash hit between the two renames
  had       \* history: a runtime that is not broken was there

vars == <<current, backup, pid, step, moved, staging, faults, crashes, cut, had>>

Builds == {"release", "foreign", "broken"}
Content == Builds \cup {None}
Steps == {"idle", "fetching", "verifying", "aside", "publishing",
          "undoing", "clearing", "installed", "failed"}
\* Where an installation has set the runtime aside, and not yet replaced it.
Between(i) == moved[i] /\ step[i] \in {"publishing", "undoing"}

TypeOK ==
  /\ current \in Content /\ backup \in [Pids -> Content] /\ pid \in Pids
  /\ step \in [Installs -> Steps] /\ moved \in [Installs -> BOOLEAN]
  /\ staging \in [Installs -> Content]
  /\ faults \in 0..MaxFaults /\ crashes \in 0..MaxCrashes
  /\ cut \in BOOLEAN /\ had \in BOOLEAN

Init ==
  /\ current \in Content
  /\ backup = [p \in Pids |-> None]
  /\ pid \in Pids
  /\ step = [i \in Installs |-> "idle"]
  /\ moved = [i \in Installs |-> FALSE]
  /\ staging = [i \in Installs |-> None]
  /\ faults = 0 /\ crashes = 0 /\ cut = FALSE
  /\ had \in BOOLEAN /\ (had <=> current \in {"release", "foreign"})

At(i, s) == step[i] = s
Goto(i, s) == step' = [step EXCEPT ![i] = s]
Stage(i, content) == staging' = [staging EXCEPT ![i] = content]
Fault == faults < MaxFaults /\ faults' = faults + 1

\* Any error: the finally clauses remove the staging directory and the asset.
Fail(i) ==
  /\ Goto(i, "failed") /\ Stage(i, None)
  /\ UNCHANGED <<current, backup, pid, moved, crashes, cut, had>>

\* A preparation found no runtime, one that is broken, or one of another release.
Ensure(i) ==
  /\ At(i, "idle") /\ current # "release" /\ Goto(i, "fetching")
  /\ UNCHANGED <<current, backup, pid, moved, staging, faults, crashes, cut, had>>

\* The call returns or raises.
Return(i) ==
  /\ step[i] \in {"installed", "failed"}
  /\ Goto(i, "idle") /\ moved' = [moved EXCEPT ![i] = FALSE]
  /\ UNCHANGED <<current, backup, pid, staging, faults, crashes, cut, had>>

\* The asset has the checksum that the release lists for it; what it holds is
\* only known once it is extracted.
Extracted(i) ==
  /\ At(i, "fetching") /\ Goto(i, "verifying")
  /\ \E content \in Builds : Stage(i, content)
  /\ UNCHANGED <<current, backup, pid, moved, faults, crashes, cut, had>>

\* The network, a checksum, a member that is not allowed, a full disk.
GivesUp(i) ==
  /\ At(i, "fetching") /\ Fail(i) /\ UNCHANGED faults

VerifiedLoosely(i) ==
  /\ At(i, "verifying") /\ staging[i] # "broken"
  /\ Goto(i, IF current = None THEN "publishing" ELSE "aside")
  /\ UNCHANGED <<current, backup, pid, moved, staging, faults, crashes, cut, had>>
Verified(i) ==
  /\ At(i, "verifying") /\ staging[i] = "release"
  /\ Goto(i, IF current = None THEN "publishing" ELSE "aside")
  /\ UNCHANGED <<current, backup, pid, moved, staging, faults, crashes, cut, had>>

Rejected(i) ==
  /\ At(i, "verifying") /\ staging[i] # "release"
  /\ Fail(i) /\ UNCHANGED faults

\* os.replace(current, backup): neither may have changed in the wrong way.
SetAside(i) ==
  /\ At(i, "aside") /\ backup[pid] = None /\ current # None
  /\ backup' = [backup EXCEPT ![pid] = current] /\ current' = None
  /\ moved' = [moved EXCEPT ![i] = TRUE] /\ Goto(i, "publishing")
  /\ UNCHANGED <<pid, staging, faults, crashes, cut, had>>

SetAsideFails(i) ==
  /\ At(i, "aside") /\ Fail(i)
  /\ IF backup[pid] # None \/ current = None THEN UNCHANGED faults ELSE Fault

\* os.replace(staging, current), which needs the place to be free.
Publish(i) ==
  /\ At(i, "publishing") /\ current = None
  /\ current' = staging[i] /\ Stage(i, None) /\ had' = TRUE
  /\ Goto(i, IF moved[i] THEN "clearing" ELSE "installed")
  /\ UNCHANGED <<backup, pid, moved, faults, crashes, cut>>

PublishGivesUp(i) ==
  /\ At(i, "publishing")
  /\ IF current # None THEN UNCHANGED faults ELSE Fault
  /\ Fail(i)
\* The rename fails: what was set aside goes back, if the place is still free.
PublishFails(i) ==
  /\ At(i, "publishing")
  /\ IF current # None THEN UNCHANGED faults ELSE Fault
  /\ IF moved[i] /\ backup[pid] # None /\ current = None
     THEN Goto(i, "undoing")
          /\ UNCHANGED <<current, backup, pid, moved, staging, crashes, cut, had>>
     ELSE Fail(i)

Undo(i) ==
  /\ At(i, "undoing") /\ current = None /\ backup[pid] # None
  /\ current' = backup[pid] /\ backup' = [backup EXCEPT ![pid] = None]
  /\ Goto(i, "failed") /\ Stage(i, None)
  /\ UNCHANGED <<pid, moved, faults, crashes, cut, had>>

UndoFails(i) ==
  /\ At(i, "undoing") /\ Fail(i)
  /\ IF current # None \/ backup[pid] = None THEN UNCHANGED faults ELSE Fault

\* shutil.rmtree(backup, ignore_errors=True)
Clear(i) ==
  /\ At(i, "clearing") /\ Goto(i, "installed")
  /\ \/ backup' = [backup EXCEPT ![pid] = None] /\ UNCHANGED faults
     \/ Fault /\ UNCHANGED backup
  /\ UNCHANGED <<current, pid, moved, staging, crashes, cut, had>>

Step(i) ==
  \/ Extracted(i) \/ GivesUp(i) \/ Verified(i) \/ Rejected(i)
  \/ SetAside(i) \/ SetAsideFails(i) \/ Publish(i) \/ PublishFails(i)
  \/ Undo(i) \/ UndoFails(i) \/ Clear(i)

\* The process dies and another one starts, perhaps with the same identifier.
Crash ==
  /\ crashes < MaxCrashes /\ crashes' = crashes + 1
  /\ pid' \in Pids
  /\ step' = [i \in Installs |-> "idle"]
  /\ moved' = [i \in Installs |-> FALSE]
  /\ staging' = [i \in Installs |-> None]
  /\ cut' = (cut \/ \E i \in Installs : Between(i))
  /\ UNCHANGED <<current, backup, faults, had>>

Next ==
  \/ \E i \in Installs : Ensure(i) \/ Step(i) \/ Return(i)
  \/ Crash

Spec == Init /\ [][Next]_vars

------------------------------------------------------------------------------
(* Properties *)

\* A runtime that was there, or was installed, is there or is being replaced,
\* whatever the other installations do and whichever single operation fails.
\* Only a crash between the two renames of one installation loses it (the next
\* preparation then downloads it again).
RuntimeKept ==
  /\ TypeOK
  /\ had /\ current = None /\ faults < 2 /\ ~cut => \E i \in Installs : Between(i)

\* Once a runtime is replaced, it is by one that was verified as this release:
\* no installation, however it overlaps with others, leaves another one.
OnlyRelease ==
  [][current' \notin {current, None} =>
       current' = "release" \/ current' \in {backup[p] : p \in Pids}]_vars
==============================================================================
