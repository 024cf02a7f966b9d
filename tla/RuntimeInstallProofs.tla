------------------------- MODULE RuntimeInstallProofs -------------------------
(***************************************************************************)
(* Proofs about RuntimeInstall, for any number of overlapping              *)
(* installations, process identifiers, failing operations and crashes, and *)
(* about UserFiles, for any number of packages, actors and restarts.       *)
(***************************************************************************)
EXTENDS RuntimeInstall, UserFiles, TLAPS

USE DEF At, Goto, Stage, Fault, Content, Builds

\* Where an installation answers for the one backup of this process.
Keeps(i) == moved[i] /\ step[i] \in {"publishing", "undoing", "clearing"}

\* The backup is there as long as the installation that made it may need it,
\* and no other installation made one meanwhile.
OneBackup ==
  /\ \A i \in Installs : Keeps(i) => backup[pid] # None
  /\ \A i, j \in Installs : Keeps(i) /\ Keeps(j) => i = j

\* Only a verified runtime reaches the renames.
Staged ==
  \A i \in Installs :
    step[i] \in {"aside", "publishing", "undoing"} => staging[i] = "release"

\* Only what was set aside is undone or cleared, and before anything is undone
\* a rename has failed.
Undoing ==
  \A i \in Installs :
    /\ step[i] \in {"idle", "fetching", "verifying", "aside"} => ~moved[i]
    /\ step[i] \in {"undoing", "clearing"} => moved[i]
    /\ step[i] = "undoing" => faults > 0

Kept == had /\ current = None /\ faults < 2 /\ ~cut => \E i \in Installs : Between(i)

Inductive == TypeOK /\ OneBackup /\ Staged /\ Undoing /\ Kept

------------------------------------------------------------------------------

\* Before any installation there is no backup and nothing is staged.
LEMMA InitInductive == Init => Inductive
  <1> SUFFICES ASSUME Init PROVE Inductive
    OBVIOUS
  <1>1. TypeOK
    <2>1. had \in BOOLEAN
      BY DEF Init
    <2>2. /\ step \in [Installs -> Steps] /\ moved \in [Installs -> BOOLEAN]
          /\ staging \in [Installs -> Content] /\ cut \in BOOLEAN
      BY DEF Init, Steps
    <2>3. /\ current \in Content /\ backup \in [Pids -> Content] /\ pid \in Pids
          /\ faults \in 0..MaxFaults /\ crashes \in 0..MaxCrashes
      BY InstallAssumption DEF Init
    <2> QED BY <2>1, <2>2, <2>3 DEF TypeOK
  <1>2. OneBackup /\ Staged /\ Undoing
    BY DEF Init, OneBackup, Keeps, Staged, Undoing
  <1>3. Kept
    BY InstallAssumption DEF Init, Kept
  <1> QED BY <1>1, <1>2, <1>3 DEF Inductive

\* The ranges, for every step at once.
LEMMA StepTypes == TypeOK /\ [Next]_vars => TypeOK'
  <1> SUFFICES ASSUME TypeOK, [Next]_vars PROVE TypeOK'
    OBVIOUS
  <1> USE InstallAssumption DEF TypeOK, Steps
  <1>1. ASSUME NEW i \in Installs, Ensure(i) \/ Return(i) PROVE TypeOK'
    BY <1>1 DEF Ensure, Return
  <1>2. ASSUME NEW i \in Installs, Extracted(i) \/ GivesUp(i) PROVE TypeOK'
    BY <1>2 DEF Extracted, GivesUp, Fail
  <1>3. ASSUME NEW i \in Installs, Verified(i) \/ Rejected(i) PROVE TypeOK'
    BY <1>3 DEF Verified, Rejected, Fail
  <1>4. ASSUME NEW i \in Installs, SetAside(i) \/ SetAsideFails(i) PROVE TypeOK'
    <2>1. CASE SetAside(i)
      BY <2>1 DEF SetAside
    <2>2. CASE SetAsideFails(i)
      BY <2>2 DEF SetAsideFails, Fail
    <2> QED BY <1>4, <2>1, <2>2
  <1>5. ASSUME NEW i \in Installs, Publish(i) \/ PublishFails(i) PROVE TypeOK'
    <2>1. CASE Publish(i)
      BY <2>1 DEF Publish
    <2>2. CASE PublishFails(i)
      BY <2>2 DEF PublishFails, Fail
    <2> QED BY <1>5, <2>1, <2>2
  <1>6. ASSUME NEW i \in Installs, Undo(i) \/ UndoFails(i) PROVE TypeOK'
    BY <1>6 DEF Undo, UndoFails, Fail
  <1>7. ASSUME NEW i \in Installs, Clear(i) PROVE TypeOK'
    BY <1>7 DEF Clear
  <1>8. CASE Crash
    BY <1>8 DEF Crash
  <1>9. CASE UNCHANGED vars
    BY <1>9 DEF vars
  <1> QED BY <1>1, <1>2, <1>3, <1>4, <1>5, <1>6, <1>7, <1>8, <1>9 DEF Next, Step

\* An installation that gives up: it answers for nothing afterwards, and the
\* place is only left empty when the fault counter says why.
LEMMA FailKeeps ==
  ASSUME Inductive, TypeOK', NEW i \in Installs, Fail(i),
         faults' \in {faults, faults + 1},
         Between(i) /\ current = None => faults' > 1 \/ cut
  PROVE  Inductive'
  <1> USE DEF Inductive
  <1>1. /\ step'[i] = "failed"
        /\ \A j \in Installs \ {i} : step'[j] = step[j] /\ staging'[j] = staging[j]
        /\ moved' = moved /\ current' = current /\ backup' = backup /\ pid' = pid
        /\ cut' = cut /\ had' = had /\ faults' >= faults /\ faults \in Nat /\ faults' \in Nat
    BY InstallAssumption DEF Fail, TypeOK
  <1>2. \A j \in Installs : /\ Keeps(j)' => Keeps(j)
                            /\ j # i /\ Between(j) => Between(j)'
    BY <1>1 DEF Keeps, Between
  <1>3. OneBackup'
    BY <1>1, <1>2 DEF OneBackup
  <1>4. Staged' /\ Undoing'
    BY <1>1 DEF Staged, Undoing
  <1>5. Kept'
    BY <1>1, <1>2 DEF Kept
  <1> QED BY <1>3, <1>4, <1>5

\* Every step of an installation, and a crash.
LEMMA StepInductive == Inductive /\ [Next]_vars => Inductive'
  <1> SUFFICES ASSUME Inductive, [Next]_vars PROVE Inductive'
    OBVIOUS
  <1>0. TypeOK /\ TypeOK' /\ faults \in Nat
    BY StepTypes, InstallAssumption DEF Inductive, TypeOK
  <1>1. ASSUME NEW i \in Installs, Ensure(i) PROVE Inductive'
    BY <1>0, <1>1 DEF Ensure, Inductive, TypeOK, OneBackup, Keeps, Staged, Undoing, Kept,
        Between
  <1>2. ASSUME NEW i \in Installs, Return(i) PROVE Inductive'
    BY <1>0, <1>2 DEF Return, Inductive, TypeOK, OneBackup, Keeps, Staged, Undoing, Kept,
        Between
  <1>3. ASSUME NEW i \in Installs, Extracted(i) PROVE Inductive'
    BY <1>0, <1>3 DEF Extracted, Inductive, TypeOK, OneBackup, Keeps, Staged, Undoing,
        Kept, Between
  <1>4. ASSUME NEW i \in Installs, Verified(i) PROVE Inductive'
    <2>1. ~moved[i] /\ ~moved'[i]
      BY <1>4 DEF Verified, Inductive, Undoing
    <2>2. /\ staging[i] = "release" /\ step' = [step EXCEPT ![i] = step'[i]]
          /\ step'[i] \in {"publishing", "aside"} /\ step[i] = "verifying"
          /\ UNCHANGED <<current, backup, pid, moved, staging, faults, cut, had>>
      BY <1>0, <1>4 DEF Verified, TypeOK
    <2>3. OneBackup' /\ Kept'
      BY <1>0, <2>1, <2>2 DEF Inductive, TypeOK, OneBackup, Keeps, Kept, Between
    <2>4. Staged' /\ Undoing'
      BY <1>0, <2>1, <2>2 DEF Inductive, TypeOK, Staged, Undoing
    <2> QED BY <1>0, <2>3, <2>4 DEF Inductive
  <1>5. ASSUME NEW i \in Installs, GivesUp(i) \/ Rejected(i) PROVE Inductive'
    BY <1>0, <1>5, FailKeeps DEF GivesUp, Rejected, Between
  <1>6. ASSUME NEW i \in Installs, SetAside(i) PROVE Inductive'
    BY <1>0, <1>6 DEF SetAside, Inductive, TypeOK, OneBackup, Keeps, Staged, Undoing,
        Kept, Between
  <1>7. ASSUME NEW i \in Installs, SetAsideFails(i) PROVE Inductive'
    BY <1>0, <1>7, FailKeeps DEF SetAsideFails, Between
  <1>8. ASSUME NEW i \in Installs, Publish(i) PROVE Inductive'
    BY <1>0, <1>8, InstallAssumption
    DEF Publish, Inductive, TypeOK, OneBackup, Keeps, Staged, Undoing, Kept, Between
  <1>9. ASSUME NEW i \in Installs, PublishFails(i) PROVE Inductive'
    <2>1. CASE moved[i] /\ backup[pid] # None /\ current = None
      BY <1>0, <1>9, <2>1
      DEF PublishFails, Inductive, TypeOK, OneBackup, Keeps, Staged, Undoing, Kept, Between
    <2>2. CASE ~(moved[i] /\ backup[pid] # None /\ current = None)
      <3>1. ~(Between(i) /\ current = None)
        BY <2>2 DEF Inductive, OneBackup, Keeps, Between
      <3> QED BY <1>0, <1>9, <2>2, <3>1, FailKeeps DEF PublishFails
    <2> QED BY <2>1, <2>2
  <1>10. ASSUME NEW i \in Installs, Undo(i) PROVE Inductive'
    BY <1>0, <1>10
    DEF Undo, Inductive, TypeOK, OneBackup, Keeps, Staged, Undoing, Kept, Between
  <1>11. ASSUME NEW i \in Installs, UndoFails(i) PROVE Inductive'
    <2>1. moved[i] /\ faults > 0 /\ backup[pid] # None
      BY <1>11 DEF UndoFails, Inductive, Undoing, OneBackup, Keeps
    <2> QED BY <1>0, <1>11, <2>1, FailKeeps DEF UndoFails
  <1>12. ASSUME NEW i \in Installs, Clear(i) PROVE Inductive'
    <2>1. /\ step[i] = "clearing" /\ step' = [step EXCEPT ![i] = "installed"]
          /\ faults' >= faults /\ UNCHANGED <<current, pid, moved, staging, cut, had>>
          /\ moved[i] /\ Keeps(i)
      BY <1>0, <1>12 DEF Clear, Inductive, Undoing, Keeps
    <2>2. \A j \in Installs : ~Keeps(j)'
      BY <1>0, <2>1 DEF Inductive, TypeOK, OneBackup, Keeps
    <2>3. \A j \in Installs : ~Between(j)
      BY <2>1 DEF Inductive, OneBackup, Keeps, Between
    <2>4. OneBackup' /\ Kept'
      BY <1>0, <2>1, <2>2, <2>3 DEF Inductive, TypeOK, OneBackup, Kept
    <2>5. Staged' /\ Undoing'
      BY <1>0, <2>1 DEF Inductive, TypeOK, Staged, Undoing
    <2> QED BY <1>0, <2>4, <2>5 DEF Inductive
  <1>13. CASE Crash
    BY <1>0, <1>13
    DEF Crash, Inductive, TypeOK, OneBackup, Keeps, Staged, Undoing, Kept, Between
  <1>14. CASE UNCHANGED vars
    BY <1>0, <1>14
    DEF vars, Inductive, OneBackup, Keeps, Staged, Undoing, Kept, Between
  <1> QED BY <1>1, <1>2, <1>3, <1>4, <1>5, <1>6, <1>7, <1>8, <1>9, <1>10, <1>11, <1>12,
             <1>13, <1>14 DEF Next, Step

\* The strengthening holds in every reachable state.
LEMMA AlwaysInductive == Spec => []Inductive
  BY InitInductive, StepInductive, PTL DEF Spec

------------------------------------------------------------------------------
\* install_runtime_archive never loses a runtime to overlapping installations
\* and a single failed rename: it is in place or about to be put back.
THEOREM RuntimeIsKept == Spec => []RuntimeKept
  <1>1. Inductive => RuntimeKept
    BY DEF Inductive, Kept, RuntimeKept
  <1> QED BY <1>1, AlwaysInductive, PTL

\* Whatever comes to runtime/current is verified as this release, or was there
\* before.
THEOREM OnlyReleaseArrives == Spec => OnlyRelease
  <1>1. Inductive /\ [Next]_vars =>
          [current' \notin {current, None} =>
             current' = "release" \/ current' \in {backup[p] : p \in Pids}]_vars
    <2> SUFFICES ASSUME Inductive, Next, current' \notin {current, None}
                 PROVE  current' = "release" \/ current' \in {backup[p] : p \in Pids}
      BY DEF vars
    <2>1. \E i \in Installs : Publish(i) \/ Undo(i)
      BY DEF Next, Step, Ensure, Return, Extracted, GivesUp, Verified, Rejected, SetAside,
             SetAsideFails, PublishFails, UndoFails, Clear, Crash, Fail
    <2> QED BY <2>1 DEF Publish, Undo, Inductive, Staged, TypeOK
  <1> QED BY <1>1, AlwaysInductive, PTL DEF Spec, OnlyRelease

------------------------------------------------------------------------------
(* UserFiles: modification times. *)

\* Touch makes something the newest and leaves the others as they were.
LEMMA TouchIs ==
  ASSUME NEW o, NEW x \in Names
  PROVE  /\ In(Touch(o, x)) = In(o) \cup {x}
         /\ \A y \in In(o) \cup {x} : <<y, x>> \in Touch(o, x)
         /\ \A y, z \in Names \ {x} : <<y, z>> \in Touch(o, x) <=> <<y, z>> \in o
  BY DEF In, Touch, Without

\* Without x, the order of the others is the same.
LEMMA WithoutIs ==
  ASSUME NEW o, NEW x \in Names
  PROVE  /\ In(Without(o, x)) = In(o) \ {x}
         /\ \A y, z \in Names \ {x} : <<y, z>> \in Without(o, x) <=> <<y, z>> \in o
  BY DEF In, Without

\* A directory that is renamed is there under its new name.
LEMMA RenamedIs ==
  ASSUME NEW o \in SUBSET (Names \X Names), NEW x \in In(o), NEW z \in Names
  PROVE  /\ Renamed(o, x, z) \in SUBSET (Names \X Names)
         /\ (In(o) \ {x}) \cup {z} \subseteq In(Renamed(o, x, z))
<1>1. \A e \in o : e \in Names \X Names /\ e = <<e[1], e[2]>>
  OBVIOUS
<1>2. Renamed(o, x, z) \in SUBSET (Names \X Names)
  BY <1>1 DEF Renamed
<1>3. z \in In(Renamed(o, x, z))
  <2>1. <<x, x>> \in o
    BY DEF In
  <2> QED BY <2>1 DEF In, Renamed
<1>4. ASSUME NEW y \in In(o), y # x PROVE y \in In(Renamed(o, x, z))
  <2>1. <<y, y>> \in o /\ y \in Names
    BY DEF In
  <2> QED BY <1>4, <2>1 DEF In, Renamed
<1> QED BY <1>2, <1>3, <1>4

\* Both keep to the names they are about.
LEMMA OrderTypes ==
  ASSUME NEW N \in SUBSET Names, NEW o \in SUBSET (N \X N), NEW x \in N
  PROVE  Touch(o, x) \in SUBSET (N \X N) /\ Without(o, x) \in SUBSET (N \X N)
<1>1. In(o) \subseteq N
  BY DEF In
<1> QED BY <1>1 DEF Touch, Without

------------------------------------------------------------------------------
(* UserFiles: the inductive invariant. *)

Extracting == {"opening", "extracting", "placing", "keying"}
Judging == {"read", "probing", "marking", "purging"}

\* An actor that needs a package has one.
Sourced ==
  /\ \A t \in Preparations : pc[t] \in Extracting \cup Judging => Source(t) \in Packages
  /\ \A s \in Stores : pc[s] # "idle" => Source(s) \in Packages

\* What is there has a modification time.
Dated ==
  /\ Present \subseteq In(touched)
  /\ \A t \in Preparations : tmp[t] = "whole" => t \in In(touched)

\* An extraction directory belongs to a preparation that is still extracting.
Owned == \A t \in Preparations : tmp[t] # "none" => pc[t] \in Extracting

\* Until two actors are at work at the same time, there is at most one.
Alone == ~overlapped => \A a, b \in Active : a = b

\* A restart would choose p, and find its key.
Restores(p) == NewestExtraction(p) /\ extracted[p] = "keyed"

\* What a lone actor has done so far, and nobody else undoes: while something
\* waits in uploads/ the extractions do not matter, and when the last archive
\* goes the newest extraction is the one that was judged.
Undisturbed ==
  /\ Active \cap Deletions = {} =>
       /\ \A p \in Packages : extracted[p] # "torn"
       /\ marker => In(uploads) # {} \/ \E p \in Packages : Restores(p)
  /\ \A t \in Preparations : /\ pc[t] \in Extracting => In(uploads) # {}
                             /\ pc[t] \in Judging => Restores(Source(t))
  /\ \A s \in Stores : pc[s] \in {"closing", "pruning"} => Source(s) \in In(uploads)
  /\ \A d \in Deletions : pc[d] \in {"clearing", "forgetting"} => Present = {}

Sound == ~overlapped /\ ~halfDeleted => Undisturbed

FilesInductive == FilesTypeOK /\ Sourced /\ Dated /\ Owned /\ Alone /\ Sound

Jobs == [source : Packages \cup {NoPackage}, awaited : BOOLEAN, again : BOOLEAN]

\* What the steps do to the jobs keeps them jobs.
Enlisted(f, a, p) == f = [job EXCEPT ![a].source = p, ![a].awaited = TRUE]
Assigned(f, a, p) == f = [job EXCEPT ![a].source = p]
Unawaited(f, a) == f = [job EXCEPT ![a].awaited = FALSE]
Repeated(f, a) == f = [job EXCEPT ![a].again = TRUE]

\* They change the job of their actor only, and its package as they say.
LEMMA JobTypes ==
  ASSUME job \in [Actors -> Jobs], NEW f, NEW a \in Actors,
         NEW p \in Packages \cup {NoPackage},
         \/ Enlisted(f, a, p) \/ Assigned(f, a, p) \/ Unawaited(f, a) \/ Repeated(f, a)
  PROVE  /\ f \in [Actors -> Jobs]
         /\ \A b \in Actors \ {a} : f[b] = job[b]
         /\ Unawaited(f, a) \/ Repeated(f, a) => f[a].source = job[a].source
         /\ Enlisted(f, a, p) \/ Assigned(f, a, p) => f[a].source = p
<1>1. job[a] \in Jobs
  OBVIOUS
<1>2. /\ job[a].source \in Packages \cup {NoPackage} /\ job[a].awaited \in BOOLEAN
      /\ job[a].again \in BOOLEAN
  BY <1>1 DEF Jobs
<1>3. /\ f = [job EXCEPT ![a] = f[a]]
      /\ \/ Enlisted(f, a, p) /\ f[a] = [job[a] EXCEPT !.source = p, !.awaited = TRUE]
         \/ Assigned(f, a, p) /\ f[a] = [job[a] EXCEPT !.source = p]
         \/ Unawaited(f, a) /\ f[a] = [job[a] EXCEPT !.awaited = FALSE]
         \/ Repeated(f, a) /\ f[a] = [job[a] EXCEPT !.again = TRUE]
  BY DEF Enlisted, Assigned, Unawaited, Repeated
<1>4. f[a] \in Jobs
  BY <1>1, <1>2, <1>3 DEF Jobs
<1>5. f \in [Actors -> Jobs] /\ \A b \in Actors \ {a} : f[b] = job[b]
  BY <1>3, <1>4
<1>6. Unawaited(f, a) \/ Repeated(f, a) => f[a].source = job[a].source
  BY <1>1 DEF Unawaited, Repeated, Jobs
<1>7. Enlisted(f, a, p) \/ Assigned(f, a, p) => f[a].source = p
  BY DEF Enlisted, Assigned, Jobs
<1> QED BY <1>5, <1>6, <1>7

USE DEF Is, To, Goes, End, EndTmp, disk, history, Enter, Source

\* At first the directory is empty.
LEMMA FilesInitInductive == FilesInit => FilesInductive
  <1> SUFFICES ASSUME FilesInit PROVE FilesInductive
    OBVIOUS
  <1>1. NoJob \in Jobs
    BY DEF NoJob, Jobs
  <1>2. /\ stale \in BOOLEAN /\ marker \in BOOLEAN /\ overlapped \in BOOLEAN
        /\ halfDeleted \in BOOLEAN
    BY DEF FilesInit
  <1>3. FilesTypeOK
    BY <1>1, <1>2, FilesAssumption DEF FilesInit, FilesTypeOK, Jobs, Extractions
  <1>4. Present = {} /\ Active = {}
    BY DEF FilesInit, Present, Active
  <1> QED BY <1>3, <1>4 DEF FilesInit, FilesInductive, Sourced, Dated, Owned, Alone, Sound,
             Undisturbed, Extracting, Judging, Actors

\* What is true or false, apart from the other ranges for the provers' sake.
Flags ==
  /\ stale \in BOOLEAN /\ marker \in BOOLEAN
  /\ overlapped \in BOOLEAN /\ halfDeleted \in BOOLEAN

\* It stays so, whatever step is taken.
LEMMA FlagsKeep == Flags /\ [FilesNext]_filesVars => Flags'
  <1> SUFFICES ASSUME Flags, [FilesNext]_filesVars PROVE Flags'
    OBVIOUS
  <1> USE DEF Flags
  <1>1. ASSUME NEW s \in Stores, Write(s) \/ StoreStep(s) PROVE Flags'
    <2>1. CASE Write(s)
      BY <2>1, ZenonT(30) DEF Write
    <2> QED BY <1>1, <2>1 DEF StoreStep, Name, CloseUpload, Prune, StoreFails
  <1>2. ASSUME NEW t \in Preparations, Prepare(t) \/ PreparationStep(t) PROVE Flags'
    <2>1. CASE Prepare(t)
      BY <2>1, ZenonT(30) DEF Prepare
    <2>2. CASE WriteMarker(t) \/ PrepareDirectories(t)
      BY <2>2 DEF WriteMarker, PrepareDirectories
    <2>3. CASE \/ PreparationFails(t) \/ SelectArchive(t) \/ LoadPersisted(t) \/ Open(t)
               \/ Extract(t) \/ Keep(t) \/ Place(t) \/ PersistKey(t)
      BY <2>3
      DEF PreparationFails, SelectArchive, LoadPersisted, Open, Extract, Keep, Place,
          PersistKey
    <2>4. CASE \/ Reread(t) \/ Accept(t) \/ Unheard(t) \/ LibrariesLoaded(t) \/ Purge(t)
               \/ CancelPreparation(t)
      BY <2>4 DEF Reread, Accept, Unheard, LibrariesLoaded, Purge, CancelPreparation
    <2> QED BY <1>2, <2>1, <2>2, <2>3, <2>4 DEF PreparationStep
  <1>3. ASSUME NEW d \in Deletions, Delete(d) \/ DeletionStep(d) PROVE Flags'
    <2>1. CASE Delete(d)
      BY <2>1, ZenonT(30) DEF Delete
    <2> QED BY <1>3, <2>1
        DEF DeletionStep, Sweep, Drop, Dropped, ClearTmp, Forget, DeletionFails
  <1>4. CASE ProcessDies
    BY <1>4, ZenonT(30) DEF ProcessDies
  <1>5. CASE UNCHANGED filesVars
    BY <1>5 DEF filesVars
  <1> QED BY <1>1, <1>2, <1>3, <1>4, <1>5 DEF FilesNext

\* The jobs, and that whoever needs a package has one ...
JobsOK == job \in [Actors -> Jobs] /\ Sourced

\* ... after every step of an actor and of the world.
LEMMA JobsKeep == FilesTypeOK /\ Sourced /\ [FilesNext]_filesVars => JobsOK'
  <1> SUFFICES ASSUME FilesTypeOK, Sourced, [FilesNext]_filesVars PROVE JobsOK'
    OBVIOUS
  <1>1. /\ pc \in [Actors -> Working \cup {"idle"}]
        /\ job \in [Actors -> Jobs] /\ NoJob \in Jobs /\ NoJob.source = NoPackage
    BY DEF FilesTypeOK, Jobs, NoJob
  <1>2. /\ Stores \subseteq Actors /\ Preparations \subseteq Actors
        /\ Deletions \subseteq Actors
    BY DEF Actors
  <1> USE <1>1, <1>2, FilesAssumption DEF JobsOK, Sourced, Extracting, Judging
  <1>3. ASSUME NEW s \in Stores, Write(s) PROVE JobsOK'
    <2>1. PICK p \in Packages : Enlisted(job', s, p)
      BY <1>3 DEF Write, Enlisted
    <2>2. /\ job' \in [Actors -> Jobs] /\ job'[s].source = p
          /\ \A b \in Actors \ {s} : job'[b] = job[b]
      BY <2>1, JobTypes
    <2> QED BY <1>3, <2>2 DEF Write
  <1>4. ASSUME NEW s \in Stores, Name(s) PROVE JobsOK'
    BY <1>4 DEF Name
  <1>5. ASSUME NEW s \in Stores, CloseUpload(s) PROVE JobsOK'
    BY <1>5 DEF CloseUpload
  <1>6. ASSUME NEW s \in Stores, Prune(s) PROVE JobsOK'
    BY <1>6 DEF Prune
  <1>7. ASSUME NEW s \in Stores, StoreFails(s) PROVE JobsOK'
    BY <1>7 DEF StoreFails
  <1>8. ASSUME NEW t \in Preparations, Prepare(t) PROVE JobsOK'
    <2>1. Enlisted(job', t, NoPackage)
      BY <1>8 DEF Prepare, Enlisted
    <2>2. job' \in [Actors -> Jobs] /\ \A b \in Actors \ {t} : job'[b] = job[b]
      BY <2>1, JobTypes
    <2> QED BY <1>8, <2>2 DEF Prepare
  <1>9. ASSUME NEW t \in Preparations, PreparationFails(t) PROVE JobsOK'
    BY <1>9 DEF PreparationFails
  <1>10. ASSUME NEW t \in Preparations, PrepareDirectories(t) PROVE JobsOK'
    BY <1>10 DEF PrepareDirectories
  <1>11. ASSUME NEW t \in Preparations, SelectArchive(t) PROVE JobsOK'
    <2>1. PICK p \in Packages : Assigned(job', t, p)
      BY <1>11 DEF SelectArchive, Assigned
    <2>2. /\ job' \in [Actors -> Jobs] /\ job'[t].source = p
          /\ \A b \in Actors \ {t} : job'[b] = job[b]
      BY <2>1, JobTypes
    <2> QED BY <1>11, <2>2 DEF SelectArchive
  <1>12. ASSUME NEW t \in Preparations, LoadPersisted(t) PROVE JobsOK'
    <2>1. PICK p \in Packages : Assigned(job', t, p)
      BY <1>12 DEF LoadPersisted, Assigned
    <2>2. /\ job' \in [Actors -> Jobs] /\ job'[t].source = p
          /\ \A b \in Actors \ {t} : job'[b] = job[b]
      BY <2>1, JobTypes
    <2> QED BY <1>12, <2>2 DEF LoadPersisted
  <1>13. ASSUME NEW t \in Preparations, Open(t) PROVE JobsOK'
    BY <1>13 DEF Open
  <1>14. ASSUME NEW t \in Preparations, Extract(t) PROVE JobsOK'
    BY <1>14 DEF Extract
  <1>15. ASSUME NEW t \in Preparations, Keep(t) PROVE JobsOK'
    BY <1>15 DEF Keep
  <1>16. ASSUME NEW t \in Preparations, Place(t) PROVE JobsOK'
    BY <1>16 DEF Place
  <1>17. ASSUME NEW t \in Preparations, PersistKey(t) PROVE JobsOK'
    BY <1>17 DEF PersistKey
  <1>18. ASSUME NEW t \in Preparations, Reread(t) PROVE JobsOK'
    <2>1. Repeated(job', t)
      BY <1>18 DEF Reread, Repeated
    <2>2. job' \in [Actors -> Jobs] /\ \A b \in Actors \ {t} : job'[b] = job[b]
      BY <2>1, JobTypes
    <2> QED BY <1>18, <2>2 DEF Reread
  <1>19. ASSUME NEW t \in Preparations, Accept(t) PROVE JobsOK'
    BY <1>19 DEF Accept
  <1>20. ASSUME NEW t \in Preparations, Unheard(t) PROVE JobsOK'
    BY <1>20 DEF Unheard
  <1>21. ASSUME NEW t \in Preparations, LibrariesLoaded(t) PROVE JobsOK'
    BY <1>21 DEF LibrariesLoaded
  <1>22. ASSUME NEW t \in Preparations, WriteMarker(t) PROVE JobsOK'
    BY <1>22 DEF WriteMarker
  <1>23. ASSUME NEW t \in Preparations, Purge(t) PROVE JobsOK'
    BY <1>23 DEF Purge
  <1>24. ASSUME NEW t \in Preparations, CancelPreparation(t) PROVE JobsOK'
    <2>1. CASE End(t)
      BY <1>24, <2>1 DEF CancelPreparation
    <2>2. CASE Unawaited(job', t) /\ pc' = pc
      <3>1. /\ job' \in [Actors -> Jobs] /\ \A b \in Actors \ {t} : job'[b] = job[b]
            /\ job'[t].source = job[t].source
        BY <2>2, JobTypes DEF Unawaited
      <3> QED BY <2>2, <3>1
    <2> QED BY <1>24, <2>1, <2>2 DEF CancelPreparation, Unawaited
  <1>25. ASSUME NEW d \in Deletions, Delete(d) PROVE JobsOK'
    <2>1. Enlisted(job', d, NoPackage)
      BY <1>25 DEF Delete, Enlisted
    <2>2. job' \in [Actors -> Jobs] /\ \A b \in Actors \ {d} : job'[b] = job[b]
      BY <2>1, JobTypes
    <2> QED BY <1>25, <2>2 DEF Delete
  <1>26. ASSUME NEW d \in Deletions, Sweep(d) PROVE JobsOK'
    BY <1>26 DEF Sweep
  <1>27. ASSUME NEW d \in Deletions, Drop(d) PROVE JobsOK'
    BY <1>27 DEF Drop
  <1>28. ASSUME NEW d \in Deletions, Dropped(d) PROVE JobsOK'
    BY <1>28 DEF Dropped
  <1>29. ASSUME NEW d \in Deletions, ClearTmp(d) PROVE JobsOK'
    BY <1>29 DEF ClearTmp
  <1>30. ASSUME NEW d \in Deletions, Forget(d) PROVE JobsOK'
    BY <1>30 DEF Forget
  <1>31. ASSUME NEW d \in Deletions, DeletionFails(d) PROVE JobsOK'
    BY <1>31 DEF DeletionFails
  <1>32. CASE ProcessDies
    BY <1>32 DEF ProcessDies
  <1>33. CASE UNCHANGED filesVars
    BY <1>33 DEF filesVars
  <1> QED BY <1>3, <1>4, <1>5, <1>6, <1>7, <1>8, <1>9, <1>10, <1>11, <1>12, <1>13, <1>14,
             <1>15, <1>16, <1>17, <1>18, <1>19, <1>20, <1>21, <1>22, <1>23, <1>24, <1>25,
             <1>26, <1>27, <1>28, <1>29, <1>30, <1>31, <1>32, <1>33
      DEF FilesNext, StoreStep, PreparationStep, DeletionStep

\* The files, their times, and who owns what is in tmp/ ...
FilesOK ==
  /\ uploads \in SUBSET (Packages \X Packages) /\ touched \in SUBSET (Names \X Names)
  /\ extracted \in [Packages -> Extractions]
  /\ tmp \in [Preparations -> {"none", "partial", "whole"}]
  /\ pc \in [Actors -> Working \cup {"idle"}]
  /\ stored \in 0..MaxStores /\ restarts \in 0..MaxRestarts
  /\ Dated /\ Owned

\* ... after every step of an actor and of the world.
LEMMA FilesKeep ==
  FilesTypeOK /\ Sourced /\ Dated /\ Owned /\ [FilesNext]_filesVars => FilesOK'
  <1> SUFFICES ASSUME FilesTypeOK, Sourced, Dated, Owned, [FilesNext]_filesVars
               PROVE  FilesOK'
    OBVIOUS
  <1>1. FilesOK
    BY DEF FilesTypeOK, FilesOK
  <1>2. /\ Stores \subseteq Actors /\ Preparations \subseteq Actors
        /\ Deletions \subseteq Actors
        /\ Packages \in SUBSET Names /\ Preparations \in SUBSET Names
        /\ Names \in SUBSET Names
    BY DEF Actors, Names
  <1>3. Packages \cap Preparations = {}
    BY FilesAssumption
  <1> USE <1>1, <1>2 DEF FilesOK, Dated, Owned, Sourced, Present, Extracting, Judging,
                         Extractions, Working
  <1>4. ASSUME NEW s \in Stores, Write(s) PROVE FilesOK'
    BY <1>4, FilesAssumption DEF Write
  <1>5. ASSUME NEW s \in Stores, Name(s) PROVE FilesOK'
    <2>1. Source(s) \in Packages
      BY <1>5, <1>2 DEF Name
    <2>2. Touch(uploads, Source(s)) \in SUBSET (Packages \X Packages)
      BY <2>1, OrderTypes
    <2> QED BY <1>5, <2>2 DEF Name
  <1>6. ASSUME NEW s \in Stores, CloseUpload(s) PROVE FilesOK'
    BY <1>6 DEF CloseUpload
  <1>7. ASSUME NEW s \in Stores, Prune(s) PROVE FilesOK'
    <2>1. uploads' \in SUBSET (Packages \X Packages)
      BY <1>7 DEF Prune
    <2> QED BY <1>7, <2>1 DEF Prune
  <1>8. ASSUME NEW s \in Stores, StoreFails(s) PROVE FilesOK'
    BY <1>8, FilesAssumption DEF StoreFails
  <1>9. ASSUME NEW t \in Preparations, Prepare(t) PROVE FilesOK'
    BY <1>9 DEF Prepare
  <1>10. ASSUME NEW t \in Preparations, PreparationFails(t) PROVE FilesOK'
    <2>1. /\ touched' \in SUBSET (Names \X Names)
          /\ In(touched') = In(touched) \ {t}
      BY <1>10, OrderTypes, WithoutIs DEF PreparationFails
    <2> QED BY <1>10, <1>3, <2>1 DEF PreparationFails
  <1>11. ASSUME NEW t \in Preparations, PrepareDirectories(t) PROVE FilesOK'
    BY <1>11 DEF PrepareDirectories
  <1>12. ASSUME NEW t \in Preparations, SelectArchive(t) PROVE FilesOK'
    BY <1>12 DEF SelectArchive
  <1>13. ASSUME NEW t \in Preparations, LoadPersisted(t) PROVE FilesOK'
    BY <1>13 DEF LoadPersisted
  <1>14. ASSUME NEW t \in Preparations, Open(t) PROVE FilesOK'
    BY <1>14 DEF Open
  <1>15. ASSUME NEW t \in Preparations, Extract(t) PROVE FilesOK'
    <2>1. /\ touched' \in SUBSET (Names \X Names)
          /\ In(touched') = In(touched) \cup {t}
      BY <1>15, OrderTypes, TouchIs DEF Extract
    <2> QED BY <1>15, <2>1 DEF Extract
  <1>16. ASSUME NEW t \in Preparations, Keep(t) PROVE FilesOK'
    BY <1>16 DEF Keep
  <1>17. ASSUME NEW t \in Preparations, Place(t) PROVE FilesOK'
    <2>1. Source(t) \in Packages /\ t \in In(touched)
      BY <1>17 DEF Place
    <2>2. /\ touched' \in SUBSET (Names \X Names)
          /\ (In(touched) \ {t}) \cup {Source(t)} \subseteq In(touched')
      BY <1>17, <2>1, RenamedIs DEF Place
    <2> QED BY <1>17, <1>3, <2>1, <2>2 DEF Place
  <1>18. ASSUME NEW t \in Preparations, PersistKey(t) PROVE FilesOK'
    <2>1. Source(t) \in Packages
      BY <1>18 DEF PersistKey
    <2> DEFINE o == Without(touched, t)
    <2>2. o \in SUBSET (Names \X Names) /\ In(o) = In(touched) \ {t}
      BY OrderTypes, WithoutIs
    <2> HIDE DEF o
    <2>3. /\ Touch(o, Source(t)) \in SUBSET (Names \X Names)
          /\ In(Touch(o, Source(t))) = In(o) \cup {Source(t)}
      BY <2>1, <2>2, OrderTypes, TouchIs
    <2>4. touched' = Touch(o, Source(t))
      BY <1>18 DEF PersistKey, o
    <2> QED BY <1>18, <1>3, <2>1, <2>2, <2>3, <2>4 DEF PersistKey
  <1>19. ASSUME NEW t \in Preparations, Reread(t) PROVE FilesOK'
    BY <1>19 DEF Reread
  <1>20. ASSUME NEW t \in Preparations, Accept(t) PROVE FilesOK'
    BY <1>20 DEF Accept
  <1>21. ASSUME NEW t \in Preparations, Unheard(t) PROVE FilesOK'
    BY <1>21 DEF Unheard
  <1>22. ASSUME NEW t \in Preparations, LibrariesLoaded(t) PROVE FilesOK'
    BY <1>22 DEF LibrariesLoaded
  <1>23. ASSUME NEW t \in Preparations, WriteMarker(t) PROVE FilesOK'
    BY <1>23 DEF WriteMarker
  <1>24. ASSUME NEW t \in Preparations, Purge(t) PROVE FilesOK'
    BY <1>24 DEF Purge
  <1>25. ASSUME NEW t \in Preparations, CancelPreparation(t) PROVE FilesOK'
    BY <1>25 DEF CancelPreparation
  <1>26. ASSUME NEW d \in Deletions, Delete(d) PROVE FilesOK'
    BY <1>26 DEF Delete
  <1>27. ASSUME NEW d \in Deletions, Sweep(d) PROVE FilesOK'
    BY <1>27 DEF Sweep
  <1>28. ASSUME NEW d \in Deletions, Drop(d) PROVE FilesOK'
    <2>1. PICK p \in Packages :
            \/ /\ extracted' = [extracted EXCEPT ![p] = "absent"]
               /\ touched' = Without(touched, p)
            \/ /\ p \in Present
               /\ extracted' = [extracted EXCEPT ![p] = "torn"] /\ touched' = touched
      BY <1>28 DEF Drop
    <2>2. \/ touched' = touched
          \/ touched' \in SUBSET (Names \X Names) /\ In(touched') = In(touched) \ {p}
      BY <2>1, OrderTypes, WithoutIs
    <2> QED BY <1>28, <1>3, <2>1, <2>2 DEF Drop
  <1>29. ASSUME NEW d \in Deletions, Dropped(d) PROVE FilesOK'
    BY <1>29 DEF Dropped
  <1>30. ASSUME NEW d \in Deletions, ClearTmp(d) PROVE FilesOK'
    BY <1>30 DEF ClearTmp
  <1>31. ASSUME NEW d \in Deletions, Forget(d) PROVE FilesOK'
    BY <1>31 DEF Forget
  <1>32. ASSUME NEW d \in Deletions, DeletionFails(d) PROVE FilesOK'
    BY <1>32, FilesAssumption DEF DeletionFails
  <1>33. CASE ProcessDies
    <2>1. touched' \in SUBSET (Names \X Names)
      BY <1>33 DEF ProcessDies
    <2>2. In(touched') = In(touched) \cap Packages
      BY <1>33 DEF ProcessDies, In
    <2>3. restarts' \in 0..MaxRestarts
      BY <1>33, FilesAssumption DEF ProcessDies
    <2> QED BY <1>33, <2>1, <2>2, <2>3 DEF ProcessDies
  <1>34. CASE UNCHANGED filesVars
    BY <1>34 DEF filesVars
  <1> QED BY <1>4, <1>5, <1>6, <1>7, <1>8, <1>9, <1>10, <1>11, <1>12, <1>13, <1>14,
             <1>15, <1>16, <1>17, <1>18, <1>19, <1>20, <1>21, <1>22, <1>23, <1>24, <1>25,
             <1>26, <1>27, <1>28, <1>29, <1>30, <1>31, <1>32, <1>33, <1>34
      DEF FilesNext, StoreStep, PreparationStep, DeletionStep

\* At most one actor is at work after any step, if two never were.
LEMMA AloneKeeps == FilesTypeOK /\ Alone /\ [FilesNext]_filesVars => Alone'
  <1> SUFFICES ASSUME FilesTypeOK, Alone, [FilesNext]_filesVars PROVE Alone'
    OBVIOUS
  <1>1. pc \in [Actors -> Working \cup {"idle"}]
    BY DEF FilesTypeOK
  <1>2. /\ Stores \subseteq Actors /\ Preparations \subseteq Actors
        /\ Deletions \subseteq Actors
    BY DEF Actors
  <1> USE <1>1, <1>2 DEF Alone, Active
  <1>3. ASSUME NEW s \in Stores, Write(s) PROVE Alone'
    BY <1>3 DEF Write
  <1>4. ASSUME NEW s \in Stores, Name(s) PROVE Alone'
    BY <1>4 DEF Name
  <1>5. ASSUME NEW s \in Stores, CloseUpload(s) PROVE Alone'
    BY <1>5 DEF CloseUpload
  <1>6. ASSUME NEW s \in Stores, Prune(s) PROVE Alone'
    BY <1>6 DEF Prune
  <1>7. ASSUME NEW s \in Stores, StoreFails(s) PROVE Alone'
    BY <1>7 DEF StoreFails
  <1>8. ASSUME NEW t \in Preparations, Prepare(t) PROVE Alone'
    BY <1>8 DEF Prepare
  <1>9. ASSUME NEW t \in Preparations, PreparationFails(t) PROVE Alone'
    BY <1>9 DEF PreparationFails
  <1>10. ASSUME NEW t \in Preparations, PrepareDirectories(t) PROVE Alone'
    BY <1>10 DEF PrepareDirectories
  <1>11. ASSUME NEW t \in Preparations, SelectArchive(t) PROVE Alone'
    BY <1>11 DEF SelectArchive
  <1>12. ASSUME NEW t \in Preparations, LoadPersisted(t) PROVE Alone'
    BY <1>12 DEF LoadPersisted
  <1>13. ASSUME NEW t \in Preparations, Open(t) PROVE Alone'
    BY <1>13 DEF Open
  <1>14. ASSUME NEW t \in Preparations, Extract(t) PROVE Alone'
    BY <1>14 DEF Extract
  <1>15. ASSUME NEW t \in Preparations, Keep(t) PROVE Alone'
    BY <1>15 DEF Keep
  <1>16. ASSUME NEW t \in Preparations, Place(t) PROVE Alone'
    BY <1>16 DEF Place
  <1>17. ASSUME NEW t \in Preparations, PersistKey(t) PROVE Alone'
    BY <1>17 DEF PersistKey
  <1>18. ASSUME NEW t \in Preparations, Reread(t) PROVE Alone'
    BY <1>18 DEF Reread
  <1>19. ASSUME NEW t \in Preparations, Accept(t) PROVE Alone'
    BY <1>19 DEF Accept
  <1>20. ASSUME NEW t \in Preparations, Unheard(t) PROVE Alone'
    BY <1>20 DEF Unheard
  <1>21. ASSUME NEW t \in Preparations, LibrariesLoaded(t) PROVE Alone'
    BY <1>21 DEF LibrariesLoaded
  <1>22. ASSUME NEW t \in Preparations, WriteMarker(t) PROVE Alone'
    BY <1>22 DEF WriteMarker
  <1>23. ASSUME NEW t \in Preparations, Purge(t) PROVE Alone'
    BY <1>23 DEF Purge
  <1>24. ASSUME NEW t \in Preparations, CancelPreparation(t) PROVE Alone'
    BY <1>24 DEF CancelPreparation
  <1>25. ASSUME NEW d \in Deletions, Delete(d) PROVE Alone'
    BY <1>25 DEF Delete
  <1>26. ASSUME NEW d \in Deletions, Sweep(d) PROVE Alone'
    BY <1>26 DEF Sweep
  <1>27. ASSUME NEW d \in Deletions, Drop(d) PROVE Alone'
    BY <1>27 DEF Drop
  <1>28. ASSUME NEW d \in Deletions, Dropped(d) PROVE Alone'
    BY <1>28 DEF Dropped
  <1>29. ASSUME NEW d \in Deletions, ClearTmp(d) PROVE Alone'
    BY <1>29 DEF ClearTmp
  <1>30. ASSUME NEW d \in Deletions, Forget(d) PROVE Alone'
    BY <1>30 DEF Forget
  <1>31. ASSUME NEW d \in Deletions, DeletionFails(d) PROVE Alone'
    BY <1>31 DEF DeletionFails
  <1>32. CASE ProcessDies
    BY <1>32 DEF ProcessDies
  <1>33. CASE UNCHANGED filesVars
    BY <1>33 DEF filesVars
  <1> QED BY <1>3, <1>4, <1>5, <1>6, <1>7, <1>8, <1>9, <1>10, <1>11, <1>12, <1>13, <1>14,
             <1>15, <1>16, <1>17, <1>18, <1>19, <1>20, <1>21, <1>22, <1>23, <1>24, <1>25,
             <1>26, <1>27, <1>28, <1>29, <1>30, <1>31, <1>32, <1>33
      DEF FilesNext, StoreStep, PreparationStep, DeletionStep

\* The newest extraction is the same as long as the packages keep their order.
LEMMA RestoresKeeps ==
  ASSUME extracted' = extracted,
         \A x, y \in Packages : <<x, y>> \in touched => <<x, y>> \in touched',
         NEW p \in Packages, Restores(p)
  PROVE  Restores(p)'
  BY DEF Restores, NewestExtraction, Newest, Present

\* Nobody but a is at work before or after a step of a, unless two ever were.
Only(a) ==
  \A b \in Actors \ {a} : pc[b] = "idle" /\ pc'[b] = "idle"

\* A lone actor leaves behind what a restart needs.
LEMMA SoundKeeps == FilesInductive /\ [FilesNext]_filesVars => Sound'
  <1> SUFFICES ASSUME FilesInductive, [FilesNext]_filesVars, ~overlapped', ~halfDeleted'
               PROVE  Undisturbed'
    BY DEF Sound
  <1>1. /\ pc \in [Actors -> Working \cup {"idle"}]
        /\ job \in [Actors -> Jobs] /\ NoJob \in Jobs /\ NoJob.source = NoPackage
        /\ extracted \in [Packages -> Extractions]
    BY DEF FilesInductive, FilesTypeOK, Jobs, NoJob
  <1>2. /\ Stores \subseteq Actors /\ Preparations \subseteq Actors
        /\ Deletions \subseteq Actors
        /\ Packages \subseteq Names /\ Preparations \subseteq Names
        /\ Packages \cap Preparations = {}
    BY FilesAssumption DEF Actors, Names
  <1>3. /\ Preparations \cap (Stores \cup Deletions) = {} /\ Stores \cap Deletions = {}
    BY FilesAssumption
  <1> USE <1>1, <1>2, <1>3 DEF FilesInductive, Alone, Active, Sound, Sourced, Extracting,
                               Judging
  <1>4. ASSUME NEW s \in Stores, Write(s) PROVE Undisturbed'
    <2>0. Only(s)
      BY <1>4 DEF Write, Only
    <2>1. /\ UNCHANGED disk /\ pc[s] = "idle" /\ pc' = [pc EXCEPT ![s] = "writing"]
          /\ ~overlapped /\ ~halfDeleted
      <3>1. PICK p \in Packages : Enter(s, "writing", p)
        BY <1>4 DEF Write
      <3> QED BY <3>1
    <2>2. \A p \in Packages : Restores(p) => Restores(p)'
      BY <2>1, RestoresKeeps
    <2> QED BY <2>0, <2>1, <2>2 DEF Only, Undisturbed
  <1>5. ASSUME NEW s \in Stores, Name(s) PROVE Undisturbed'
    <2>0. Only(s)
      BY <1>5 DEF Name, Only
    <2>1. Source(s) \in Packages /\ uploads' = Touch(uploads, Source(s))
      BY <1>5 DEF Name
    <2>2. In(uploads') = In(uploads) \cup {Source(s)}
      BY <2>1, TouchIs
    <2> QED BY <1>5, <2>0, <2>1, <2>2 DEF Name, Only, Undisturbed
  <1>6. ASSUME NEW s \in Stores, CloseUpload(s) PROVE Undisturbed'
    <2>0. Only(s)
      BY <1>6 DEF CloseUpload, Only
    <2>1. \A p \in Packages : Restores(p) => Restores(p)'
      BY <1>6, RestoresKeeps DEF CloseUpload
    <2> QED BY <1>6, <2>0, <2>1 DEF CloseUpload, Only, Undisturbed
  <1>7. ASSUME NEW s \in Stores, Prune(s) PROVE Undisturbed'
    <2>0. Only(s)
      BY <1>7 DEF Prune, Only
    <2>1. Source(s) \in In(uploads)
      BY <1>7 DEF Prune, Undisturbed
    <2>2. Source(s) \in In(uploads')
      BY <1>7, <2>1 DEF Prune, In
    <2> QED BY <1>7, <2>0, <2>2 DEF Prune, Only, Undisturbed
  <1>8. ASSUME NEW s \in Stores, StoreFails(s) PROVE Undisturbed'
    <2>0. Only(s)
      BY <1>8 DEF StoreFails, Only
    <2>1. \A p \in Packages : Restores(p) => Restores(p)'
      BY <1>8, RestoresKeeps DEF StoreFails
    <2> QED BY <1>8, <2>0, <2>1 DEF StoreFails, Only, Undisturbed
  <1>9. ASSUME NEW t \in Preparations, Prepare(t) PROVE Undisturbed'
    <2>0. Only(t)
      BY <1>9 DEF Prepare, Only
    <2>1. \A p \in Packages : Restores(p) => Restores(p)'
      BY <1>9, RestoresKeeps DEF Prepare
    <2> QED BY <1>9, <2>0, <2>1 DEF Prepare, Only, Undisturbed
  <1>10. ASSUME NEW t \in Preparations, PreparationFails(t) PROVE Undisturbed'
    <2>0. Only(t)
      BY <1>10 DEF PreparationFails, Only
    <2>1. \A x, y \in Packages : <<x, y>> \in touched => <<x, y>> \in touched'
      BY <1>10, WithoutIs DEF PreparationFails
    <2>2. \A p \in Packages : Restores(p) => Restores(p)'
      BY <1>10, <2>1, RestoresKeeps DEF PreparationFails
    <2> QED BY <1>10, <2>0, <2>2 DEF PreparationFails, Only, Undisturbed
  <1>11. ASSUME NEW t \in Preparations, PrepareDirectories(t) PROVE Undisturbed'
    <2>0. Only(t)
      BY <1>11 DEF PrepareDirectories, Only
    <2>1. \A p \in Packages : Restores(p) => Restores(p)'
      BY <1>11, RestoresKeeps DEF PrepareDirectories
    <2> QED BY <1>11, <2>0, <2>1 DEF PrepareDirectories, Only, Undisturbed
  <1>12. ASSUME NEW t \in Preparations, SelectArchive(t) PROVE Undisturbed'
    <2>0. Only(t)
      BY <1>12 DEF SelectArchive, Only
    <2>1. PICK p \in Packages : Newest(uploads, In(uploads), p)
      BY <1>12 DEF SelectArchive
    <2>2. In(uploads) # {}
      BY <2>1 DEF Newest
    <2> QED BY <1>12, <2>0, <2>2 DEF SelectArchive, Only, Undisturbed
  <1>13. ASSUME NEW t \in Preparations, LoadPersisted(t) PROVE Undisturbed'
    <2>0. Only(t)
      BY <1>13 DEF LoadPersisted, Only
    <2>1. PICK p \in Packages : Restores(p) /\ Assigned(job', t, p)
      BY <1>13 DEF LoadPersisted, Restores, Assigned
    <2>2. job'[t].source = p
      BY <2>1, JobTypes
    <2>3. Restores(p)'
      BY <1>13, <2>1, RestoresKeeps DEF LoadPersisted
    <2> QED BY <1>13, <2>0, <2>2, <2>3 DEF LoadPersisted, Only, Undisturbed
  <1>14. ASSUME NEW t \in Preparations, Open(t) PROVE Undisturbed'
    <2>0. Only(t)
      BY <1>14 DEF Open, Only
    <2>1. \A p \in Packages : Restores(p) => Restores(p)'
      BY <1>14, RestoresKeeps DEF Open
    <2> QED BY <1>14, <2>0, <2>1 DEF Open, Only, Undisturbed
  <1>15. ASSUME NEW t \in Preparations, Extract(t) PROVE Undisturbed'
    <2>0. Only(t)
      BY <1>15 DEF Extract, Only
    <2> QED BY <1>15, <2>0 DEF Extract, Only, Undisturbed
  <1>16. ASSUME NEW t \in Preparations, Keep(t) PROVE Undisturbed'
    <2>0. Only(t)
      BY <1>16 DEF Keep, Only
    <2>1. \A p \in Packages : Restores(p) => Restores(p)'
      BY <1>16, RestoresKeeps DEF Keep
    <2> QED BY <1>16, <2>0, <2>1 DEF Keep, Only, Undisturbed
  <1>17. ASSUME NEW t \in Preparations, Place(t) PROVE Undisturbed'
    <2>0. Only(t)
      BY <1>17 DEF Place, Only
    <2> QED BY <1>17, <2>0 DEF Place, Only, Undisturbed
  <1>18. ASSUME NEW t \in Preparations, PersistKey(t) PROVE Undisturbed'
    <2>0. Only(t)
      BY <1>18 DEF PersistKey, Only
    <2>1. Source(t) \in Packages /\ extracted[Source(t)] \in {"bare", "keyed"}
      BY <1>18, <2>0 DEF PersistKey, Only, Undisturbed, Extractions
    <2> DEFINE o == Without(touched, t)
    <2>2. In(o) = In(touched) \ {t}
      BY WithoutIs
    <2> HIDE DEF o
    <2>3. \A y \in In(o) \cup {Source(t)} : <<y, Source(t)>> \in Touch(o, Source(t))
      BY <2>1, TouchIs
    <2>4. touched' = Touch(o, Source(t))
      BY <1>18 DEF PersistKey, o
    <2>5. Present' = Present /\ extracted'[Source(t)] = "keyed"
      BY <1>18, <2>1 DEF PersistKey, Present
    <2>6. Restores(Source(t))' /\ job' = job
      BY <1>18, <2>1, <2>2, <2>3, <2>4, <2>5
      DEF PersistKey, Restores, NewestExtraction, Newest, Dated, Present
    <2> QED BY <1>18, <2>0, <2>1, <2>6 DEF PersistKey, Only, Undisturbed
  <1>19. ASSUME NEW t \in Preparations, Reread(t) PROVE Undisturbed'
    <2>0. Only(t)
      BY <1>19 DEF Reread, Only
    <2>1. \A p \in Packages : Restores(p) => Restores(p)'
      BY <1>19, RestoresKeeps DEF Reread
    <2> QED BY <1>19, <2>0, <2>1 DEF Reread, Only, Undisturbed
  <1>20. ASSUME NEW t \in Preparations, Accept(t) PROVE Undisturbed'
    <2>0. Only(t)
      BY <1>20 DEF Accept, Only
    <2>1. \A p \in Packages : Restores(p) => Restores(p)'
      BY <1>20, RestoresKeeps DEF Accept
    <2> QED BY <1>20, <2>0, <2>1 DEF Accept, Only, Undisturbed
  <1>21. ASSUME NEW t \in Preparations, Unheard(t) PROVE Undisturbed'
    <2>0. Only(t)
      BY <1>21 DEF Unheard, Only
    <2>1. \A p \in Packages : Restores(p) => Restores(p)'
      BY <1>21, RestoresKeeps DEF Unheard
    <2> QED BY <1>21, <2>0, <2>1 DEF Unheard, Only, Undisturbed
  <1>22. ASSUME NEW t \in Preparations, LibrariesLoaded(t) PROVE Undisturbed'
    <2>0. Only(t)
      BY <1>22 DEF LibrariesLoaded, Only
    <2>1. \A p \in Packages : Restores(p) => Restores(p)'
      BY <1>22, RestoresKeeps DEF LibrariesLoaded
    <2> QED BY <1>22, <2>0, <2>1 DEF LibrariesLoaded, Only, Undisturbed
  <1>23. ASSUME NEW t \in Preparations, WriteMarker(t) PROVE Undisturbed'
    <2>0. Only(t)
      BY <1>23 DEF WriteMarker, Only
    <2>1. \A p \in Packages : Restores(p) => Restores(p)'
      BY <1>23, RestoresKeeps DEF WriteMarker
    <2> QED BY <1>23, <2>0, <2>1 DEF WriteMarker, Only, Undisturbed
  <1>24. ASSUME NEW t \in Preparations, Purge(t) PROVE Undisturbed'
    <2>0. Only(t)
      BY <1>24 DEF Purge, Only
    <2>1. PICK p \in Packages : Restores(p) /\ p = Source(t)
      BY <1>24 DEF Purge, Undisturbed
    <2>2. Restores(p)'
      BY <1>24, <2>1, RestoresKeeps DEF Purge
    <2> QED BY <1>24, <2>0, <2>2 DEF Purge, Only, Undisturbed
  <1>25. ASSUME NEW t \in Preparations, CancelPreparation(t) PROVE Undisturbed'
    <2>1. \A p \in Packages : Restores(p) => Restores(p)'
      BY <1>25, RestoresKeeps DEF CancelPreparation
    <2>2. CASE Is(t, "read") \/ Is(t, "probing")
      <3>1. Only(t) /\ pc' = [pc EXCEPT ![t] = "idle"] /\ UNCHANGED <<disk, history>>
        BY <1>25, <2>2 DEF CancelPreparation, Only
      <3> QED BY <2>1, <2>2, <3>1 DEF Only, Undisturbed
    <2>3. CASE Unawaited(job', t) /\ pc' = pc /\ UNCHANGED <<disk, history>>
      <3>1. /\ job' \in [Actors -> Jobs] /\ job'[t].source = job[t].source
            /\ \A b \in Actors \ {t} : job'[b] = job[b]
        BY <2>3, JobTypes
      <3> QED BY <2>1, <2>3, <3>1 DEF Undisturbed, Present
    <2> QED BY <1>25, <2>2, <2>3 DEF CancelPreparation, Unawaited
  <1>26. ASSUME NEW d \in Deletions, Delete(d) PROVE Undisturbed'
    <2>0. Only(d)
      BY <1>26 DEF Delete, Only
    <2>1. \A p \in Packages : Restores(p) => Restores(p)'
      BY <1>26, RestoresKeeps DEF Delete
    <2> QED BY <1>26, <2>0, <2>1 DEF Delete, Only, Undisturbed
  <1>27. ASSUME NEW d \in Deletions, Sweep(d) PROVE Undisturbed'
    <2>0. Only(d)
      BY <1>27 DEF Sweep, Only
    <2>1. \A p \in Packages : Restores(p) => Restores(p)'
      BY <1>27, RestoresKeeps DEF Sweep
    <2> QED BY <1>27, <2>0, <2>1 DEF Sweep, Only, Undisturbed
  <1>28. ASSUME NEW d \in Deletions, Drop(d) PROVE Undisturbed'
    <2>0. Only(d)
      BY <1>28 DEF Drop, Only
    <2> QED BY <1>28, <2>0 DEF Drop, Only, Undisturbed
  <1>29. ASSUME NEW d \in Deletions, Dropped(d) PROVE Undisturbed'
    <2>0. Only(d)
      BY <1>29 DEF Dropped, Only
    <2>1. \A p \in Packages : Restores(p) => Restores(p)'
      BY <1>29, RestoresKeeps DEF Dropped
    <2> QED BY <1>29, <2>0, <2>1 DEF Dropped, Present, Only, Undisturbed
  <1>30. ASSUME NEW d \in Deletions, ClearTmp(d) PROVE Undisturbed'
    <2>0. Only(d)
      BY <1>30 DEF ClearTmp, Only
    <2>1. \A p \in Packages : Restores(p) => Restores(p)'
      BY <1>30, RestoresKeeps DEF ClearTmp
    <2> QED BY <1>30, <2>0, <2>1 DEF ClearTmp, Present, Only, Undisturbed
  <1>31. ASSUME NEW d \in Deletions, Forget(d) PROVE Undisturbed'
    <2>0. Only(d)
      BY <1>31 DEF Forget, Only
    <2>1. Present = {} /\ extracted' = extracted
      BY <1>31 DEF Forget, Undisturbed
    <2> QED BY <1>31, <2>0, <2>1 DEF Forget, Only, Undisturbed, Present
  <1>32. ASSUME NEW d \in Deletions, DeletionFails(d) PROVE Undisturbed'
    <2>0. Only(d)
      BY <1>32 DEF DeletionFails, Only
    <2>1. \A p \in Packages : Restores(p) => Restores(p)'
      BY <1>32, RestoresKeeps DEF DeletionFails
    <2> QED BY <1>32, <2>0, <2>1 DEF DeletionFails, Only, Undisturbed
  <1>33. CASE ProcessDies
    <2>1. \A p \in Packages : Restores(p) => Restores(p)'
      BY <1>33, RestoresKeeps DEF ProcessDies
    <2>2. Active \cap Deletions = {}
      BY <1>33 DEF ProcessDies
    <2> QED BY <1>33, <2>1, <2>2 DEF ProcessDies, Undisturbed
  <1>34. CASE UNCHANGED filesVars
    BY <1>34 DEF filesVars, Undisturbed, Restores, NewestExtraction, Present
  <1> QED BY <1>4, <1>5, <1>6, <1>7, <1>8, <1>9, <1>10, <1>11, <1>12, <1>13, <1>14,
             <1>15, <1>16, <1>17, <1>18, <1>19, <1>20, <1>21, <1>22, <1>23, <1>24, <1>25,
             <1>26, <1>27, <1>28, <1>29, <1>30, <1>31, <1>32, <1>33, <1>34
      DEF FilesNext, StoreStep, PreparationStep, DeletionStep

\* Every step of a form, a preparation, a deletion and of the process.
LEMMA FilesStepInductive == FilesInductive /\ [FilesNext]_filesVars => FilesInductive'
  <1> SUFFICES ASSUME FilesInductive, [FilesNext]_filesVars PROVE FilesInductive'
    OBVIOUS
  <1>1. FilesOK'
    BY FilesKeep DEF FilesInductive
  <1>2. JobsOK'
    BY JobsKeep DEF FilesInductive
  <1>3. Flags'
    <2>1. Flags
      BY DEF FilesInductive, FilesTypeOK, Flags
    <2> QED BY <2>1, FlagsKeep
  <1>4. Alone'
    BY AloneKeeps DEF FilesInductive
  <1>5. Sound'
    BY SoundKeeps
  <1>6. FilesTypeOK'
    BY <1>1, <1>2, <1>3 DEF FilesOK, JobsOK, Flags, FilesTypeOK, Jobs
  <1> QED BY <1>1, <1>2, <1>4, <1>5, <1>6 DEF FilesOK, JobsOK, FilesInductive

\* The inductive invariant holds in every state of the directory.
THEOREM AlwaysFilesInductive == FilesSpec => []FilesInductive
  BY FilesInitInductive, FilesStepInductive, PTL DEF FilesSpec

\* store_uploaded_path, _prepare_sync and _write_validation_marker keep a
\* restart possible: with the marker and without an upload, the extraction it
\* chooses has its key, wherever a store or a preparation failed or died.
THEOREM AlwaysRestorable == FilesSpec => []Restorable
  <1>1. FilesInductive => Restorable
    <2> SUFFICES ASSUME FilesInductive, marker, In(uploads) = {}, Active = {},
                        ~overlapped, ~halfDeleted
                 PROVE  \E p \in Packages : NewestExtraction(p) /\ extracted[p] = "keyed"
      BY DEF Restorable, FilesInductive
    <2> QED BY DEF FilesInductive, Sound, Undisturbed, Restores
  <1> QED BY <1>1, AlwaysFilesInductive, PTL

\* _prepare_directories, run by any preparation at any time, leaves what others
\* extract; only a deletion or the end of its process removes it.
THEOREM AlwaysStagingKept == FilesSpec => StagingKept
  <1> DEFINE Keeping ==
        \A t \in Preparations :
          tmp[t] # "none" /\ tmp'[t] = "none" =>
            \/ pc'[t] # pc[t]
            \/ \E d \in Deletions : Is(d, "clearing")
  <1>1. FilesInductive /\ [FilesNext]_filesVars => [Keeping]_filesVars
    <2> SUFFICES ASSUME FilesInductive, FilesNext, NEW t \in Preparations,
                        tmp[t] # "none", tmp'[t] = "none"
                 PROVE  pc'[t] # pc[t] \/ \E d \in Deletions : Is(d, "clearing")
      BY DEF filesVars
    <2>1. /\ pc \in [Actors -> Working \cup {"idle"}] /\ t \in Actors
          /\ tmp \in [Preparations -> {"none", "partial", "whole"}]
          /\ pc[t] \in Extracting
      BY DEF FilesInductive, FilesTypeOK, Owned, Actors
    <2>2. \/ \E u \in Preparations : PreparationFails(u) \/ Place(u) \/ PersistKey(u)
          \/ \E d \in Deletions : ClearTmp(d)
          \/ ProcessDies
      <3>1. ASSUME NEW s \in Stores PROVE ~(Write(s) \/ StoreStep(s))
        BY <2>1 DEF Write, StoreStep, Name, CloseUpload, Prune, StoreFails
      <3>2. ASSUME NEW u \in Preparations
            PROVE  /\ ~Prepare(u) /\ ~PrepareDirectories(u) /\ ~LoadPersisted(u)
                   /\ ~Open(u) /\ ~Keep(u) /\ ~Reread(u) /\ ~Accept(u) /\ ~Unheard(u)
                   /\ ~LibrariesLoaded(u) /\ ~WriteMarker(u) /\ ~Purge(u)
                   /\ ~CancelPreparation(u)
        BY <2>1
        DEF Prepare, PrepareDirectories, LoadPersisted, Open, Keep, Reread, Accept, Unheard,
            LibrariesLoaded, WriteMarker, Purge, CancelPreparation
      <3>3. ASSUME NEW u \in Preparations PROVE ~SelectArchive(u) /\ ~Extract(u)
        BY <2>1 DEF SelectArchive, Extract
      <3>4. ASSUME NEW d \in Deletions
            PROVE  ~(Delete(d) \/ Sweep(d) \/ Drop(d) \/ Dropped(d) \/ Forget(d)
                     \/ DeletionFails(d))
        BY <2>1 DEF Delete, Sweep, Drop, Dropped, Forget, DeletionFails
      <3> QED BY <3>1, <3>2, <3>3, <3>4 DEF FilesNext, PreparationStep, DeletionStep
    <2>3. CASE \E u \in Preparations : PreparationFails(u) \/ Place(u) \/ PersistKey(u)
      BY <2>1, <2>3 DEF PreparationFails, Place, PersistKey, Extracting
    <2>4. CASE \E d \in Deletions : ClearTmp(d)
      BY <2>4 DEF ClearTmp
    <2>5. CASE ProcessDies
      BY <2>1, <2>5 DEF ProcessDies, Extracting
    <2> QED BY <2>2, <2>3, <2>4, <2>5
  <1> QED BY <1>1, AlwaysFilesInductive, PTL DEF FilesSpec, StagingKept
==============================================================================
