------------------------------- MODULE UserFiles ------------------------------
(***************************************************************************)
(* The files below custom_components/owlet_cam/userfiles: what forms store *)
(* (runtime/upload.py), what preparations extract, keep and purge and what *)
(* a deletion removes (runtime/manager.py); the helper runtime beside them *)
(* is the subject of RuntimeInstall.  The directory belongs to all config  *)
(* entries and to every manager an entry has had; the lock of one manager  *)
(* keeps neither the forms, nor another entry, nor the executor thread of  *)
(* a cancelled preparation away from it.  The process may die between any  *)
(* two operations on files.                                                *)
(*                                                                         *)
(* A package stands for its content: an archive and an extraction carry    *)
(* names made from its hash.  Libraries and key are the content of an      *)
(* extraction; application.json, which only names versions, is left out.   *)
(***************************************************************************)
EXTENDS Naturals, FiniteSets

CONSTANTS
  Preparations, \* preparations, of any manager
  Packages,    \* application archives a user may store
  Stores,      \* submissions of a form with a package
  Deletions,   \* confirmed deletions
  MaxRestarts, \* bound: crashes and restarts of the process
  MaxStores,   \* bound: packages stored
  MaxActive,   \* bound: actors at work at the same time
  NoPackage

Actors == Preparations \cup Stores \cup Deletions
Names == Packages \cup Preparations

ASSUME FilesAssumption ==
  /\ NoPackage \notin Packages /\ Packages \cap Preparations = {}
  /\ MaxRestarts \in Nat /\ MaxStores \in Nat /\ MaxActive \in Nat
  /\ Preparations \cap (Stores \cup Deletions) = {} /\ Stores \cap Deletions = {}

VARIABLES
  uploads,    \* the archives in uploads/: <<p, q>> if q is not older than p
  extracted,  \* what extracted/ has of each package
  touched,    \* preparations and packages, likewise, by the modification
              \*   times of their temporary or final directories
  tmp,        \* the extraction directory of each preparation
  stale,      \* tmp/ has one of an earlier process
  marker,     \* the validation marker is there
  pc,         \* the step an actor is at
  job,        \* its package; for a preparation also whether its call is still
              \*   awaited, and whether it is its second attempt
  stored,     \* packages stored so far
  restarts,
  overlapped, \* history: two actors were at work at the same time
  halfDeleted \* history: a deletion failed, or died, half way

disk == <<uploads, extracted, touched, tmp, stale, marker>>
history == <<stored, restarts, overlapped, halfDeleted>>
filesVars == <<disk, pc, job, history>>

Extractions == {"absent", "bare", "torn", "keyed"}
Working == {"writing", "closing", "pruning",
            "reading", "selecting", "opening", "extracting",
            "placing", "keying", "read", "probing", "marking", "purging",
            "sweeping", "dropping", "clearing", "forgetting"}

NoJob == [source |-> NoPackage, awaited |-> FALSE, again |-> FALSE]

FilesTypeOK ==
  /\ uploads \subseteq Packages \X Packages /\ extracted \in [Packages -> Extractions]
  /\ touched \subseteq Names \X Names
  /\ tmp \in [Preparations -> {"none", "partial", "whole"}]
  /\ stale \in BOOLEAN /\ marker \in BOOLEAN
  /\ pc \in [Actors -> Working \cup {"idle"}]
  /\ job \in [Actors -> [source : Packages \cup {NoPackage}, awaited : BOOLEAN,
                         again : BOOLEAN]]
  /\ stored \in 0..MaxStores /\ restarts \in 0..MaxRestarts
  /\ overlapped \in BOOLEAN /\ halfDeleted \in BOOLEAN

FilesInit ==
  /\ uploads = {} /\ touched = {}
  /\ extracted = [p \in Packages |-> "absent"]
  /\ tmp = [t \in Preparations |-> "none"] /\ stale = FALSE /\ marker = FALSE
  /\ pc = [a \in Actors |-> "idle"] /\ job = [a \in Actors |-> NoJob]
  /\ stored = 0 /\ restarts = 0 /\ overlapped = FALSE /\ halfDeleted = FALSE

------------------------------------------------------------------------------
Active == {a \in Actors : pc[a] # "idle"}
Is(a, s) == pc[a] = s
To(a, s) == pc' = [pc EXCEPT ![a] = s]
Source(a) == job[a].source

\* Modification times: what has one, something without one, with the latest
\* one, and renamed with the one it has; the newest of a set.
In(order) == {x \in Names : <<x, x>> \in order}
Without(order, x) == {e \in order : e[1] # x /\ e[2] # x}
Touch(order, x) == Without(order, x) \cup {<<y, x>> : y \in In(order) \cup {x}}
Renamed(order, x, z) ==
  {<<IF e[1] = x THEN z ELSE e[1], IF e[2] = x THEN z ELSE e[2]>> : e \in order}
Newest(order, S, x) == x \in S /\ \A y \in S : <<y, x>> \in order

\* An actor begins, goes on without touching a file, and ends.
Enter(a, s, package) ==
  /\ Is(a, "idle") /\ Cardinality(Active) < MaxActive
  /\ To(a, s)
  /\ job' = [job EXCEPT ![a].source = package, ![a].awaited = TRUE]
  /\ overlapped' = (overlapped \/ Active # {})
  /\ UNCHANGED <<disk, restarts, halfDeleted>>

Goes(a, s) == To(a, s) /\ UNCHANGED <<disk, job, history>>
End(a) == To(a, "idle") /\ job' = [job EXCEPT ![a] = NoJob]

------------------------------------------------------------------------------
(* store_uploaded_path, from a form of any entry. *)

Write(s) ==
  /\ stored < MaxStores /\ stored' = stored + 1
  /\ \E p \in Packages : Enter(s, "writing", p)

\* os.replace(temporary, final)
Name(s) ==
  /\ Is(s, "writing") /\ To(s, "closing")
  /\ uploads' = Touch(uploads, Source(s))
  /\ UNCHANGED <<extracted, touched, tmp, stale, marker, job, history>>

\* final.chmod raises if somebody removed the file meanwhile.
CloseUpload(s) == Is(s, "closing") /\ Source(s) \in In(uploads) /\ Goes(s, "pruning")

\* Every other archive is unlinked.
Prune(s) ==
  /\ Is(s, "pruning") /\ End(s)
  /\ uploads' = {e \in uploads : e = <<Source(s), Source(s)>>}
  /\ UNCHANGED <<extracted, touched, tmp, stale, marker, history>>

StoreFails(s) ==
  /\ pc[s] # "idle" /\ End(s)
  /\ UNCHANGED <<disk, history>>

StoreStep(s) ==
  Name(s) \/ CloseUpload(s) \/ Prune(s) \/ StoreFails(s)

------------------------------------------------------------------------------
(* A preparation: _prepare_sync in its thread, and the call around it. *)

Prepare(t) == Enter(t, "reading", NoPackage) /\ UNCHANGED stored

\* The extraction directory of a thread is gone.
EndTmp(t) == tmp' = [tmp EXCEPT ![t] = "none"]

PreparationFails(t) ==
  /\ pc[t] # "idle" /\ End(t)
  /\ EndTmp(t) /\ touched' = Without(touched, t)
  /\ UNCHANGED <<uploads, extracted, stale, marker, history>>

\* _prepare_directories removes what earlier processes left in tmp/; a missing
\* or broken helper runtime is replaced before anything else is read.
SweepsAll(t) ==
  /\ Is(t, "reading") /\ To(t, "selecting") /\ stale' = FALSE
  /\ tmp' = [u \in Preparations |-> "none"]
  /\ UNCHANGED <<uploads, extracted, touched, marker, job, history>>
PrepareDirectories(t) ==
  /\ Is(t, "reading") /\ To(t, "selecting") /\ stale' = FALSE
  /\ UNCHANGED <<uploads, extracted, touched, tmp, marker, job, history>>

\* The newest archive, or without one the newest extraction if it is whole.
SelectArchive(t) ==
  /\ Is(t, "selecting")
  /\ \E p \in Packages : /\ Newest(uploads, In(uploads), p)
                        /\ job' = [job EXCEPT ![t].source = p]
  /\ tmp' = [tmp EXCEPT ![t] = "partial"] /\ To(t, "opening")
  /\ UNCHANGED <<uploads, extracted, touched, stale, marker, history>>

Present == {p \in Packages : extracted[p] # "absent"}
NewestExtraction(p) == Newest(touched, Present, p)

LoadPersisted(t) ==
  /\ Is(t, "selecting") /\ In(uploads) = {} /\ To(t, "read")
  /\ \E p \in Packages : /\ NewestExtraction(p) /\ extracted[p] = "keyed"
                        /\ job' = [job EXCEPT ![t].source = p]
  /\ UNCHANGED <<disk, history>>

\* extract_owlet_application hashes the archive and opens it once more.  One
\* without the libraries or without exactly one key fails there.
Open(t) ==
  /\ Is(t, "opening") /\ Source(t) \in In(uploads)
  /\ Goes(t, "extracting")

Extract(t) ==
  /\ Is(t, "extracting") /\ tmp[t] # "none"
  /\ tmp' = [tmp EXCEPT ![t] = "whole"] /\ touched' = Touch(touched, t)
  /\ To(t, "placing")
  /\ UNCHANGED <<uploads, extracted, stale, marker, job, history>>

\* What an earlier preparation extracted is verified against the archive.
Keep(t) ==
  /\ Is(t, "placing") /\ extracted[Source(t)] \in {"bare", "keyed"}
  /\ Goes(t, "keying")

\* Otherwise the temporary directory is renamed, with its modification time.
Place(t) ==
  /\ Is(t, "placing") /\ extracted[Source(t)] = "absent" /\ tmp[t] = "whole"
  /\ extracted' = [extracted EXCEPT ![Source(t)] = "bare"]
  /\ touched' = Renamed(touched, t, Source(t))
  /\ EndTmp(t) /\ To(t, "keying")
  /\ UNCHANGED <<uploads, stale, marker, job, history>>

\* _persist_sdk_key, and the end of the thread.
PersistNothing(t) ==
  /\ Is(t, "keying") /\ extracted[Source(t)] # "absent"
  /\ EndTmp(t) /\ To(t, "read")
  /\ UNCHANGED <<uploads, extracted, touched, stale, marker, job, history>>
PersistKey(t) ==
  /\ Is(t, "keying") /\ extracted[Source(t)] # "absent"
  /\ extracted' = [extracted EXCEPT ![Source(t)] = IF @ = "torn" THEN @ ELSE "keyed"]
  /\ touched' = Touch(Without(touched, t), Source(t))
  /\ EndTmp(t) /\ To(t, "read")
  /\ UNCHANGED <<uploads, stale, marker, job, history>>

\* A helper runtime of another release is replaced first, and all is read again.
Reread(t) ==
  /\ Is(t, "read") /\ job[t].awaited /\ ~job[t].again
  /\ To(t, "reading") /\ job' = [job EXCEPT ![t].again = TRUE]
  /\ UNCHANGED <<disk, history>>

Accept(t) == Is(t, "read") /\ job[t].awaited /\ Goes(t, "probing")

\* Nobody waits for the result of the thread.
Unheard(t) ==
  /\ Is(t, "read") /\ ~job[t].awaited /\ End(t)
  /\ UNCHANGED <<disk, history>>

\* The helper loads the libraries.
LibrariesLoaded(t) ==
  /\ Is(t, "probing") /\ extracted[Source(t)] \in {"bare", "keyed"}
  /\ Goes(t, "marking")

WriteMarker(t) ==
  /\ Is(t, "marking") /\ marker' = TRUE
  /\ IF job[t].awaited THEN To(t, "purging") /\ UNCHANGED job ELSE End(t)
  /\ UNCHANGED <<uploads, extracted, touched, tmp, stale, history>>

\* _delete_uploaded_archives
Purge(t) ==
  /\ Is(t, "purging") /\ uploads' = {} /\ End(t)
  /\ UNCHANGED <<extracted, touched, tmp, stale, marker, history>>

\* A reload cancels the call: what an executor thread does goes on without it.
CancelPreparation(t) ==
  /\ job[t].awaited
  /\ IF pc[t] \in {"read", "probing"} THEN End(t)
     ELSE UNCHANGED pc /\ job' = [job EXCEPT ![t].awaited = FALSE]
  /\ UNCHANGED <<disk, history>>

PreparationStep(t) ==
  \/ PreparationFails(t) \/ PrepareDirectories(t)
  \/ SelectArchive(t) \/ LoadPersisted(t) \/ Open(t) \/ Extract(t) \/ Keep(t) \/ Place(t)
  \/ PersistKey(t) \/ Reread(t) \/ Accept(t) \/ Unheard(t)
  \/ LibrariesLoaded(t) \/ WriteMarker(t) \/ Purge(t) \/ CancelPreparation(t)

------------------------------------------------------------------------------
(* _delete_proprietary_files *)

Delete(d) == Enter(d, "sweeping", NoPackage) /\ UNCHANGED stored

Sweep(d) ==
  /\ Is(d, "sweeping") /\ To(d, "dropping") /\ stale' = FALSE /\ uploads' = {}
  /\ UNCHANGED <<extracted, touched, tmp, marker, job, history>>

\* rmtree(extracted) takes one file after the other; its last step needs an
\* empty directory.
Drop(d) ==
  /\ Is(d, "dropping")
  /\ \E p \in Present :
       IF extracted[p] = "torn"
       THEN /\ extracted' = [extracted EXCEPT ![p] = "absent"]
            /\ touched' = Without(touched, p)
       ELSE extracted' = [extracted EXCEPT ![p] = "torn"] /\ UNCHANGED touched
  /\ UNCHANGED <<uploads, tmp, stale, marker, pc, job, history>>

Dropped(d) == Is(d, "dropping") /\ Present = {} /\ Goes(d, "clearing")

ClearTmp(d) ==
  /\ Is(d, "clearing") /\ To(d, "forgetting")
  /\ tmp' = [t \in Preparations |-> "none"]
  /\ UNCHANGED <<uploads, extracted, touched, stale, marker, job, history>>

Forget(d) ==
  /\ Is(d, "forgetting") /\ End(d) /\ marker' = FALSE
  /\ UNCHANGED <<uploads, extracted, touched, tmp, stale, history>>

DeletionFails(d) ==
  /\ pc[d] # "idle" /\ End(d) /\ halfDeleted' = TRUE
  /\ UNCHANGED <<disk, stored, restarts, overlapped>>

DeletionStep(d) ==
  \/ Sweep(d) \/ Drop(d) \/ Dropped(d) \/ ClearTmp(d) \/ Forget(d) \/ DeletionFails(d)

------------------------------------------------------------------------------
\* The process dies at any point, and Home Assistant starts again.
ProcessDies ==
  /\ restarts < MaxRestarts /\ restarts' = restarts + 1
  /\ pc' = [a \in Actors |-> "idle"] /\ job' = [a \in Actors |-> NoJob]
  /\ halfDeleted' = (halfDeleted \/ Active \cap Deletions # {})
  /\ stale' = (stale \/ \E t \in Preparations : tmp[t] # "none")
  /\ tmp' = [t \in Preparations |-> "none"]
  /\ touched' = {e \in touched : e[1] \in Packages /\ e[2] \in Packages}
  /\ UNCHANGED <<uploads, extracted, marker, stored, overlapped>>

FilesNext ==
  \/ \E s \in Stores : Write(s) \/ StoreStep(s)
  \/ \E t \in Preparations : Prepare(t) \/ PreparationStep(t)
  \/ \E d \in Deletions : Delete(d) \/ DeletionStep(d)
  \/ ProcessDies

FilesSpec == FilesInit /\ [][FilesNext]_filesVars

------------------------------------------------------------------------------
(* Properties *)

\* A restart restores without an upload: as long as the marker says that it
\* may, and nothing waits in uploads/, the extraction it will choose has its
\* libraries and its key, at whichever step of a store or of a preparation
\* the process died.  (Actors that overlapped, and a deletion that failed half
\* way, may leave something else.)
Restorable ==
  /\ FilesTypeOK
  /\ marker /\ In(uploads) = {} /\ Active = {} /\ ~overlapped /\ ~halfDeleted =>
       \E p \in Packages : NewestExtraction(p) /\ extracted[p] = "keyed"

\* Nobody but a deletion, or the end of the process, removes the directory a
\* live preparation extracts into, in particular not a preparation that
\* removes what earlier processes left there.
StagingKept ==
  [][\A t \in Preparations :
       tmp[t] # "none" /\ tmp'[t] = "none" =>
         \/ pc'[t] # pc[t]
         \/ \E d \in Deletions : Is(d, "clearing")]_filesVars
==============================================================================
