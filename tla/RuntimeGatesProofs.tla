-------------------------- MODULE RuntimeGatesProofs --------------------------
(***************************************************************************)
(* Proofs about RuntimeGates, for any packages and any number of presses,  *)
(* probes, captures and deletions.                                         *)
(***************************************************************************)
EXTENDS RuntimeGates, TLAPS

\* Stages of a preparation that has its extraction.
Prepared == {"queued", "probing", "marking", "purging"}

\* Only a preparation waits for these jobs.  It works on a package; what it
\* extracted is there as long as it needs it, and so is its key unless the
\* manager was closed.
Sources ==
  /\ stage \in Jobs => holder \in Preparations
  /\ holder \in Preparations =>
       /\ stage \in Extracting => source \in Packages
       /\ stage \in Prepared => source \in extracted
       /\ stage \in {"queued", "probing"} /\ ~Stopped => sdkKey = source

\* Compatible libraries are on disk, with their key unless it was just replaced,
\* and with the marker unless that is about to be written.
Backed ==
  ~Stopped /\ prepared # None /\ libraries = "yes" =>
    /\ prepared \in extracted
    /\ \/ sdkKey = prepared
       \/ holder \in Preparations /\ stage \in {"queued", "probing"}
    /\ marker \/ At(Preparations, "marking")

\* A deletion has released the runtime before it touches the files.
Deleting == holder \in Deletions => prepared = None /\ sdkKey = None

\* While a deletion is at work no outlived job is, unless one was when it began,
\* and after it there is nothing that a preparation or a job could begin with.
Gone ==
  /\ deleted = "pending" => orphan = "none" /\ holder \in Deletions
  /\ deleted = "yes" =>
       /\ orphan # "working"
       /\ holder \in Preparations => stage \in Reading \cup {"installing"}

\* Everything but the ranges, which the steps keep first.
Facts ==
  /\ Sources /\ Backed /\ Deleting /\ Gone
  /\ GateHolds /\ StatusSettles /\ NothingReturns

Inductive == TypeOK /\ Facts

\* The Boolean variables, apart from the other ranges for the provers' sake.
Flags == marker \in BOOLEAN /\ inspecting \in BOOLEAN /\ streaming \in BOOLEAN

USE GatesAssumption
USE DEF At, Goto, Release, Stopped, Configured, EndsWith, Admit, Enter, Open,
        files, runtime, lock, others, Preparations, Calls, Reading, Extracting,
        Jobs, Stages, Running, Package, Archives, Done, StreamAvailable, Prepared

------------------------------------------------------------------------------

\* A manager starts with the files of earlier ones, and with nothing prepared.
LEMMA InitInductive == Init => Inductive
  <1> SUFFICES ASSUME Init PROVE Inductive
    OBVIOUS
  <1>1. Flags
    BY DEF Init, Flags
  <1>2. TypeOK
    BY <1>1 DEF Init, TypeOK, Flags
  <1>3. Facts
    BY <1>2
    DEF Init, TypeOK, Facts, Sources, Backed, Deleting, GateHolds, StatusSettles,
        Gone, NothingReturns
  <1> QED BY <1>2, <1>3 DEF Inductive

\* Requests, waiting ones and those that get the lock keep the types ...
LEMMA AdmitTypes ==
  ASSUME Inductive, \E c \in Calls : Ask(c) \/ AdmitStep(c)
  PROVE  TypeOK'
  <1> USE DEF Inductive, Facts, Sources, TypeOK, Flags
  <1>1. ASSUME NEW c \in Calls, Ask(c) PROVE TypeOK'
    <2>1. Flags'
      BY <1>1 DEF Ask
    <2> QED BY <1>1, <2>1 DEF Ask
  <1>2. ASSUME NEW c \in Calls, Refuse(c) PROVE TypeOK'
    <2>1. Flags'
      BY <1>2 DEF Refuse
    <2> QED BY <1>2, <2>1 DEF Refuse
  <1>3. ASSUME NEW c \in Preparations, Prepare(c) PROVE TypeOK'
    <2>1. Flags'
      BY <1>3 DEF Prepare
    <2> QED BY <1>3, <2>1 DEF Prepare
  <1>4. ASSUME NEW c \in Probes, Probe(c) PROVE TypeOK'
    <2>1. Flags'
      BY <1>4 DEF Probe
    <2> QED BY <1>4, <2>1 DEF Probe
  <1>5. ASSUME NEW c \in Captures, Capture(c) PROVE TypeOK'
    <2>1. Flags'
      BY <1>5 DEF Capture
    <2> QED BY <1>5, <2>1 DEF Capture
  <1>6. ASSUME NEW c \in Deletions, Delete(c) PROVE TypeOK'
    <2>1. Flags'
      BY <1>6 DEF Delete
    <2> QED BY <1>6, <2>1 DEF Delete
  <1> QED BY <1>1, <1>2, <1>3, <1>4, <1>5, <1>6
    DEF AdmitStep

\* Requests, and calls that are admitted or refused.
LEMMA AdmitInductive ==
  ASSUME Inductive, \E c \in Calls : Ask(c) \/ AdmitStep(c)
  PROVE  Inductive'
  <1>0. TypeOK'
    BY AdmitTypes
  <1> USE DEF Inductive, Facts, Sources, Backed, Deleting, GateHolds, StatusSettles,
              Gone, NothingReturns, TypeOK
  <1>1. ASSUME NEW c \in Calls, Ask(c) PROVE Inductive'
    BY <1>0, <1>1 DEF Ask
  <1>2. ASSUME NEW c \in Calls, Refuse(c) PROVE Inductive'
    BY <1>0, <1>2 DEF Refuse
  <1>3. ASSUME NEW c \in Preparations, Prepare(c) PROVE Inductive'
    BY <1>0, <1>3 DEF Prepare
  <1>4. ASSUME NEW c \in Probes, Probe(c) PROVE Inductive'
    BY <1>0, <1>4 DEF Probe
  <1>5. ASSUME NEW c \in Captures, Capture(c) PROVE Inductive'
    BY <1>0, <1>5 DEF Capture
  <1>6. ASSUME NEW c \in Deletions, Delete(c) PROVE Inductive'
    BY <1>0, <1>6 DEF Delete
  <1> QED BY <1>1, <1>2, <1>3, <1>4, <1>5, <1>6
    DEF AdmitStep

\* ... so do cancelled calls, and those that end in an exception ...
LEMMA CutTypes ==
  ASSUME Inductive, \/ \E c \in Preparations \cup Probes \cup Captures : Cancel(c)
                    \/ Escapes
  PROVE  TypeOK'
  <1> USE DEF Inductive, Facts, Sources, TypeOK, Flags
  <1>1. ASSUME NEW c \in Preparations \cup Probes \cup Captures, Cancel(c)
        PROVE  TypeOK'
    <2>1. Flags'
      BY <1>1 DEF Cancel, CutOff, Named, Outlives
    <2> QED BY <1>1, <2>1 DEF Cancel, CutOff, Named, Outlives
  <1>2. CASE Escapes
    <2>1. Flags'
      BY <1>2 DEF Escapes, CutOff, Named, Failed
    <2> QED BY <1>2, <2>1 DEF Escapes, CutOff, Named, Failed
  <1> QED BY <1>1, <1>2
    DEF Cancel

\* Calls that are cut off.
LEMMA CutInductive ==
  ASSUME Inductive, \/ \E c \in Preparations \cup Probes \cup Captures : Cancel(c)
                    \/ Escapes
  PROVE  Inductive'
  <1>0. TypeOK'
    BY CutTypes
  <1> USE DEF Inductive, Facts, Sources, Backed, Deleting, GateHolds, StatusSettles,
              Gone, NothingReturns, TypeOK
  <1>1. ASSUME NEW c \in Preparations \cup Probes \cup Captures, Cancel(c)
        PROVE  Inductive'
    <2>1. CASE /\ c \in waiting
               /\ UNCHANGED <<holder, stage, source, runtime, status, orphan>>
      BY <1>0, <1>1, <2>1 DEF Cancel
    <2>2. CASE c = holder /\ CutOff
      <3>1. CASE c \in Preparations
        BY <1>0, <1>1, <2>2, <3>1 DEF Cancel, CutOff, Named, Outlives
      <3>2. CASE c \in Probes
        BY <1>0, <1>1, <2>2, <3>2 DEF Cancel, CutOff, Named, Outlives
      <3>3. CASE c \in Captures
        BY <1>0, <1>1, <2>2, <3>3 DEF Cancel, CutOff, Named, Outlives
      <3> QED BY <3>1, <3>2, <3>3
    <2> QED BY <1>1, <2>1, <2>2 DEF Cancel
  <1>2. CASE Escapes
    BY <1>0, <1>2 DEF Escapes, CutOff, Named, Failed
  <1> QED BY <1>1, <1>2
    DEF Cancel

\* ... the steps of a preparation, and a helper that gets the runner ...
LEMMA PreparationTypes ==
  ASSUME Inductive, PreparationStep \/ RunHelper
  PROVE  TypeOK'
  <1> USE DEF Inductive, Facts, Sources, TypeOK, Flags
  <1>1. CASE SelectArchive
    <2>1. Flags'
      BY <1>1 DEF SelectArchive
    <2> QED BY <1>1, <2>1 DEF SelectArchive
  <1>2. CASE Extract
    <2>1. Flags'
      BY <1>2 DEF Extract
    <2> QED BY <1>2, <2>1 DEF Extract
  <1>3. CASE PrepareFails
    <2>1. Flags'
      BY <1>3 DEF PrepareFails, PreparationFails, Failed
    <2> QED BY <1>3, <2>1 DEF PrepareFails, PreparationFails, Failed
  <1>4. CASE PreparationFails /\ UNCHANGED files
    <2>1. Flags'
      BY <1>4 DEF PreparationFails
    <2> QED BY <1>4, <2>1 DEF PreparationFails
  <1>5. CASE AskInstall
    <2>1. Flags'
      BY <1>5 DEF AskInstall
    <2> QED BY <1>5, <2>1 DEF AskInstall
  <1>6. CASE Install
    <2>1. Flags'
      BY <1>6 DEF Install
    <2> QED BY <1>6, <2>1 DEF Install
  <1>7. ASSUME NEW b \in BOOLEAN, LibrariesProbed(b) PROVE TypeOK'
    <2>1. Flags'
      BY <1>7 DEF LibrariesProbed
    <2> QED BY <1>7, <2>1 DEF LibrariesProbed
  <1>8. CASE WriteMarker
    <2>1. Flags'
      BY <1>8 DEF WriteMarker
    <2> QED BY <1>8, <2>1 DEF WriteMarker
  <1>9. CASE Purge
    <2>1. Flags'
      BY <1>9 DEF Purge
    <2> QED BY <1>9, <2>1 DEF Purge
  <1>10. CASE RunHelper
    <2>1. Flags'
      BY <1>10 DEF RunHelper
    <2> QED BY <1>10, <2>1 DEF RunHelper
  <1> QED BY <1>1, <1>2, <1>3, <1>4, <1>5, <1>6, <1>7, <1>8, <1>9, <1>10
    DEF PreparationStep, InstallFails, ProbeFails, MarkerFails

\* Preparations, and the helper they run.
LEMMA PreparationInductive ==
  ASSUME Inductive, PreparationStep \/ RunHelper
  PROVE  Inductive'
  <1>0. TypeOK'
    BY PreparationTypes
  <1> USE DEF Inductive, Facts, Sources, Backed, Deleting, GateHolds, StatusSettles,
              Gone, NothingReturns, TypeOK
  <1>1. CASE SelectArchive
    BY <1>0, <1>1 DEF SelectArchive
  <1>2. CASE Extract
    BY <1>0, <1>2 DEF Extract
  <1>3. CASE PrepareFails
    BY <1>0, <1>3 DEF PrepareFails, PreparationFails, Failed
  <1>4. CASE PreparationFails /\ UNCHANGED files
    BY <1>0, <1>4 DEF PreparationFails
  <1>5. CASE AskInstall
    BY <1>0, <1>5 DEF AskInstall
  <1>6. CASE Install
    BY <1>0, <1>6 DEF Install
  <1>7. ASSUME NEW b \in BOOLEAN, LibrariesProbed(b) PROVE Inductive'
    BY <1>0, <1>7 DEF LibrariesProbed
  <1>8. CASE WriteMarker
    BY <1>0, <1>8 DEF WriteMarker
  <1>9. CASE Purge
    BY <1>0, <1>9 DEF Purge
  <1>10. CASE RunHelper
    BY <1>0, <1>10 DEF RunHelper
  <1> QED BY <1>1, <1>2, <1>3, <1>4, <1>5, <1>6, <1>7, <1>8, <1>9, <1>10
    DEF PreparationStep, InstallFails, ProbeFails, MarkerFails

\* ... those of a probe, a snapshot and a deletion ...
LEMMA NativeTypes ==
  ASSUME Inductive, NativeStep \/ DeletionStep
  PROVE  TypeOK'
  <1> USE DEF Inductive, Facts, Sources, TypeOK, Flags
  <1>1. CASE FileCreated
    <2>1. Flags'
      BY <1>1 DEF FileCreated
    <2> QED BY <1>1, <2>1 DEF FileCreated
  <1>2. CASE StartChild
    <2>1. Flags'
      BY <1>2 DEF StartChild
    <2> QED BY <1>2, <2>1 DEF StartChild
  <1>3. CASE ProbeEnds
    <2>1. Flags'
      BY <1>3 DEF ProbeEnds
    <2> QED BY <1>3, <2>1 DEF ProbeEnds
  <1>4. CASE CaptureDone
    <2>1. Flags'
      BY <1>4 DEF CaptureDone
    <2> QED BY <1>4, <2>1 DEF CaptureDone
  <1>5. CASE CaptureSettles
    <2>1. Flags'
      BY <1>5 DEF CaptureSettles
    <2> QED BY <1>5, <2>1 DEF CaptureSettles
  <1>6. CASE Crash
    <2>1. Flags'
      BY <1>6 DEF Crash
    <2> QED BY <1>6, <2>1 DEF Crash
  <1>7. CASE Unlink
    <2>1. Flags'
      BY <1>7 DEF Unlink
    <2> QED BY <1>7, <2>1 DEF Unlink
  <1>8. CASE DeletionEnds
    <2>1. Flags'
      BY <1>8 DEF DeletionEnds, Succeeds
    <2> QED BY <1>8, <2>1 DEF DeletionEnds, Succeeds
  <1>9. CASE DeletionFails
    <2>1. Flags'
      BY <1>9 DEF DeletionFails
    <2> QED BY <1>9, <2>1 DEF DeletionFails
  <1> QED BY <1>1, <1>2, <1>3, <1>4, <1>5, <1>6, <1>7, <1>8, <1>9
    DEF NativeStep, DeletionStep

\* Frame probes and snapshots, and deletions.
LEMMA NativeInductive ==
  ASSUME Inductive, NativeStep \/ DeletionStep
  PROVE  Inductive'
  <1>0. TypeOK'
    BY NativeTypes
  <1> USE DEF Inductive, Facts, Sources, Backed, Deleting, GateHolds, StatusSettles,
              Gone, NothingReturns, TypeOK
  <1>1. CASE FileCreated
    BY <1>0, <1>1 DEF FileCreated
  <1>2. CASE StartChild
    BY <1>0, <1>2 DEF StartChild
  <1>3. CASE ProbeEnds
    BY <1>0, <1>3 DEF ProbeEnds
  <1>4. CASE CaptureDone
    BY <1>0, <1>4 DEF CaptureDone
  <1>5. CASE CaptureSettles
    BY <1>0, <1>5 DEF CaptureSettles
  <1>6. CASE Crash
    BY <1>0, <1>6 DEF Crash
  <1>7. CASE Unlink
    BY <1>0, <1>7 DEF Unlink
  <1>8. CASE DeletionEnds
    BY <1>0, <1>8 DEF DeletionEnds, Succeeds
  <1>9. CASE DeletionFails
    BY <1>0, <1>9 DEF DeletionFails
  <1> QED BY <1>1, <1>2, <1>3, <1>4, <1>5, <1>6, <1>7, <1>8, <1>9
    DEF NativeStep, DeletionStep

\* ... and what runs without the lock.
LEMMA OutsideTypes ==
  ASSUME Inductive, Outside
  PROVE  TypeOK'
  <1> USE DEF Inductive, Facts, Sources, TypeOK, Flags
  <1>1. ASSUME NEW p \in Packages, Store(p) PROVE TypeOK'
    <2>1. Flags'
      BY <1>1 DEF Store
    <2> QED BY <1>1, <2>1 DEF Store
  <1>2. CASE ViewerConnects
    <2>1. Flags'
      BY <1>2 DEF ViewerConnects
    <2> QED BY <1>2, <2>1 DEF ViewerConnects
  <1>3. CASE StreamStops
    <2>1. Flags'
      BY <1>3 DEF StreamStops
    <2> QED BY <1>3, <2>1 DEF StreamStops
  <1>4. CASE Inspect
    <2>1. Flags'
      BY <1>4 DEF Inspect
    <2> QED BY <1>4, <2>1 DEF Inspect
  <1>5. CASE InspectionEnds
    <2>1. Flags'
      BY <1>5 DEF InspectionEnds
    <2> QED BY <1>5, <2>1 DEF InspectionEnds
  <1>6. CASE Outlive
    <2>1. Flags'
      BY <1>6 DEF Outlive
    <2> QED BY <1>6, <2>1 DEF Outlive
  <1>7. CASE BeginShutdown
    <2>1. Flags'
      BY <1>7 DEF BeginShutdown
    <2> QED BY <1>7, <2>1 DEF BeginShutdown
  <1>8. CASE Close
    <2>1. Flags'
      BY <1>8 DEF Close
    <2> QED BY <1>8, <2>1 DEF Close
  <1> QED BY <1>1, <1>2, <1>3, <1>4, <1>5, <1>6, <1>7, <1>8
    DEF Outside

\* What does not take the lock.
LEMMA OutsideInductive ==
  ASSUME Inductive, Outside
  PROVE  Inductive'
  <1>0. TypeOK'
    BY OutsideTypes
  <1> USE DEF Inductive, Facts, Sources, Backed, Deleting, GateHolds, StatusSettles,
              Gone, NothingReturns, TypeOK
  <1>1. ASSUME NEW p \in Packages, Store(p) PROVE Inductive'
    BY <1>0, <1>1 DEF Store
  <1>2. CASE ViewerConnects
    BY <1>0, <1>2 DEF ViewerConnects
  <1>3. CASE StreamStops
    BY <1>0, <1>3 DEF StreamStops
  <1>4. CASE Inspect
    BY <1>0, <1>4 DEF Inspect
  <1>5. CASE InspectionEnds
    BY <1>0, <1>5 DEF InspectionEnds
  <1>6. CASE Outlive
    BY <1>0, <1>6 DEF Outlive
  <1>7. CASE BeginShutdown
    BY <1>0, <1>7 DEF BeginShutdown
  <1>8. CASE Close
    BY <1>0, <1>8 DEF Close
  <1> QED BY <1>1, <1>2, <1>3, <1>4, <1>5, <1>6, <1>7, <1>8
    DEF Outside

\* Every step keeps the types and the facts.
LEMMA StepInductive == Inductive /\ [Next]_vars => Inductive'
  <1> SUFFICES ASSUME Inductive, [Next]_vars PROVE Inductive'
    OBVIOUS
  <1>1. CASE UNCHANGED vars
    BY <1>1
    DEF vars, Inductive, Facts, Sources, Backed, Deleting, GateHolds,
        StatusSettles, Gone, NothingReturns, TypeOK
  <1> QED BY <1>1, AdmitInductive, CutInductive, PreparationInductive,
             NativeInductive, OutsideInductive
    DEF Next

\* The inductive invariant holds in every state of the manager.
THEOREM AlwaysInductive == Spec => []Inductive
  <1> QED BY InitInductive, StepInductive, PTL DEF Spec

\* A stream is only offered with libraries that are on disk with their own key
\* and will be restored, although stream_available takes no lock, unless a
\* preparation was cut off after it had replaced the key.
THEOREM AlwaysOfferIsBacked == Spec => []OfferIsBacked
  <1>1. Inductive => OfferIsBacked
    BY DEF Inductive, Facts, Backed, OfferIsBacked
  <1> QED BY <1>1, AlwaysInductive, PTL

\* A probe or snapshot runs only with libraries and their key, whatever was
\* deleted or failed while it waited, unless the manager was closed.
THEOREM AlwaysGateHolds == Spec => []GateHolds
  <1>1. Inductive => GateHolds
    BY DEF Inductive, Facts
  <1> QED BY <1>1, AlwaysInductive, PTL

\* A status that names a running operation is right, unless the operation ended
\* without one, with stream probes that set theirs without the lock.
THEOREM AlwaysStatusSettles == Spec => []StatusSettles
  <1>1. Inductive => StatusSettles
    BY DEF Inductive, Facts
  <1> QED BY <1>1, AlwaysInductive, PTL

\* Nothing of the application comes back after a deletion until it is stored
\* again, unless a job that had outlived its call was at work when the deletion
\* began, and a closed manager has no runtime.
THEOREM AlwaysNothingReturns == Spec => []NothingReturns
  <1>1. Inductive => NothingReturns
    BY DEF Inductive, Facts
  <1> QED BY <1>1, AlwaysInductive, PTL
==============================================================================
