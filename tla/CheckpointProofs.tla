-------------------------- MODULE CheckpointProofs --------------------------
(* Type correctness of Checkpoint and NoDangling, for any tracks, playlists,  *)
(* works, crash points and budgets: first what each operation leaves in the   *)
(* journal, on the device and in the session has its type; then one lemma per *)
(* part of the inductive invariant and group of actions, one step per action. *)
EXTENDS CheckpointInvariant, TLAPS

-----------------------------------------------------------------------------
(* The values the operations build.                                          *)

\* The live generation is a generation.
LEMMA GenType == Typed => Gen \in Generations
  BY DEF Typed, Gen, Generations

\* The ten phases are the range Absent .. RollbackComplete.
LEMMA PhaseRange == \A p \in 0 .. 9 : p \in Absent .. RollbackComplete
  BY DEF Absent, RollbackComplete

\* Moving a journal to another phase gives a journal.
LEMMA PhaseTyped == ASSUME NEW j \in Journals, NEW p \in Absent .. RollbackComplete
                    PROVE  [j EXCEPT !.phase = p] \in Journals
  BY DEF Journals

\* Recording a verified generation gives a journal.
LEMMA VerifiedTyped == ASSUME NEW j \in Journals, NEW g \in Generations
                       PROVE  [j EXCEPT !.published = {}, !.verified = {g}] \in Journals
  BY DEF Journals

\* Recording a published generation gives a journal.
LEMMA PublishedTyped == ASSUME NEW j \in Journals, NEW g \in Generations
                        PROVE  [j EXCEPT !.published = {g}] \in Journals
  BY DEF Journals

\* Clearing the candidate of a journal, in any phase, gives a journal.
LEMMA ResetTyped == ASSUME NEW j \in Journals, NEW p \in Absent .. RollbackComplete
                    PROVE  /\ Reset(j) \in Journals
                           /\ [Reset(j) EXCEPT !.phase = p, !.published = {},
                              !.verified = {}] \in Journals
  BY DEF Journals, Reset

\* The journal a sync opens is a journal.
LEMMA NewTyped == ASSUME NEW s \in SUBSET Tracks, work \in WorkKinds
                  PROVE  NewJournal(s) \in Journals
<1> DEFINE c == work.staged \subseteq s
           o == IF c THEN work.obsolete ELSE {}
           m == c /\ work.meta
<1>1. o \in SUBSET Tracks
  BY DEF WorkKinds
<1>2. m \in BOOLEAN
  BY Zenon
<1>3. NewJournal(s) = [NoJournal EXCEPT !.phase = Staging, !.staged = s, !.obsolete = o,
   !.meta = m]
  BY DEF NewJournal
<1> HIDE DEF c, o, m
<1>4. NoJournal \in Journals
  BY DEF Journals, NoJournal, Absent, RollbackComplete
<1>5. Staging \in Absent .. RollbackComplete
  BY DEF Absent, Staging, RollbackComplete
<1> QED
  BY <1>1, <1>2, <1>3, <1>4, <1>5 DEF Journals

\* Recording what verification saw gives a journal.
LEMMA SeenTyped ==
  ASSUME NEW j \in Journals
  PROVE  [j EXCEPT !.phase = DatabaseVerified, !.seen = @ \cup j.own] \in Journals
<1>1. DatabaseVerified \in Absent .. RollbackComplete
  BY PhaseRange DEF DatabaseVerified
<1> QED
  BY <1>1 DEF Journals

\* Recording the projection plan gives a journal.
LEMMA PlanTyped ==
  ASSUME NEW j \in Journals
  PROVE  [j EXCEPT !.phase = RockboxProjectionsPrepared, !.plan = TRUE] \in Journals
<1>1. RockboxProjectionsPrepared \in Absent .. RollbackComplete
  BY PhaseRange DEF RockboxProjectionsPrepared
<1> QED
  BY <1>1 DEF Journals

\* Ending the sync with an outcome keeps the types.
LEMMA EndTyped == ASSUME Typed, NEW o \in Outcomes, End(o), UNCHANGED genVars
                  PROVE  /\ pc' \in Points /\ out' \in Outcomes /\ why' \in Causes
                         /\ exp' \in Generations /\ mdb' \in Databases /\ work' \in WorkKinds
                         /\ want' \in SUBSET ListVersions /\ cur' \in SUBSET Tracks
  BY GenType DEF Typed, End, genVars, Points, Causes, WorkKinds, NoWork

\* Failing with an outcome keeps the types.
LEMMA FailTyped == ASSUME Typed, NEW o \in Outcomes, Fail(o) PROVE Typed'
  BY EndTyped DEF Typed, Fail, genVars, diskVars, envVars

\* A failing I/O operation keeps the counters within their bounds.
LEMMA FaultTyped == ASSUME Typed, NEW p, Fault(p)
                    PROVE  /\ crashes' \in 0..MaxCrashes /\ faults' \in 0..MaxFaults
                           /\ foreign' \in 0..MaxForeign /\ syncs' \in 0..MaxSyncs
  BY ConstantsTyped DEF Typed, Fault

\* A fence, passed or refused, keeps the types.
LEMMA FenceTyped == ASSUME Typed, NEW from, NEW to \in Points, Fence(from, to) PROVE Typed'
<1>1. CASE Fail("blocked")
  BY <1>1, FailTyped DEF Outcomes
<1>2. CASE Goto(to) /\ UNCHANGED <<genVars, diskVars, journal, memVars, exp, why>>
  BY <1>2 DEF Typed, Goto, genVars, diskVars, memVars, envVars
<1> QED
  BY <1>1, <1>2 DEF Fence

\* A database write that fails keeps the types.
LEMMA WriteFaultTyped == Typed /\ WriteFault => Typed'
<1> SUFFICES ASSUME Typed, WriteFault PROVE Typed'
  OBVIOUS
<1>1. /\ pc' \in Points /\ why' \in Causes
  BY DEF WriteFault, Points, Causes
<1>2. /\ journal' \in Journals /\ exp' \in Generations
  BY GenType, PublishedTyped DEF WriteFault, RecordPublished, Typed
<1> QED
  BY <1>1, <1>2, FaultTyped DEF Typed, WriteFault, genVars, diskVars, memVars

\* A verification that does not find the candidate keeps the types.
LEMMA MismatchTyped == ASSUME Typed, NEW held, NEW point, NEW cause \in Causes,
                              Mismatch(held, point, cause)
                       PROVE  Typed'
<1>1. pc' \in Points
  BY DEF Mismatch, Points
<1>2. CASE UNCHANGED envVars
  BY <1>1, <1>2 DEF Typed, Mismatch, genVars, diskVars, memVars, envVars
<1>3. CASE Fault(point)
  BY <1>1, <1>3, FaultTyped DEF Typed, Mismatch, genVars, diskVars, memVars
<1> QED
  BY <1>2, <1>3 DEF Mismatch

\* A failure that leaves the journal for the next session keeps the types.
LEMMA InterruptedTyped == ASSUME Typed, NEW p, Fault(p), Interrupted
                          PROVE  Typed'
<1>1. journal' \in Journals
  BY GenType, PublishedTyped DEF Interrupted, Typed
<1> QED
  BY <1>1, EndTyped, FaultTyped DEF Typed, Interrupted, genVars, diskVars, Outcomes

\* Recovering the journal a session finds keeps the types.
LEMMA TypeRecovery == Typed /\ Recovery => Typed'
<1> SUFFICES ASSUME Typed, Recovery PROVE Typed'
  OBVIOUS
<1>g. Gen \in Generations /\ journal \in Journals
  BY GenType DEF Typed
<1>1. CASE RecoverUndone
  BY <1>1, <1>g, ConstantsTyped DEF RecoverUndone, Goto, genVars, diskVars, memVars, envVars,
     Points, Causes, Typed
<1>2. CASE RecoverStaging
  BY <1>2, <1>g, ConstantsTyped DEF RecoverStaging, Unreferenced, Goto, genVars, memVars,
     envVars, Points, Typed
<1>3. CASE SaveAbandoned
  <2>1. CASE \E o \in Outcomes : Fail(o)
    BY <2>1, FailTyped
  <2>2. CASE ~ \E o \in Outcomes : Fail(o)
    <3>1. Abandoned \in Journals
      BY <1>g, PhaseRange, PhaseTyped DEF Abandoned, CleanupComplete
    <3> QED
      BY <1>3, <2>2, <3>1 DEF SaveAbandoned, Goto, genVars, diskVars, memVars, envVars, Points,
         Causes, Outcomes, Typed
  <2> QED
    BY <2>1, <2>2
<1>4. CASE RemoveAbandonedDir
  BY <1>4, <1>g, ConstantsTyped DEF RemoveAbandonedDir, Goto, genVars, memVars, envVars, Points,
     Typed
<1>5. CASE RecoverFirmware
  BY <1>5, <1>g, ConstantsTyped DEF RecoverFirmware, Goto, genVars, diskVars, memVars, envVars,
     Points, Causes, Typed
<1>6. CASE RecoverLost
  <2>1. CASE \E o \in Outcomes : Fail(o)
    BY <2>1, FailTyped
  <2>2. CASE ~ \E o \in Outcomes : Fail(o)
    BY <1>6, <2>2 DEF RecoverLost, Goto, genVars, diskVars, memVars, envVars, Points, Causes,
       Outcomes, Typed
  <2> QED
    BY <2>1, <2>2
<1>7. CASE RecoverPublish
  BY <1>7, <1>g, ConstantsTyped DEF RecoverPublish, Goto, genVars, diskVars, memVars, envVars,
     Points, Typed
<1> QED
  BY <1>1, <1>2, <1>3, <1>4, <1>5, <1>6, <1>7 DEF Recovery

\* Staging an album keeps the types.
LEMMA TypeStaged == Typed /\ Staged => Typed'
<1> SUFFICES ASSUME Typed, Staged PROVE Typed'
  OBVIOUS
<1>g. Gen \in Generations /\ journal \in Journals
  BY GenType DEF Typed
<1>1. CASE \E f \in Tracks : StageFile(f)
  BY <1>1, <1>g, ConstantsTyped DEF StageFile, Goto, genVars, memVars, envVars, Points,
     WorkKinds, Typed
<1>2. CASE SaveAlbum
  <2>1. NewJournal(pending) \in Journals
    BY NewTyped DEF Typed
  <2> QED
    BY <1>2, <2>1 DEF SaveAlbum, Goto, genVars, diskVars, memVars, envVars, Points, Typed
<1>3. CASE FinishStaging
  BY <1>3, <1>g, ConstantsTyped DEF FinishStaging, Goto, genVars, diskVars, memVars, envVars,
     Points, Absent, WorkKinds, Typed
<1> QED
  BY <1>1, <1>2, <1>3 DEF Staged

\* Publication up to the verified database keeps the types.
LEMMA TypePublish == Typed /\ Publish => Typed'
<1> SUFFICES ASSUME Typed, Publish PROVE Typed'
  OBVIOUS
<1>g. Gen \in Generations /\ journal \in Journals
  BY GenType DEF Typed
<1>1. CASE PublishFence
  BY <1>1, FenceTyped DEF PublishFence, Points
<1>2. CASE Prepare
  <2>n. NewJournal(pending) \in Journals
    BY NewTyped DEF Typed
  <2> DEFINE j == IF journal.phase = Absent THEN NewJournal(pending) ELSE journal
  <2>j. j \in Journals
    BY <2>n DEF Typed
  <2>b. [j EXCEPT !.before = IF @ = {} THEN {Gen} ELSE @] \in Journals
    BY <2>j, <1>g DEF Journals
  <2>1. CASE \E o \in Outcomes : Fail(o)
    BY <2>1, FailTyped
  <2>2. CASE ~ \E o \in Outcomes : Fail(o)
    <3>1. journal' \in Journals /\ pc' \in Points
      BY <1>2, <2>2, <2>b DEF Prepare, Goto, Points, Outcomes
    <3>2. UNCHANGED <<genVars, diskVars, memVars, exp, why, out, envVars>>
      BY <1>2, <2>2 DEF Prepare, Goto, Outcomes
    <3> QED
      BY <3>1, <3>2 DEF Typed, genVars, diskVars, memVars, envVars
  <2> QED
    BY <2>1, <2>2
<1>3. CASE PrepareArtwork
  <2>1. CASE Fault("artwork") /\ End("failed") /\ UNCHANGED <<genVars, diskVars, journal>>
    BY <2>1, FaultTyped, EndTyped DEF genVars, diskVars, Outcomes, Typed
  <2>2. CASE ~ (Fault("artwork") /\ End("failed") /\ UNCHANGED <<genVars, diskVars, journal>>)
    <3>1. journal' \in Journals
      BY <1>3, <2>2, <1>g, PhaseRange, PhaseTyped DEF PrepareArtwork, ReadyToPublish
    <3> QED
      BY <1>3, <2>2, <3>1 DEF PrepareArtwork, Goto, genVars, diskVars, memVars, envVars, Points,
         Typed
  <2> QED
    BY <2>1, <2>2
<1>4. CASE EnsurePreimage
  <2>1. CASE \E o \in Outcomes : Fail(o)
    BY <2>1, FailTyped
  <2>2. CASE ~ \E o \in Outcomes : Fail(o)
    BY <1>4, <2>2 DEF EnsurePreimage, Journals, Absent, DatabaseVerified, RollbackComplete,
       Goto, genVars, diskVars, memVars, envVars, Points, Causes, Outcomes, Typed
  <2> QED
    BY <2>1, <2>2
<1>5. CASE EnsureSnapshot
  <2>1. CASE \E o \in Outcomes : Fail(o)
    BY <2>1, FailTyped
  <2>2. CASE ~ \E o \in Outcomes : Fail(o)
    BY <1>5, <2>2 DEF EnsureSnapshot, Snapshots, Goto, genVars, diskVars, memVars, envVars,
       Points, Causes, Outcomes, Typed
  <2> QED
    BY <2>1, <2>2
<1>6. CASE FillSnapshot
  BY <1>6, <1>g, ConstantsTyped DEF FillSnapshot, Goto, genVars, memVars, envVars, Points,
     Snapshots, Typed
<1>7. CASE Dispatch
  BY <1>7, <1>g, ConstantsTyped DEF Dispatch, Goto, genVars, diskVars, memVars, envVars, Points,
     ReadyToPublish, DatabaseVerified, Typed
<1>8. CASE ResumeCandidate
  <2>1. [journal EXCEPT !.phase = DatabaseVerified] \in Journals
    BY <1>g, PhaseRange, PhaseTyped DEF DatabaseVerified
  <2> DEFINE j == [journal EXCEPT !.phase = DatabaseVerified]
  <2>2. [j EXCEPT !.published = {}, !.verified = {Gen}] \in Journals
    BY <2>1, <1>g, VerifiedTyped
  <2>3. journal' \in Journals /\ exp' \in Generations
    BY <1>8, <1>g, <2>2 DEF ResumeCandidate, RecordVerified, Typed
  <2>4. pc' \in Points /\ why' \in Causes
    BY <1>8 DEF ResumeCandidate, Goto, Points, Causes, Typed
  <2> QED
    BY <1>8, <2>3, <2>4 DEF ResumeCandidate, Goto, genVars, diskVars, memVars, envVars, Typed
<1>9. CASE OpenDatabase
  BY <1>9, <1>g, ConstantsTyped DEF OpenDatabase, Goto, genVars, diskVars, envVars, Points,
     Databases, Typed
<1>10. CASE \E f \in Tracks : ReserveFinal(f)
  BY <1>10, <1>g, ConstantsTyped DEF ReserveFinal, Goto, genVars, diskVars, envVars, Points,
     Journals, Absent, Staging, ReadyToPublish, DatabaseVerified, DeviceManifestPublished,
     RockboxProjectionsPrepared, PlaylistOwnershipPublished, RockboxProjectionsPublished,
     CleanupComplete, RollbackComplete, Typed
<1>11. CASE MoveStaged
  BY <1>11, <1>g, ConstantsTyped DEF MoveStaged, Goto, genVars, memVars, envVars, Points, Typed
<1>12. CASE RecordAdded
  <2> DEFINE a == (mdb.tracks \cap journal.staged) \cup cur
  <2>2. Candidate(a, manifest.tags) \in Contents /\ cur \in SUBSET Tracks
    BY DEF Candidate, Journals, Contents, Typed
  <2> HIDE DEF a
  <2>3. journal' = [journal EXCEPT !.dbids = @ \cup cur, !.cand = {Candidate(a, manifest.tags)}]
    BY <1>12 DEF RecordAdded, a
  <2>1. journal' \in Journals
    BY <2>2, <2>3, <1>g DEF Journals
  <2> QED
    BY <1>12, <2>1 DEF RecordAdded, Goto, genVars, diskVars, envVars, Points, Databases, Typed
<1>13. CASE UpdateMetadata
  BY <1>13, <1>g, ConstantsTyped DEF UpdateMetadata, NewTags, Candidate, Goto, genVars,
     diskVars, envVars, Points, Journals, Absent, Staging, ReadyToPublish, DatabaseVerified,
     DeviceManifestPublished, RockboxProjectionsPrepared, PlaylistOwnershipPublished,
     RockboxProjectionsPublished, CleanupComplete, RollbackComplete, Databases, Contents, Typed
<1>14. CASE ReconcileCandidate
  <2> DEFINE f == pc' = "known" /\ why' = "retry" /\ UNCHANGED <<genVars, diskVars, journal,
     memVars, exp, out>>
  <2>1. CASE Fault("desire") /\ f
    BY <2>1, FaultTyped DEF genVars, diskVars, memVars, Points, Causes, Typed
  <2>2. CASE ~ (Fault("desire") /\ f)
    <3>1. NewTags \in {0, 1}
      BY DEF NewTags, Contents, Typed
    <3>2. Candidate(journal.staged, NewTags) \in Contents
      BY <3>1 DEF Candidate, Contents, Journals, Typed
    <3>3. journal' \in Journals
      <4>1. want \in SUBSET ListVersions
        BY DEF Typed
      <4>2. journal' = [journal EXCEPT !.own = want, !.cand = {Candidate(journal.staged,
         NewTags)}]
        BY <1>14, <2>2 DEF ReconcileCandidate
      <4> QED
        BY <4>1, <4>2, <3>2, <1>g DEF Journals
    <3>4. mdb' \in Databases
      BY <1>14, <2>2 DEF ReconcileCandidate, Databases, Typed
    <3> QED
      BY <1>14, <2>2, <3>3, <3>4 DEF ReconcileCandidate, Goto, genVars, diskVars, memVars,
         envVars, Points, Typed
  <2> QED
    BY <2>1, <2>2
<1>15. CASE DatabaseFence
  BY <1>15, FenceTyped DEF DatabaseFence, Points
<1>16. CASE ClearArtwork
  BY <1>16, <1>g, ConstantsTyped DEF ClearArtwork, Goto, diskVars, memVars, envVars, Points,
     Typed
<1>17. CASE WriteArtwork
  <2>1. CASE WriteFault
    BY <2>1, WriteFaultTyped
  <2>2. CASE ~ WriteFault
    BY <1>17, <2>2 DEF WriteArtwork, Goto, genVars, diskVars, memVars, envVars, Points,
       Databases, Typed
  <2> QED
    BY <2>1, <2>2
<1>18. CASE WriteDatabase
  <2>1. CASE WriteFault
    BY <2>1, WriteFaultTyped
  <2>2. CASE ~ WriteFault
    BY <1>18, <2>2 DEF WriteDatabase, Goto, genVars, diskVars, memVars, envVars, Points, Typed
  <2> QED
    BY <2>1, <2>2
<1>19. CASE RecordWritten
  BY <1>19, <1>g, ConstantsTyped DEF RecordWritten, RecordPublished, Goto, genVars, diskVars,
     memVars, envVars, Points, Journals, Absent, Staging, ReadyToPublish, DatabaseVerified,
     DeviceManifestPublished, RockboxProjectionsPrepared, PlaylistOwnershipPublished,
     RockboxProjectionsPublished, CleanupComplete, RollbackComplete, Typed
<1>20. CASE VerifyWritten
  <2>1. CASE \E p : Mismatch(CandidateHeld /\ PlaylistsHeld, p, "retry")
    BY <2>1, MismatchTyped DEF Causes
  <2>2. CASE ~ \E p : Mismatch(CandidateHeld /\ PlaylistsHeld, p, "retry")
    <3>1. [journal EXCEPT !.phase = DatabaseVerified, !.seen = @ \cup journal.own] \in Journals
      BY <1>g, SeenTyped
    <3>2. journal' \in Journals /\ exp' \in Generations
      BY <1>20, <2>2, <3>1, <1>g, VerifiedTyped DEF VerifyWritten, RecordVerified
    <3> QED
      BY <1>20, <2>2, <3>2 DEF VerifyWritten, Goto, genVars, diskVars, memVars, envVars, Points,
         Typed
  <2> QED
    BY <2>1, <2>2
<1> QED
  BY <1>1, <1>2, <1>3, <1>4, <1>5, <1>6, <1>7, <1>8, <1>9, <1>10, <1>11, <1>12, <1>13, <1>14,
     <1>15, <1>16, <1>17, <1>18, <1>19, <1>20 DEF Publish

\* Publication after the verified database keeps the types.
LEMMA TypeFinalize == Typed /\ Finalize => Typed'
<1> SUFFICES ASSUME Typed, Finalize PROVE Typed'
  OBVIOUS
<1>g. Gen \in Generations /\ journal \in Journals
  BY GenType DEF Typed
<1>1. CASE CheckVerified
  <2>1. CASE \E p : Mismatch(CandidateHeld /\ PlaylistsHeld, p, "terminal")
    BY <2>1, MismatchTyped DEF Causes
  <2>2. CASE ~ \E p : Mismatch(CandidateHeld /\ PlaylistsHeld, p, "terminal")
    BY <1>1, <2>2 DEF CheckVerified, Goto, genVars, diskVars, memVars, envVars, Points,
       Journals, Typed
  <2> QED
    BY <2>1, <2>2
<1>2. CASE ManifestFence
  BY <1>2, FenceTyped DEF ManifestFence, Points
<1>3. CASE WriteManifest
  <2>1. CASE Fault("manifest")
    BY <1>3, <2>1, FaultTyped DEF WriteManifest, Goto, genVars, diskVars, memVars, Journals,
       Points, Causes, Typed
  <2>2. CASE ~ Fault("manifest")
    BY <1>3, <2>2 DEF WriteManifest, Goto, genVars, diskVars, memVars, envVars, Journals,
       Points, Typed
  <2> QED
    BY <2>1, <2>2
<1>4. CASE RecordManifest
  <2>1. [journal EXCEPT !.phase = DeviceManifestPublished] \in Journals
    BY <1>g, PhaseRange, PhaseTyped DEF DeviceManifestPublished
  <2>2. journal' \in Journals /\ exp' \in Generations
    BY <1>4, <1>g, <2>1, VerifiedTyped DEF RecordManifest, RecordVerified, Typed
  <2>3. pc' \in Points
    BY <1>4 DEF RecordManifest, Goto, Points
  <2> QED
    BY <1>4, <2>2, <2>3 DEF RecordManifest, Goto, genVars, diskVars, memVars, envVars, Typed
<1>5. CASE Reverify
  <2>1. CASE \E p : Mismatch(StillHeld, p, "terminal")
    BY <2>1, MismatchTyped DEF Causes
  <2>2. CASE ~ \E p : Mismatch(StillHeld, p, "terminal")
    <3>1. Resumed(journal) \in Points
      BY DEF Resumed, Points
    <3> QED
      BY <1>5, <2>2, <3>1 DEF Reverify, Goto, genVars, diskVars, memVars, envVars, Typed
  <2> QED
    BY <2>1, <2>2
<1>6. CASE PlanFence
  BY <1>6, FenceTyped DEF PlanFence, Points
<1>7. CASE PlanProjections
  <2>1. CASE \E o \in Outcomes : Fail(o)
    BY <2>1, FailTyped
  <2>2. CASE ~ \E o \in Outcomes : Fail(o)
    <3>1. [journal EXCEPT !.phase = RockboxProjectionsPrepared, !.plan = TRUE] \in Journals
      BY <1>g, PlanTyped
    <3>2. journal' \in Journals /\ exp' \in Generations
      BY <1>7, <2>2, <3>1, <1>g, VerifiedTyped DEF PlanProjections, RecordVerified, Outcomes
    <3> QED
      BY <1>7, <2>2, <3>2 DEF PlanProjections, Goto, genVars, diskVars, memVars, envVars,
         Points, Outcomes, Typed
  <2> QED
    BY <2>1, <2>2
<1>8. CASE OwnershipFence
  BY <1>8, FenceTyped DEF OwnershipFence, Points
<1>9. CASE WriteOwnership
  <2>1. CASE Fault("own") /\ Interrupted
    BY <2>1, InterruptedTyped
  <2>2. CASE ~ (Fault("own") /\ Interrupted)
    BY <1>9, <2>2, ConstantsTyped DEF WriteOwnership, Goto, genVars, diskVars, memVars, envVars,
       Journals, Points, Typed
  <2> QED
    BY <2>1, <2>2
<1>10. CASE PhaseOwnership
  BY <1>10, <1>g, ConstantsTyped DEF PhaseOwnership, Goto, genVars, diskVars, memVars, envVars,
     Points, Journals, Absent, Staging, ReadyToPublish, DatabaseVerified,
     DeviceManifestPublished, RockboxProjectionsPrepared, PlaylistOwnershipPublished,
     RockboxProjectionsPublished, CleanupComplete, RollbackComplete, Typed
<1>11. CASE RecordOwnership
  <2>1. journal' \in Journals /\ exp' \in Generations
    BY <1>11, <1>g, VerifiedTyped DEF RecordOwnership, RecordVerified, Typed
  <2> QED
    BY <1>11, <2>1 DEF RecordOwnership, Goto, genVars, diskVars, memVars, envVars, Points, Typed
<1>12. CASE ProjectionFence
  BY <1>12, FenceTyped DEF ProjectionFence, Points
<1>13. CASE WriteProjection
  <2>1. CASE Fault("box") /\ Interrupted
    BY <2>1, InterruptedTyped
  <2>2. CASE ~ (Fault("box") /\ Interrupted)
    <3>1. boxes' \in SUBSET ListVersions
      <4>1. \A v \in journal.own : Projection(v) \subseteq ListVersions
        BY <1>g DEF Journals, Projection
      <4>2. UNION {Projection(v) : v \in journal.own} \subseteq ListVersions
        BY <4>1
      <4> QED
        BY <1>13, <2>2, <4>2 DEF WriteProjection, Typed
    <3> QED
      BY <1>13, <2>2, <3>1 DEF WriteProjection, Goto, genVars, diskVars, memVars, envVars,
         Points, Typed
  <2> QED
    BY <2>1, <2>2
<1>14. CASE RemovePrevious
  <2>1. CASE Fault("box") /\ Interrupted
    BY <2>1, InterruptedTyped
  <2>2. CASE ~ (Fault("box") /\ Interrupted)
    <3>1. boxes' \in SUBSET ListVersions
      <4>1. \A v \in journal.own : Projection(v) \subseteq ListVersions
        BY <1>g DEF Journals, Projection
      <4>2. UNION {Projection(v) : v \in journal.own} \subseteq ListVersions
        BY <4>1
      <4> QED
        BY <1>14, <2>2, <4>2 DEF RemovePrevious, Typed
    <3> QED
      BY <1>14, <2>2, <3>1 DEF RemovePrevious, Goto, genVars, diskVars, memVars, envVars,
         Points, Typed
  <2> QED
    BY <2>1, <2>2
<1>15. CASE PhaseProjection
  BY <1>15, <1>g, ConstantsTyped DEF PhaseProjection, Goto, genVars, diskVars, memVars, envVars,
     Points, Journals, Absent, Staging, ReadyToPublish, DatabaseVerified,
     DeviceManifestPublished, RockboxProjectionsPrepared, PlaylistOwnershipPublished,
     RockboxProjectionsPublished, CleanupComplete, RollbackComplete, Typed
<1>16. CASE RecordProjection
  <2>1. journal' \in Journals /\ exp' \in Generations
    BY <1>16, <1>g, VerifiedTyped DEF RecordProjection, RecordVerified, Typed
  <2> QED
    BY <1>16, <2>1 DEF RecordProjection, Goto, genVars, diskVars, memVars, envVars, Points, Typed
<1>17. CASE AuthorityFence
  BY <1>17, FenceTyped DEF AuthorityFence, Points
<1>18. CASE WriteAuthority
  BY <1>18, <1>g, ConstantsTyped DEF WriteAuthority, Goto, diskVars, memVars, envVars, Points,
     Typed
<1>19. CASE RecordAuthority
  <2>1. journal' \in Journals /\ exp' \in Generations
    BY <1>19, <1>g, VerifiedTyped DEF RecordAuthority, RecordVerified, Typed
  <2> QED
    BY <1>19, <2>1 DEF RecordAuthority, Goto, genVars, diskVars, memVars, envVars, Points, Typed
<1> QED
  BY <1>1, <1>2, <1>3, <1>4, <1>5, <1>6, <1>7, <1>8, <1>9, <1>10, <1>11, <1>12, <1>13, <1>14,
     <1>15, <1>16, <1>17, <1>18, <1>19 DEF Finalize

\* Cleanup of a completed journal keeps the types.
LEMMA TypeCleanup == Typed /\ Cleanup => Typed'
<1> SUFFICES ASSUME Typed, Cleanup PROVE Typed'
  OBVIOUS
<1>g. Gen \in Generations /\ journal \in Journals
  BY GenType DEF Typed
<1>1. CASE CleanStaged
  BY <1>1, <1>g, ConstantsTyped DEF CleanStaged, Unreferenced, Goto, genVars, memVars, envVars,
     Points, Typed
<1>2. CASE RemoveObsolete
  BY <1>2, <1>g, ConstantsTyped DEF RemoveObsolete, Unreferenced, Goto, genVars, memVars,
     envVars, Points, Typed
<1>3. CASE SaveCleanup
  BY <1>3, <1>g, ConstantsTyped DEF SaveCleanup, Goto, genVars, diskVars, memVars, envVars,
     Points, Journals, Absent, Staging, ReadyToPublish, DatabaseVerified,
     DeviceManifestPublished, RockboxProjectionsPrepared, PlaylistOwnershipPublished,
     RockboxProjectionsPublished, CleanupComplete, RollbackComplete, Typed
<1>4. CASE RemoveStagedDir
  <2>1. CASE \E o \in Outcomes : Fail(o)
    BY <2>1, FailTyped
  <2>2. CASE ~ \E o \in Outcomes : Fail(o)
    BY <1>4, <2>2 DEF RemoveStagedDir, Goto, genVars, diskVars, memVars, envVars, Points,
       Causes, Outcomes, Typed
  <2> QED
    BY <2>1, <2>2
<1>5. CASE RemoveSnapshot
  <2>1. CASE \E o \in Outcomes : Fail(o)
    BY <2>1, FailTyped
  <2>2. CASE ~ \E o \in Outcomes : Fail(o)
    BY <1>5, <2>2 DEF RemoveSnapshot, Snapshots, Goto, genVars, diskVars, memVars, envVars,
       Points, Causes, Outcomes, Typed
  <2> QED
    BY <2>1, <2>2
<1>6. CASE EmptySnapshot
  BY <1>6, <1>g, ConstantsTyped DEF EmptySnapshot, Goto, genVars, memVars, envVars, Points,
     Snapshots, Typed
<1>7. CASE RemoveJournal
  BY <1>7, <1>g, ConstantsTyped DEF RemoveJournal, NoJournal, NoWork, Goto, genVars, diskVars,
     envVars, Points, Causes, Journals, Absent, Staging, ReadyToPublish, DatabaseVerified,
     DeviceManifestPublished, RockboxProjectionsPrepared, PlaylistOwnershipPublished,
     RockboxProjectionsPublished, CleanupComplete, RollbackComplete, WorkKinds, Typed
<1> QED
  BY <1>1, <1>2, <1>3, <1>4, <1>5, <1>6, <1>7 DEF Cleanup

\* Restoring the snapshot keeps the types.
LEMMA TypeRollback == Typed /\ Rollback => Typed'
<1> SUFFICES ASSUME Typed, Rollback PROVE Typed'
  OBVIOUS
<1>g. Gen \in Generations /\ journal \in Journals
  BY GenType DEF Typed
<1>1. CASE KnownRollback
  <2>1. CASE \E o \in Outcomes : Fail(o)
    BY <2>1, FailTyped
  <2>2. CASE ~ \E o \in Outcomes : Fail(o)
    BY <1>1, <2>2 DEF KnownRollback, Goto, genVars, diskVars, memVars, envVars, Points, Causes,
       Outcomes, Typed
  <2> QED
    BY <2>1, <2>2
<1>2. CASE RestoreClear
  <2>1. CASE \E o \in Outcomes : Fail(o)
    BY <2>1, FailTyped
  <2>2. CASE ~ \E o \in Outcomes : Fail(o)
    BY <1>2, <2>2 DEF RestoreClear, Snapshots, Goto, genVars, diskVars, memVars, envVars,
       Points, Causes, Outcomes, Typed
  <2> QED
    BY <2>1, <2>2
<1>3. CASE RestoreArtwork
  BY <1>3, <1>g, ConstantsTyped DEF RestoreArtwork, Goto, diskVars, memVars, envVars, Points,
     Snapshots, Typed
<1>4. CASE RestoreDatabase
  BY <1>4, <1>g, ConstantsTyped DEF RestoreDatabase, Goto, diskVars, memVars, envVars, Points,
     Snapshots, Typed
<1>5. CASE \E f \in Tracks : RestoreStaged(f)
  BY <1>5, <1>g, ConstantsTyped DEF RestoreStaged, Goto, genVars, memVars, envVars, Points, Typed
<1>6. CASE ResumeRestored
  BY <1>6, <1>g, ConstantsTyped DEF ResumeRestored, Reset, Goto, genVars, diskVars, memVars,
     envVars, Points, Causes, Journals, Absent, Staging, ReadyToPublish, DatabaseVerified,
     DeviceManifestPublished, RockboxProjectionsPrepared, PlaylistOwnershipPublished,
     RockboxProjectionsPublished, CleanupComplete, RollbackComplete, Typed
<1>7. CASE UndoneRollback
  <2>1. journal' \in Journals /\ exp' \in Generations
    <3>1. ReadyToPublish \in Absent .. RollbackComplete
      BY PhaseRange DEF ReadyToPublish
    <3> QED
      BY <1>7, <1>g, <3>1, ResetTyped DEF UndoneRollback
  <2> QED
    BY <1>7, <2>1 DEF UndoneRollback, Goto, genVars, diskVars, memVars, envVars, Points, Causes,
       Typed
<1>8. CASE MovedBack
  BY <1>8, <1>g, ConstantsTyped DEF MovedBack, Goto, genVars, diskVars, memVars, envVars,
     Points, Typed
<1>9. CASE DropStaged
  BY <1>9, <1>g, ConstantsTyped DEF DropStaged, Unreferenced, Goto, genVars, memVars, envVars,
     Points, Typed
<1>10. CASE RestoreManifest
  <2>1. CASE \E o \in Outcomes : Fail(o)
    BY <2>1, FailTyped
  <2>2. CASE ~ \E o \in Outcomes : Fail(o)
    BY <1>10, <2>2 DEF RestoreManifest, Journals, Goto, genVars, diskVars, memVars, envVars,
       Points, Causes, Outcomes, Typed
  <2> QED
    BY <2>1, <2>2
<1>11. CASE FinishRollback
  <2> DEFINE r == IF why = "retry" THEN [Reset(journal) EXCEPT !.phase = ReadyToPublish,
     !.published = {}, !.verified = {}]
                              ELSE [journal EXCEPT !.phase = RollbackComplete, !.published = {},
                                 !.verified = {Gen}]
  <2>1. r \in Journals
    <3>1. CASE why = "retry"
      <4>1. ReadyToPublish \in Absent .. RollbackComplete
        BY PhaseRange DEF ReadyToPublish
      <4> QED
        BY <3>1, <4>1, <1>g, ResetTyped
    <3>2. CASE why # "retry"
      <4>1. RollbackComplete \in Absent .. RollbackComplete
        BY PhaseRange DEF RollbackComplete
      <4> QED
        BY <3>2, <4>1, <1>g DEF Journals
    <3> QED
      BY <3>1, <3>2
  <2>2. CASE Fail("blocked")
    BY <2>2, FailTyped DEF Outcomes
  <2>3. CASE \E o \in Outcomes : journal' = r /\ End(o) /\ UNCHANGED <<genVars, diskVars,
     envVars>>
    BY <2>1, <2>3, EndTyped DEF Typed, genVars, diskVars, envVars
  <2>4. CASE journal' = r /\ exp' = Gen /\ Goto("rmstaged") /\ UNCHANGED <<genVars, diskVars,
     memVars, why>>
    BY <2>1, <2>4, <1>g DEF Goto, Points, Typed, genVars, diskVars, memVars, envVars
  <2> HIDE DEF r
  <2> QED
    BY <1>11, <2>2, <2>3, <2>4 DEF FinishRollback, Outcomes, r
<1> QED
  BY <1>1, <1>2, <1>3, <1>4, <1>5, <1>6, <1>7, <1>8, <1>9, <1>10, <1>11 DEF Rollback

\* A step of the environment (an edit, a crash, the start or end of a sync)
\* keeps the types.
LEMMA TypeEnvironment == Typed /\ Environment => Typed'
<1> SUFFICES ASSUME Typed, Environment PROVE Typed'
  OBVIOUS
<1>g. Gen \in Generations /\ journal \in Journals
  BY GenType DEF Typed
<1>1. CASE ForeignWrite
  BY <1>1, <1>g, ConstantsTyped DEF ForeignWrite, diskVars, memVars, Databases, Typed
<1>2. CASE FirmwareNormalize
  BY <1>2, <1>g, ConstantsTyped DEF FirmwareNormalize, Fault, diskVars, memVars, Typed
<1>3. CASE LoseStaged
  BY <1>3, <1>g, ConstantsTyped DEF LoseStaged, Fault, genVars, memVars, Typed
<1>4. CASE Crash
  BY <1>4, <1>g, ConstantsTyped DEF Crash, End, genVars, Points, Causes, Outcomes, WorkKinds,
     NoWork, Typed
<1>5. CASE StopAdmission
  BY <1>5, <1>g, ConstantsTyped DEF StopAdmission, Goto, genVars, diskVars, envVars, Points,
     WorkKinds, Typed
<1>6. CASE EndSession
  BY <1>6, <1>g, ConstantsTyped DEF EndSession, Fail, End, genVars, diskVars, envVars, Points,
     Causes, Outcomes, WorkKinds, NoWork, Typed
<1>7. CASE \E w \in Works : BeginSync(w)
  <2> SUFFICES ASSUME NEW w \in Works, BeginSync(w) PROVE Typed'
    BY <1>7
  <2>1. work' \in WorkKinds /\ want' \in SUBSET ListVersions
    BY ConstantsTyped DEF BeginSync, WorkKinds
  <2>2. syncs' \in 0..MaxSyncs
    BY ConstantsTyped DEF BeginSync, Typed
  <2> QED
    BY <2>1, <2>2 DEF BeginSync, Typed, genVars, diskVars, Points, Causes
<1> QED
  BY <1>1, <1>2, <1>3, <1>4, <1>5, <1>6, <1>7 DEF Environment

\* Every initial state is well typed.
LEMMA TypeInit == Init => Typed
<1> SUFFICES ASSUME Init PROVE Typed
  OBVIOUS
<1>1. /\ db \in Databases /\ art \in SUBSET Tracks /\ manifest \in Contents /\ profile \in Contents
      /\ owner \in ListVersions /\ boxes \in SUBSET ListVersions
  BY ConstantsTyped DEF Init, Databases, Contents
<1>2. Gen \in Generations
  BY <1>1 DEF Gen, Generations
<1>3. journal \in Journals
  BY DEF Init, Journals, NoJournal, Absent, RollbackComplete
<1>4. snap \in Snapshots
  BY <1>1 DEF Init, Snapshots
<1>5. work \in WorkKinds
  BY DEF Init, NoWork, WorkKinds
<1> QED
  BY <1>1, <1>2, <1>3, <1>4, <1>5, ConstantsTyped DEF Init, Typed, Points, Causes, Outcomes

\* Acquiring the lease keeps the types.
LEMMA TypeAcquire == Typed /\ Acquire => Typed'
  BY GenType, ConstantsTyped
  DEF Typed, Acquire, Points, Outcomes, genVars, diskVars, envVars

\* Every step, or stutter, keeps the types: the actions taken together.
LEMMA TypeStep == Typed /\ [Next]_vars => Typed'
<1>1. Typed /\ UNCHANGED vars => Typed'
  BY DEF Typed, vars, genVars, diskVars, memVars, envVars
<1> QED
  BY <1>1, TypeRecovery, TypeStaged, TypePublish, TypeFinalize, TypeCleanup, TypeRollback,
     TypeEnvironment, TypeAcquire
  DEF Next, Session

\* The transaction is well typed at all times.
LEMMA TypedAlways == Spec => []Typed
<1> QED
  BY TypeInit, TypeStep, PTL DEF Spec

\* A step of recovery keeps the records of the staged files in order.
LEMMA FilledRecovery == TypeOK /\ Recovery => RecordsFilled'
<1> SUFFICES ASSUME TypeOK, Recovery PROVE RecordsFilled'
  OBVIOUS
<1>g. journal \in Journals
  BY DEF TypeOK, Typed
<1>1. CASE RecoverUndone
  BY <1>1, <1>g DEF RecoverUndone, Goto, genVars, diskVars, memVars, Journals, TypeOK,
     RecordsFilled
<1>2. CASE RecoverStaging
  BY <1>2, <1>g DEF RecoverStaging, Goto, genVars, memVars, Journals, TypeOK, RecordsFilled
<1>3. CASE SaveAbandoned
  BY <1>3, <1>g DEF SaveAbandoned, Abandoned, Goto, Fail, genVars, diskVars, memVars, End,
     envVars, Journals, TypeOK, RecordsFilled
<1>4. CASE RemoveAbandonedDir
  BY <1>4, <1>g DEF RemoveAbandonedDir, Goto, genVars, memVars, Journals, TypeOK, RecordsFilled
<1>5. CASE RecoverFirmware
  BY <1>5, <1>g DEF RecoverFirmware, Goto, genVars, diskVars, memVars, Journals, TypeOK,
     RecordsFilled
<1>6. CASE RecoverLost
  BY <1>6, <1>g DEF RecoverLost, Goto, Fail, genVars, diskVars, memVars, End, envVars, Journals,
     TypeOK, RecordsFilled
<1>7. CASE RecoverPublish
  BY <1>7, <1>g DEF RecoverPublish, Goto, genVars, diskVars, memVars, Journals, TypeOK,
     RecordsFilled
<1> QED
  BY <1>1, <1>2, <1>3, <1>4, <1>5, <1>6, <1>7 DEF Recovery

\* A step of staging keeps the records of the staged files in order.
LEMMA FilledStaged == TypeOK /\ Staged => RecordsFilled'
<1> SUFFICES ASSUME TypeOK, Staged PROVE RecordsFilled'
  OBVIOUS
<1>g. journal \in Journals
  BY DEF TypeOK, Typed
<1>1. CASE \E f \in Tracks : StageFile(f)
  BY <1>1, <1>g DEF StageFile, Goto, genVars, memVars, Journals, TypeOK, RecordsFilled
<1>2. CASE SaveAlbum
  BY <1>2, <1>g DEF SaveAlbum, Goto, NewJournal, genVars, diskVars, memVars, NoJournal,
     Journals, TypeOK, RecordsFilled
<1>3. CASE FinishStaging
  BY <1>3, <1>g DEF FinishStaging, Goto, genVars, diskVars, memVars, Journals, TypeOK,
     RecordsFilled
<1> QED
  BY <1>1, <1>2, <1>3 DEF Staged

\* A step of publication keeps the records of the staged files in order.
LEMMA FilledPublish == TypeOK /\ Publish => RecordsFilled'
<1> SUFFICES ASSUME TypeOK, Publish PROVE RecordsFilled'
  OBVIOUS
<1>g. journal \in Journals
  BY DEF TypeOK, Typed
<1>1. CASE PublishFence
  BY <1>1, <1>g DEF PublishFence, Fence, Fail, End, genVars, diskVars, envVars, Goto, memVars,
     Journals, TypeOK, RecordsFilled
<1>2. CASE Prepare
  BY <1>2, <1>g DEF Prepare, Goto, Fail, NewJournal, genVars, diskVars, memVars, End, envVars,
     NoJournal, Journals, TypeOK, RecordsFilled
<1>3. CASE PrepareArtwork
  BY <1>3, <1>g DEF PrepareArtwork, Goto, End, Fault, genVars, diskVars, memVars, Journals,
     TypeOK, RecordsFilled
<1>4. CASE EnsurePreimage
  BY <1>4, <1>g DEF EnsurePreimage, Goto, Fail, genVars, diskVars, memVars, End, envVars,
     Journals, TypeOK, RecordsFilled
<1>5. CASE EnsureSnapshot
  BY <1>5, <1>g DEF EnsureSnapshot, Goto, Fail, genVars, diskVars, memVars, End, envVars,
     Journals, TypeOK, RecordsFilled
<1>6. CASE FillSnapshot
  BY <1>6, <1>g DEF FillSnapshot, Goto, genVars, memVars, Journals, TypeOK, RecordsFilled
<1>7. CASE Dispatch
  BY <1>7, <1>g DEF Dispatch, Goto, genVars, diskVars, memVars, Journals, TypeOK, RecordsFilled
<1>8. CASE ResumeCandidate
  BY <1>8, <1>g DEF ResumeCandidate, RecordVerified, Goto, genVars, diskVars, memVars, Journals,
     TypeOK, RecordsFilled
<1>9. CASE OpenDatabase
  BY <1>9, <1>g DEF OpenDatabase, Goto, genVars, diskVars, Journals, TypeOK, RecordsFilled
<1>10. CASE \E f \in Tracks : ReserveFinal(f)
  BY <1>10, <1>g DEF ReserveFinal, Goto, genVars, diskVars, Journals, TypeOK, RecordsFilled
<1>11. CASE MoveStaged
  BY <1>11, <1>g DEF MoveStaged, Goto, genVars, memVars, Journals, TypeOK, RecordsFilled
<1>12. CASE RecordAdded
  BY <1>12, <1>g DEF RecordAdded, Goto, genVars, diskVars, Journals, TypeOK, RecordsFilled
<1>13. CASE UpdateMetadata
  BY <1>13, <1>g DEF UpdateMetadata, Goto, genVars, diskVars, Journals, TypeOK, RecordsFilled
<1>14. CASE ReconcileCandidate
  BY <1>14, <1>g DEF ReconcileCandidate, Goto, Fault, genVars, diskVars, memVars, Journals,
     TypeOK, RecordsFilled
<1>15. CASE DatabaseFence
  BY <1>15, <1>g DEF DatabaseFence, Fence, Fail, End, genVars, diskVars, envVars, Goto, memVars,
     Journals, TypeOK, RecordsFilled
<1>16. CASE ClearArtwork
  BY <1>16, <1>g DEF ClearArtwork, Goto, diskVars, memVars, Journals, TypeOK, RecordsFilled
<1>17. CASE WriteArtwork
  BY <1>17, <1>g DEF WriteArtwork, WriteFault, RecordPublished, Goto, diskVars, memVars, Journals, TypeOK,
     RecordsFilled
<1>18. CASE WriteDatabase
  BY <1>18, <1>g DEF WriteDatabase, WriteFault, RecordPublished, Goto, diskVars, memVars, Journals, TypeOK,
     RecordsFilled
<1>19. CASE RecordWritten
  BY <1>19, <1>g DEF RecordWritten, RecordPublished, Goto, genVars, diskVars, memVars, Journals,
     TypeOK, RecordsFilled
<1>20. CASE VerifyWritten
  BY <1>20, <1>g DEF VerifyWritten, RecordVerified, Goto, Mismatch, genVars, diskVars, memVars,
     Fail, End, envVars, Journals, TypeOK, RecordsFilled
<1> QED
  BY <1>1, <1>2, <1>3, <1>4, <1>5, <1>6, <1>7, <1>8, <1>9, <1>10, <1>11, <1>12, <1>13, <1>14,
     <1>15, <1>16, <1>17, <1>18, <1>19, <1>20 DEF Publish

\* A step of finalization keeps the records of the staged files in order.
LEMMA FilledFinalize == TypeOK /\ Finalize => RecordsFilled'
<1> SUFFICES ASSUME TypeOK, Finalize PROVE RecordsFilled'
  OBVIOUS
<1>g. journal \in Journals
  BY DEF TypeOK, Typed
<1>1. CASE CheckVerified
  BY <1>1, <1>g DEF CheckVerified, Goto, Mismatch, genVars, diskVars, memVars, Fail, End,
     envVars, Journals, TypeOK, RecordsFilled
<1>2. CASE ManifestFence
  BY <1>2, <1>g DEF ManifestFence, Fence, Fail, End, genVars, diskVars, envVars, Goto, memVars,
     Journals, TypeOK, RecordsFilled
<1>3. CASE WriteManifest
  BY <1>3, <1>g DEF WriteManifest, Goto, Fault, genVars, diskVars, memVars, Journals, TypeOK,
     RecordsFilled
<1>4. CASE RecordManifest
  BY <1>4, <1>g DEF RecordManifest, RecordVerified, Goto, genVars, diskVars, memVars, Journals,
     TypeOK, RecordsFilled
<1>5. CASE Reverify
  BY <1>5, <1>g DEF Reverify, Goto, Mismatch, genVars, diskVars, memVars, Fail, End, envVars,
     Journals, TypeOK, RecordsFilled
<1>6. CASE PlanFence
  BY <1>6, <1>g DEF PlanFence, Fence, Fail, End, genVars, diskVars, envVars, Goto, memVars,
     Journals, TypeOK, RecordsFilled
<1>7. CASE PlanProjections
  BY <1>7, <1>g DEF PlanProjections, RecordVerified, Goto, Fail, genVars, diskVars, memVars,
     End, envVars, Journals, TypeOK, RecordsFilled
<1>8. CASE OwnershipFence
  BY <1>8, <1>g DEF OwnershipFence, Fence, Fail, End, genVars, diskVars, envVars, Goto, memVars,
     Journals, TypeOK, RecordsFilled
<1>9. CASE WriteOwnership
  BY <1>9, <1>g DEF WriteOwnership, Goto, Fault, Interrupted, diskVars, memVars, Fail, End,
     genVars, envVars, Journals, TypeOK, RecordsFilled
<1>10. CASE PhaseOwnership
  BY <1>10, <1>g DEF PhaseOwnership, Goto, genVars, diskVars, memVars, Journals, TypeOK,
     RecordsFilled
<1>11. CASE RecordOwnership
  BY <1>11, <1>g DEF RecordOwnership, RecordVerified, Goto, genVars, diskVars, memVars,
     Journals, TypeOK, RecordsFilled
<1>12. CASE ProjectionFence
  BY <1>12, <1>g DEF ProjectionFence, Fence, Fail, End, genVars, diskVars, envVars, Goto,
     memVars, Journals, TypeOK, RecordsFilled
<1>13. CASE WriteProjection
  BY <1>13, <1>g DEF WriteProjection, Goto, Fault, Interrupted, diskVars, memVars, Fail, End,
     genVars, envVars, Journals, TypeOK, RecordsFilled
<1>14. CASE RemovePrevious
  BY <1>14, <1>g DEF RemovePrevious, Goto, Fault, Interrupted, diskVars, memVars, Fail, End,
     genVars, envVars, Journals, TypeOK, RecordsFilled
<1>15. CASE PhaseProjection
  BY <1>15, <1>g DEF PhaseProjection, Goto, genVars, diskVars, memVars, Journals, TypeOK,
     RecordsFilled
<1>16. CASE RecordProjection
  BY <1>16, <1>g DEF RecordProjection, RecordVerified, Goto, genVars, diskVars, memVars,
     Journals, TypeOK, RecordsFilled
<1>17. CASE AuthorityFence
  BY <1>17, <1>g DEF AuthorityFence, Fence, Fail, End, genVars, diskVars, envVars, Goto,
     memVars, Journals, TypeOK, RecordsFilled
<1>18. CASE WriteAuthority
  BY <1>18, <1>g DEF WriteAuthority, Goto, diskVars, memVars, Journals, TypeOK, RecordsFilled
<1>19. CASE RecordAuthority
  BY <1>19, <1>g DEF RecordAuthority, RecordVerified, Goto, genVars, diskVars, memVars,
     Journals, TypeOK, RecordsFilled
<1> QED
  BY <1>1, <1>2, <1>3, <1>4, <1>5, <1>6, <1>7, <1>8, <1>9, <1>10, <1>11, <1>12, <1>13, <1>14,
     <1>15, <1>16, <1>17, <1>18, <1>19 DEF Finalize

\* A step of cleanup keeps the records of the staged files in order.
LEMMA FilledCleanup == TypeOK /\ Cleanup => RecordsFilled'
<1> SUFFICES ASSUME TypeOK, Cleanup PROVE RecordsFilled'
  OBVIOUS
<1>g. journal \in Journals
  BY DEF TypeOK, Typed
<1>1. CASE CleanStaged
  BY <1>1, <1>g DEF CleanStaged, Goto, genVars, memVars, Journals, TypeOK, RecordsFilled
<1>2. CASE RemoveObsolete
  BY <1>2, <1>g DEF RemoveObsolete, Goto, genVars, memVars, Journals, TypeOK, RecordsFilled
<1>3. CASE SaveCleanup
  BY <1>3, <1>g DEF SaveCleanup, Goto, genVars, diskVars, memVars, Journals, TypeOK,
     RecordsFilled
<1>4. CASE RemoveStagedDir
  BY <1>4, <1>g DEF RemoveStagedDir, Goto, Fail, genVars, diskVars, memVars, End, envVars,
     Journals, TypeOK, RecordsFilled
<1>5. CASE RemoveSnapshot
  BY <1>5, <1>g DEF RemoveSnapshot, Goto, Fail, genVars, diskVars, memVars, End, envVars,
     Journals, TypeOK, RecordsFilled
<1>6. CASE EmptySnapshot
  BY <1>6, <1>g DEF EmptySnapshot, Goto, genVars, memVars, Journals, TypeOK, RecordsFilled
<1>7. CASE RemoveJournal
  BY <1>7, <1>g DEF RemoveJournal, Goto, NoJournal, genVars, diskVars, Journals, TypeOK,
     RecordsFilled
<1> QED
  BY <1>1, <1>2, <1>3, <1>4, <1>5, <1>6, <1>7 DEF Cleanup

\* A step of rollback keeps the records of the staged files in order.
LEMMA FilledRollback == TypeOK /\ Rollback => RecordsFilled'
<1> SUFFICES ASSUME TypeOK, Rollback PROVE RecordsFilled'
  OBVIOUS
<1>g. journal \in Journals
  BY DEF TypeOK, Typed
<1>1. CASE KnownRollback
  BY <1>1, <1>g DEF KnownRollback, Goto, Fail, genVars, diskVars, memVars, End, envVars,
     Journals, TypeOK, RecordsFilled
<1>2. CASE RestoreClear
  BY <1>2, <1>g DEF RestoreClear, Goto, Fail, diskVars, memVars, End, genVars, envVars,
     Journals, TypeOK, RecordsFilled
<1>3. CASE RestoreArtwork
  BY <1>3, <1>g DEF RestoreArtwork, Goto, diskVars, memVars, Journals, TypeOK, RecordsFilled
<1>4. CASE RestoreDatabase
  BY <1>4, <1>g DEF RestoreDatabase, Goto, diskVars, memVars, Journals, TypeOK, RecordsFilled
<1>5. CASE \E f \in Tracks : RestoreStaged(f)
  BY <1>5, <1>g DEF RestoreStaged, Goto, genVars, memVars, Journals, TypeOK, RecordsFilled
<1>6. CASE ResumeRestored
  BY <1>6, <1>g DEF ResumeRestored, Goto, Reset, genVars, diskVars, memVars, Journals, TypeOK,
     RecordsFilled
<1>7. CASE UndoneRollback
  BY <1>7, <1>g DEF UndoneRollback, Goto, Reset, genVars, diskVars, memVars, Journals, TypeOK,
     RecordsFilled
<1>8. CASE MovedBack
  BY <1>8, <1>g DEF MovedBack, Goto, genVars, diskVars, memVars, Journals, TypeOK, RecordsFilled
<1>9. CASE DropStaged
  BY <1>9, <1>g DEF DropStaged, Goto, genVars, memVars, Journals, TypeOK, RecordsFilled
<1>10. CASE RestoreManifest
  BY <1>10, <1>g DEF RestoreManifest, Goto, Fail, diskVars, memVars, End, genVars, envVars,
     Journals, TypeOK, RecordsFilled
<1>11. CASE FinishRollback
  BY <1>11, <1>g DEF FinishRollback, Goto, Fail, End, Reset, genVars, diskVars, memVars,
     envVars, Journals, TypeOK, RecordsFilled
<1> QED
  BY <1>1, <1>2, <1>3, <1>4, <1>5, <1>6, <1>7, <1>8, <1>9, <1>10, <1>11 DEF Rollback

\* A step of the environment keeps the records of the staged files in order.
LEMMA FilledEnvironment == TypeOK /\ Environment => RecordsFilled'
<1> SUFFICES ASSUME TypeOK, Environment PROVE RecordsFilled'
  OBVIOUS
<1>g. journal \in Journals
  BY DEF TypeOK, Typed
<1>1. CASE ForeignWrite
  BY <1>1, <1>g DEF ForeignWrite, diskVars, memVars, Journals, TypeOK, RecordsFilled
<1>2. CASE FirmwareNormalize
  BY <1>2, <1>g DEF FirmwareNormalize, Fault, diskVars, memVars, Journals, TypeOK, RecordsFilled
<1>3. CASE LoseStaged
  BY <1>3, <1>g DEF LoseStaged, Fault, genVars, memVars, Journals, TypeOK, RecordsFilled
<1>4. CASE Crash
  BY <1>4, <1>g DEF Crash, End, genVars, Journals, TypeOK, RecordsFilled
<1>5. CASE StopAdmission
  BY <1>5, <1>g DEF StopAdmission, Goto, genVars, diskVars, Journals, TypeOK, RecordsFilled
<1>6. CASE EndSession
  BY <1>6, <1>g DEF EndSession, Fail, End, genVars, diskVars, envVars, Journals, TypeOK,
     RecordsFilled
<1>7. CASE \E w \in Works : BeginSync(w)
  BY <1>7, <1>g DEF BeginSync, genVars, diskVars, Journals, TypeOK, RecordsFilled
<1> QED
  BY <1>1, <1>2, <1>3, <1>4, <1>5, <1>6, <1>7 DEF Environment

\* Every step, or stutter, keeps the records of the staged files in order.
LEMMA FilledStep == TypeOK /\ [Next]_vars => RecordsFilled'
<1>1. TypeOK /\ UNCHANGED vars => RecordsFilled'
  BY DEF TypeOK, RecordsFilled, vars, memVars
<1>2. TypeOK /\ Acquire => RecordsFilled'
  BY DEF TypeOK, RecordsFilled, Acquire
<1> QED
  BY <1>1, <1>2, FilledRecovery, FilledStaged, FilledPublish, FilledFinalize, FilledCleanup,
     FilledRollback, FilledEnvironment
  DEF Next, Session

\* Every reachable state of the transaction is well typed, and its journal well
\* formed: no operation writes a journal, snapshot or generation of another shape
\* (PendingSession and the generation records of sync_transaction.rs), and none,
\* no crash and no reset of the publication leaves a staged file with a database
\* id and without its final path.
THEOREM TypeCorrect == Spec => []TypeOK
<1>1. Init => TypeOK
  BY TypeInit DEF Init, NoJournal, TypeOK, RecordsFilled
<1>2. TypeOK /\ [Next]_vars => TypeOK'
  BY TypeStep, FilledStep DEF TypeOK
<1> QED
  BY <1>1, <1>2, PTL DEF Spec

-----------------------------------------------------------------------------
(* No generation of the device names audio that is not there.                *)

USE DEF IInv, Absent, Staging, ReadyToPublish, DatabaseVerified, DeviceManifestPublished,
  RockboxProjectionsPrepared, PlaylistOwnershipPublished, RockboxProjectionsPublished,
  CleanupComplete, RollbackComplete, Published, WritePoints, VerifiedPoints, LatePoints,
  SetupPoints, RollbackPoints, RemovalPoints, Journals, Snapshots

-----------------------------------------------------------------------------
(* What the operations that build a new journal leave in it.                 *)

SameInputs(j, k) ==
  /\ k.staged = j.staged /\ k.final = j.final /\ k.obsolete = j.obsolete
  /\ k.cand = j.cand /\ k.own = j.own /\ k.pre = j.pre

SameRecords(j, k) ==
  k.before = j.before /\ k.published = j.published /\ k.verified = j.verified

\* What recording a verified generation leaves in the journal.
LEMMA VerifiedIs ==
  ASSUME NEW j \in Journals, RecordVerified(j)
  PROVE  /\ SameInputs(j, journal') /\ journal'.seen = j.seen /\ journal'.phase = j.phase
         /\ journal'.before = j.before /\ journal'.published = {} /\ journal'.verified = {Gen}
  BY DEF RecordVerified, SameInputs

\* What a new journal holds.
LEMMA NewJournalIs ==
  ASSUME NEW s
  PROVE  /\ NewJournal(s).phase = Staging /\ NewJournal(s).staged = s /\ NewJournal(s).final = {}
         /\ NewJournal(s).before = {} /\ NewJournal(s).published = {}
         /\ NewJournal(s).verified = {} /\ NewJournal(s).own = {} /\ NewJournal(s).seen = {}
  BY DEF NewJournal, NoJournal

\* What preparing the journal may change.
LEMMA PrepareIs ==
  ASSUME Typed, Prepare
  PROVE  \/ \E o \in Outcomes : Fail(o)
         \/ /\ UNCHANGED <<genVars, diskVars, memVars, exp, why, out, envVars>>
            /\ pc' = IF journal.phase \in {Absent, Staging} THEN "artwork" ELSE "preimage"
            /\ journal.phase = Absent =>
                 /\ journal'.phase = Staging /\ journal'.before = {Gen}
                 /\ journal'.staged = pending /\ journal'.final = {}
                 /\ journal'.published = {} /\ journal'.verified = {}
                 /\ journal'.own = {} /\ journal'.seen = {}
            /\ journal.phase # Absent =>
                 /\ KnownLive(journal) /\ journal.phase # RollbackComplete
                 /\ SameInputs(journal, journal') /\ journal'.phase = journal.phase
                 /\ journal'.before = (IF journal.before = {} THEN {Gen} ELSE journal.before)
                 /\ journal'.published = journal.published /\ journal'.verified = journal.verified
                 /\ journal'.seen = journal.seen
<1> DEFINE j == IF journal.phase = Absent THEN NewJournal(pending) ELSE journal
<1>1. j \in Journals
  BY NewTyped DEF Typed
<1>2. CASE \E o \in Outcomes : Fail(o)
  BY <1>2
<1>3. CASE ~ \E o \in Outcomes : Fail(o)
  <2>1. /\ journal' = [j EXCEPT !.before = IF @ = {} THEN {Gen} ELSE @]
        /\ KnownLive(j) /\ ~ Terminal(j)
        /\ Goto(IF j.phase = Staging THEN "artwork" ELSE "preimage")
        /\ UNCHANGED <<genVars, diskVars, memVars, exp, why>>
    BY <1>3 DEF Prepare, Outcomes
  <2>2. /\ SameInputs(j, journal') /\ journal'.phase = j.phase /\ journal'.seen = j.seen
        /\ journal'.before = (IF j.before = {} THEN {Gen} ELSE j.before)
        /\ journal'.published = j.published /\ journal'.verified = j.verified
    <3> HIDE DEF j
    <3> QED
      BY <1>1, <2>1 DEF SameInputs
  <2>3. CASE journal.phase = Absent
    <3>1. j = NewJournal(pending)
      BY <2>3
    <3> HIDE DEF j
    <3> QED
      BY <2>1, <2>2, <2>3, <3>1, NewJournalIs DEF SameInputs, Goto
  <2>4. CASE journal.phase # Absent
    <3>1. j = journal
      BY <2>4
    <3> HIDE DEF j
    <3> QED
      BY <2>1, <2>2, <2>4, <3>1 DEF Goto, Terminal
  <2> QED
    BY <2>3, <2>4
<1> QED
  BY <1>2, <1>3

\* The outcomes of looking at a candidate a session left behind.
LEMMA ResumeIs ==
  ASSUME Typed, ResumeCandidate
  PROVE  /\ UNCHANGED <<genVars, diskVars, memVars, out, envVars>>
         /\ \/ pc' = "open" /\ UNCHANGED <<journal, exp, why>>
            \/ /\ pc' = "dbv" /\ journal'.phase = DatabaseVerified
               /\ SameInputs(journal, journal') /\ journal'.before = journal.before
               /\ UNCHANGED why
            \/ pc' = "restore" /\ why' = "resume" /\ UNCHANGED <<journal, exp>>
<1> DEFINE j == [journal EXCEPT !.phase = DatabaseVerified]
<1>1. /\ j \in Journals /\ SameInputs(journal, j)
      /\ j.before = journal.before /\ j.phase = DatabaseVerified
  BY DEF Typed, SameInputs
<1> HIDE DEF j
<1>2. RecordVerified(j) => /\ journal'.phase = DatabaseVerified /\ SameInputs(journal, journal')
                           /\ journal'.before = journal.before
  BY <1>1, VerifiedIs DEF SameInputs
<1> QED
  BY <1>2 DEF ResumeCandidate, Goto, j

\* The outcomes of verifying the written database.
LEMMA VerifyIs ==
  ASSUME Typed, VerifyWritten
  PROVE  /\ UNCHANGED <<genVars, diskVars, memVars, out>>
         /\ \/ /\ pc' = "dbv" /\ journal'.phase = DatabaseVerified
               /\ SameInputs(journal, journal') /\ journal'.before = journal.before
               /\ UNCHANGED why
            \/ pc' = "known" /\ why' = "retry" /\ UNCHANGED journal
<1> DEFINE j == [journal EXCEPT !.phase = DatabaseVerified, !.seen = @ \cup journal.own]
<1>t. journal \in Journals
  BY DEF Typed
<1>1. j \in Journals
  BY <1>t, SeenTyped
<1>2. SameInputs(journal, j) /\ j.before = journal.before /\ j.phase = DatabaseVerified
  BY <1>t DEF SameInputs
<1> HIDE DEF j
<1>3. RecordVerified(j) => /\ journal'.phase = DatabaseVerified /\ SameInputs(journal, journal')
                           /\ journal'.before = journal.before
  BY <1>1, <1>2, VerifiedIs DEF SameInputs
<1> QED
  BY <1>3 DEF VerifyWritten, Mismatch, Goto, j

\* The outcomes of planning the projections.
LEMMA PlanIs ==
  ASSUME Typed, PlanProjections
  PROVE  \/ \E o \in Outcomes : Fail(o)
         \/ /\ UNCHANGED <<genVars, diskVars, memVars, why, out, envVars>>
            /\ pc' = "ownfence" /\ journal'.phase = RockboxProjectionsPrepared
            /\ SameInputs(journal, journal') /\ journal'.before = journal.before
            /\ journal'.seen = journal.seen
            /\ journal'.published = {} /\ journal'.verified = {Gen}
<1> DEFINE j == [journal EXCEPT !.phase = RockboxProjectionsPrepared, !.plan = TRUE]
<1>t. journal \in Journals
  BY DEF Typed
<1>1. j \in Journals
  BY <1>t, PlanTyped
<1>2. /\ SameInputs(journal, j) /\ j.before = journal.before
      /\ j.seen = journal.seen /\ j.phase = RockboxProjectionsPrepared
  BY <1>t DEF SameInputs
<1> HIDE DEF j
<1>3. RecordVerified(j) => /\ journal'.phase = RockboxProjectionsPrepared
                           /\ SameInputs(journal, journal') /\ journal'.before = journal.before
                           /\ journal'.seen = journal.seen
                           /\ journal'.published = {} /\ journal'.verified = {Gen}
  BY <1>1, <1>2, VerifiedIs DEF SameInputs
<1> QED
  BY <1>3 DEF PlanProjections, Goto, Outcomes, j

\* What clearing a candidate keeps.
LEMMA ResetIs ==
  ASSUME NEW j \in Journals
  PROVE  /\ Reset(j).staged = j.staged /\ Reset(j).final = {} /\ Reset(j).phase = j.phase
         /\ Reset(j).own = {} /\ Reset(j).seen = {} /\ Reset(j).cand = {}
         /\ SameRecords(j, Reset(j))
  BY DEF Reset, SameRecords

\* The outcomes of the last step of a rollback.
LEMMA FinishIs ==
  ASSUME Typed, FinishRollback
  PROVE  /\ UNCHANGED <<genVars, diskVars>>
         /\ \/ pc' = "off" /\ UNCHANGED journal
            \/ /\ pc' = "off" /\ journal'.phase \in {ReadyToPublish, RollbackComplete}
               /\ journal'.before = journal.before /\ journal.before = {Gen}
               /\ journal'.staged = journal.staged /\ journal'.final \subseteq journal.final
            \/ /\ pc' = "rmstaged" /\ journal'.phase = RollbackComplete
               /\ journal'.staged = journal.staged /\ journal'.final = journal.final
<1> DEFINE a == [Reset(journal) EXCEPT !.phase = ReadyToPublish, !.published = {}, !.verified = {}]
           b == [journal EXCEPT !.phase = RollbackComplete, !.published = {}, !.verified = {Gen}]
<1>1. /\ a.phase = ReadyToPublish /\ a.before = journal.before
      /\ a.staged = journal.staged /\ a.final = {}
  <2>1. journal \in Journals /\ Reset(journal) \in Journals
    BY ResetTyped DEF Typed
  <2> QED
    BY <2>1, ResetIs DEF SameRecords
<1>2. /\ b.phase = RollbackComplete /\ b.before = journal.before
      /\ b.staged = journal.staged /\ b.final = journal.final
  BY DEF Typed
<1>3. \/ Fail("blocked")
      \/ /\ journal.before = {Gen} /\ UNCHANGED <<genVars, diskVars>>
         /\ pc' = "off" /\ journal' \in {a, b}
      \/ /\ pc' = "rmstaged" /\ journal' = b /\ UNCHANGED <<genVars, diskVars>>
  <2>1. FinishRollback => \/ Fail("blocked")
           \/ /\ journal.before = {Gen} /\ journal' = (IF why = "retry" THEN a ELSE b)
              /\ pc' = "off" /\ UNCHANGED <<genVars, diskVars>>
           \/ /\ journal' = (IF why = "retry" THEN a ELSE b) /\ why = "firmware"
              /\ pc' = "rmstaged" /\ UNCHANGED <<genVars, diskVars>>
    BY DEF FinishRollback, End, Goto
  <2> HIDE DEF a, b
  <2> QED
    BY <2>1
<1> HIDE DEF a, b
<1> QED
  BY <1>1, <1>2, <1>3 DEF Fail, End

-----------------------------------------------------------------------------
(* The recorded generations hold what the journal publishes.                 *)

\* What a journal must hold depends on its candidate, obsolete tracks and
\* playlist only.
LEMMA LiveKept ==
  ASSUME journal'.cand = journal.cand, journal'.obsolete = journal.obsolete,
         journal'.own = journal.own
  PROVE  /\ db' = db /\ art' = art => (LiveHeld' <=> LiveHeld)
         /\ journal'.published \cup journal'.verified
              \subseteq journal.published \cup journal.verified =>
               (RecordsHeld => RecordsHeld')
         /\ journal'.published \cup journal'.verified
              \subseteq journal.published \cup journal.verified \cup {Gen} =>
               (RecordsHeld /\ LiveHeld => RecordsHeld')
         /\ journal'.published \cup journal'.verified \subseteq {Gen} => (LiveHeld => RecordsHeld')
  BY DEF LiveHeld, RecordsHeld, HoldsCandidate, Gen

\* The live files agree with the journal exactly when its two parts do.
LEMMA LiveIsHeld == LiveHeld <=> CandidateHeld /\ PlaylistsHeld
  BY DEF LiveHeld, HoldsCandidate, CandidateHeld, PlaylistsHeld, Gen

-----------------------------------------------------------------------------
(* Every part of the program runs in its phases. *)

\* Recovering the journal a session finds keeps each part of the program to its
\* phases.
LEMMA PhaseRecovery == Typed /\ IInv /\ Recovery => PhaseInv'
<1> SUFFICES ASSUME Typed, IInv, Recovery PROVE PhaseInv'
  OBVIOUS
<1>t. journal \in Journals /\ snap \in Snapshots /\ pc \in Points
  BY DEF Typed
<1>1. CASE RecoverUndone
  BY <1>1, <1>t DEF RecoverUndone, Undone, Goto, genVars, diskVars, memVars, envVars, PhaseInv
<1>2. CASE RecoverStaging
  BY <1>2, <1>t DEF RecoverStaging, Goto, genVars, memVars, envVars, PhaseInv
<1>3. CASE SaveAbandoned
  BY <1>3, <1>t DEF SaveAbandoned, Abandoned, Goto, Fail, End, NoWork, genVars, diskVars,
     memVars, envVars, PhaseInv
<1>4. CASE RemoveAbandonedDir
  BY <1>4, <1>t DEF RemoveAbandonedDir, Goto, genVars, memVars, envVars, PhaseInv
<1>5. CASE RecoverFirmware
  BY <1>5, <1>t DEF RecoverFirmware, Undone, Goto, genVars, diskVars, memVars, envVars, PhaseInv
<1>6. CASE RecoverLost
  BY <1>6, <1>t DEF RecoverLost, Lost, Goto, Fail, End, NoWork, genVars, diskVars, memVars,
     envVars, PhaseInv
<1>7. CASE RecoverPublish
  BY <1>7, <1>t DEF RecoverPublish, Undone, Lost, Goto, genVars, diskVars, memVars, envVars,
     PhaseInv
<1> QED
  BY <1>1, <1>2, <1>3, <1>4, <1>5, <1>6, <1>7 DEF Recovery

\* Staging an album keeps each part of the program to its phases.
LEMMA PhaseStaged == Typed /\ IInv /\ Staged => PhaseInv'
<1> SUFFICES ASSUME Typed, IInv, Staged PROVE PhaseInv'
  OBVIOUS
<1>t. journal \in Journals /\ snap \in Snapshots /\ pc \in Points
  BY DEF Typed
<1>1. CASE \E f \in Tracks : StageFile(f)
  BY <1>1, <1>t DEF StageFile, Goto, genVars, memVars, envVars, PhaseInv
<1>2. CASE SaveAlbum
  BY <1>2, <1>t DEF SaveAlbum, NewJournal, NoJournal, Goto, genVars, diskVars, memVars, envVars,
     PhaseInv
<1>3. CASE FinishStaging
  BY <1>3, <1>t DEF FinishStaging, Goto, genVars, diskVars, memVars, envVars, PhaseInv
<1> QED
  BY <1>1, <1>2, <1>3 DEF Staged

\* Publication up to the verified database keeps each part of the program to its
\* phases.
LEMMA PhasePublish == Typed /\ IInv /\ Publish => PhaseInv'
<1> SUFFICES ASSUME Typed, IInv, Publish PROVE PhaseInv'
  OBVIOUS
<1>t. journal \in Journals /\ snap \in Snapshots /\ pc \in Points
  BY DEF Typed
<1>1. CASE PublishFence
  BY <1>1, <1>t DEF PublishFence, Fence, Goto, Fail, End, NoWork, genVars, diskVars, memVars,
     envVars, PhaseInv
<1>2. CASE Prepare
  BY <1>2, <1>t, PrepareIs DEF Fail, End, PhaseInv, SnapInv, genVars, diskVars, memVars,
     SameInputs, KnownLive
<1>3. CASE PrepareArtwork
  BY <1>3, <1>t DEF PrepareArtwork, Goto, Fault, End, NoWork, genVars, diskVars, memVars,
     envVars, PhaseInv
<1>4. CASE EnsurePreimage
  BY <1>4, <1>t DEF EnsurePreimage, Fail, End, NoWork, Goto, genVars, diskVars, memVars,
     envVars, PhaseInv
<1>5. CASE EnsureSnapshot
  BY <1>5, <1>t DEF EnsureSnapshot, Goto, Fail, End, NoWork, genVars, diskVars, memVars,
     envVars, PhaseInv
<1>6. CASE FillSnapshot
  BY <1>6, <1>t DEF FillSnapshot, Goto, genVars, memVars, envVars, PhaseInv
<1>7. CASE Dispatch
  BY <1>7, <1>t DEF Dispatch, Goto, genVars, diskVars, memVars, envVars, PhaseInv
<1>8. CASE ResumeCandidate
  BY <1>8, <1>t DEF ResumeCandidate, Goto, RecordVerified, genVars, diskVars, memVars, envVars,
     PhaseInv
<1>9. CASE OpenDatabase
  BY <1>9, <1>t DEF OpenDatabase, Goto, genVars, diskVars, envVars, PhaseInv
<1>10. CASE \E f \in Tracks : ReserveFinal(f)
  BY <1>10, <1>t DEF ReserveFinal, Goto, genVars, diskVars, envVars, PhaseInv
<1>11. CASE MoveStaged
  BY <1>11, <1>t DEF MoveStaged, Goto, genVars, memVars, envVars, PhaseInv
<1>12. CASE RecordAdded
  BY <1>12, <1>t DEF RecordAdded, Goto, genVars, diskVars, envVars, PhaseInv
<1>13. CASE UpdateMetadata
  BY <1>13, <1>t DEF UpdateMetadata, Goto, genVars, diskVars, envVars, PhaseInv
<1>14. CASE ReconcileCandidate
  BY <1>14, <1>t DEF ReconcileCandidate, Goto, Fault, genVars, diskVars, memVars, envVars,
     PhaseInv
<1>15. CASE DatabaseFence
  BY <1>15, <1>t DEF DatabaseFence, Fence, Goto, Fail, End, NoWork, genVars, diskVars, memVars,
     envVars, PhaseInv
<1>16. CASE ClearArtwork
  BY <1>16, <1>t DEF ClearArtwork, Goto, diskVars, memVars, envVars, PhaseInv
<1>17. CASE WriteArtwork
  BY <1>17, <1>t DEF WriteArtwork, Goto, WriteFault, Fault, RecordPublished, genVars, diskVars,
     memVars, envVars, PhaseInv
<1>18. CASE WriteDatabase
  BY <1>18, <1>t DEF WriteDatabase, Goto, WriteFault, Fault, RecordPublished, genVars, diskVars,
     memVars, envVars, PhaseInv
<1>19. CASE RecordWritten
  BY <1>19, <1>t DEF RecordWritten, RecordPublished, Goto, genVars, diskVars, memVars, envVars,
     PhaseInv
<1>20. CASE VerifyWritten
  BY <1>20, <1>t DEF VerifyWritten, RecordVerified, Goto, Mismatch, Fault, genVars, diskVars,
     memVars, envVars, PhaseInv
<1> QED
  BY <1>1, <1>2, <1>3, <1>4, <1>5, <1>6, <1>7, <1>8, <1>9, <1>10, <1>11, <1>12, <1>13, <1>14,
     <1>15, <1>16, <1>17, <1>18, <1>19, <1>20 DEF Publish

\* Publication after the verified database keeps each part of the program to its
\* phases.
LEMMA PhaseFinalize == CacheWhole /\ Typed /\ IInv /\ Finalize => PhaseInv'
<1> SUFFICES ASSUME CacheWhole, Typed, IInv, Finalize PROVE PhaseInv'
  OBVIOUS
<1>t. journal \in Journals /\ snap \in Snapshots /\ pc \in Points
  BY DEF Typed
<1>1. CASE CheckVerified
  BY <1>1, <1>t DEF CheckVerified, Goto, Mismatch, Fault, genVars, diskVars, memVars, envVars,
     PhaseInv
<1>2. CASE ManifestFence
  BY <1>2, <1>t DEF ManifestFence, Fence, Goto, Fail, End, NoWork, genVars, diskVars, memVars,
     envVars, PhaseInv
<1>3. CASE WriteManifest
  BY <1>3, <1>t DEF WriteManifest, Goto, Fault, genVars, diskVars, memVars, envVars, PhaseInv
<1>4. CASE RecordManifest
  BY <1>4, <1>t DEF RecordManifest, RecordVerified, Goto, genVars, diskVars, memVars, envVars,
     PhaseInv
<1>5. CASE Reverify
  <2>1. StillHeld
    BY <1>5, <1>t, LiveIsHeld DEF Reverify, StillHeld, PhaseInv, HeldInv
  <2>2. ~ Mismatch(StillHeld, "reverify", "terminal")
    BY <2>1, CacheWhole DEF CacheWhole, Mismatch, Fault
  <2> QED
    BY <1>5, <1>t, <2>2 DEF Reverify, Resumed, Goto, PhaseInv, diskVars, memVars, envVars
<1>6. CASE PlanFence
  BY <1>6, <1>t DEF PlanFence, Fence, Goto, Fail, End, NoWork, genVars, diskVars, memVars,
     envVars, PhaseInv
<1>7. CASE PlanProjections
  BY <1>7, <1>t, PlanIs DEF PlanProjections, Fail, End, PhaseInv, SnapInv, genVars, diskVars,
     memVars
<1>8. CASE OwnershipFence
  BY <1>8, <1>t DEF OwnershipFence, Fence, Goto, Fail, End, NoWork, genVars, diskVars, memVars,
     envVars, PhaseInv
<1>9. CASE WriteOwnership
  BY <1>9, <1>t DEF WriteOwnership, Goto, Fault, Interrupted, End, NoWork, genVars, diskVars,
     memVars, envVars, PhaseInv
<1>10. CASE PhaseOwnership
  BY <1>10, <1>t DEF PhaseOwnership, Goto, genVars, diskVars, memVars, envVars, PhaseInv
<1>11. CASE RecordOwnership
  BY <1>11, <1>t DEF RecordOwnership, RecordVerified, Goto, genVars, diskVars, memVars, envVars,
     PhaseInv
<1>12. CASE ProjectionFence
  BY <1>12, <1>t DEF ProjectionFence, Fence, Goto, Fail, End, NoWork, genVars, diskVars,
     memVars, envVars, PhaseInv
<1>13. CASE WriteProjection
  BY <1>13, <1>t DEF WriteProjection, Goto, Fault, Interrupted, End, NoWork, genVars, diskVars,
     memVars, envVars, PhaseInv
<1>14. CASE RemovePrevious
  BY <1>14, <1>t DEF RemovePrevious, Goto, Fault, Interrupted, End, NoWork, genVars, diskVars,
     memVars, envVars, PhaseInv
<1>15. CASE PhaseProjection
  BY <1>15, <1>t DEF PhaseProjection, Goto, genVars, diskVars, memVars, envVars, PhaseInv
<1>16. CASE RecordProjection
  BY <1>16, <1>t DEF RecordProjection, RecordVerified, Goto, genVars, diskVars, memVars,
     envVars, PhaseInv
<1>17. CASE AuthorityFence
  BY <1>17, <1>t DEF AuthorityFence, Fence, Goto, Fail, End, NoWork, genVars, diskVars, memVars,
     envVars, PhaseInv
<1>18. CASE WriteAuthority
  BY <1>18, <1>t DEF WriteAuthority, Goto, diskVars, memVars, envVars, PhaseInv
<1>19. CASE RecordAuthority
  BY <1>19, <1>t DEF RecordAuthority, RecordVerified, Goto, genVars, diskVars, memVars, envVars,
     PhaseInv
<1> QED
  BY <1>1, <1>2, <1>3, <1>4, <1>5, <1>6, <1>7, <1>8, <1>9, <1>10, <1>11, <1>12, <1>13, <1>14,
     <1>15, <1>16, <1>17, <1>18, <1>19 DEF Finalize

\* Cleanup of a completed journal keeps each part of the program to its phases.
LEMMA PhaseCleanup == Typed /\ IInv /\ Cleanup => PhaseInv'
<1> SUFFICES ASSUME Typed, IInv, Cleanup PROVE PhaseInv'
  OBVIOUS
<1>t. journal \in Journals /\ snap \in Snapshots /\ pc \in Points
  BY DEF Typed
<1>1. CASE CleanStaged
  BY <1>1, <1>t DEF CleanStaged, Goto, genVars, memVars, envVars, PhaseInv
<1>2. CASE RemoveObsolete
  BY <1>2, <1>t DEF RemoveObsolete, Goto, genVars, memVars, envVars, PhaseInv
<1>3. CASE SaveCleanup
  BY <1>3, <1>t DEF SaveCleanup, Goto, genVars, diskVars, memVars, envVars, PhaseInv
<1>4. CASE RemoveStagedDir
  BY <1>4, <1>t DEF RemoveStagedDir, Goto, Fail, End, NoWork, genVars, diskVars, memVars,
     envVars, PhaseInv
<1>5. CASE RemoveSnapshot
  BY <1>5, <1>t DEF RemoveSnapshot, Goto, Fail, End, NoWork, genVars, diskVars, memVars,
     envVars, PhaseInv
<1>6. CASE EmptySnapshot
  BY <1>6, <1>t DEF EmptySnapshot, Goto, genVars, memVars, envVars, PhaseInv
<1>7. CASE RemoveJournal
  BY <1>7, <1>t DEF RemoveJournal, NoJournal, NoWork, Goto, genVars, diskVars, envVars, PhaseInv
<1> QED
  BY <1>1, <1>2, <1>3, <1>4, <1>5, <1>6, <1>7 DEF Cleanup

\* Restoring the snapshot keeps each part of the program to its phases.
LEMMA PhaseRollback == Typed /\ IInv /\ Rollback => PhaseInv'
<1> SUFFICES ASSUME Typed, IInv, Rollback PROVE PhaseInv'
  OBVIOUS
<1>t. journal \in Journals /\ snap \in Snapshots /\ pc \in Points
  BY DEF Typed
<1>1. CASE KnownRollback
  BY <1>1, <1>t DEF KnownRollback, Goto, Fail, End, NoWork, genVars, diskVars, memVars, envVars,
     PhaseInv
<1>2. CASE RestoreClear
  BY <1>2, <1>t DEF RestoreClear, Goto, Fail, End, NoWork, genVars, diskVars, memVars, envVars,
     PhaseInv
<1>3. CASE RestoreArtwork
  BY <1>3, <1>t DEF RestoreArtwork, Goto, diskVars, memVars, envVars, PhaseInv
<1>4. CASE RestoreDatabase
  BY <1>4, <1>t DEF RestoreDatabase, Goto, diskVars, memVars, envVars, PhaseInv
<1>5. CASE \E f \in Tracks : RestoreStaged(f)
  BY <1>5, <1>t DEF RestoreStaged, Preserving, Goto, genVars, memVars, envVars, PhaseInv
<1>6. CASE ResumeRestored
  BY <1>6, <1>t DEF ResumeRestored, Reset, Goto, genVars, diskVars, memVars, envVars, PhaseInv
<1>7. CASE UndoneRollback
  BY <1>7, <1>t DEF UndoneRollback, Reset, Goto, genVars, diskVars, memVars, envVars, PhaseInv
<1>8. CASE MovedBack
  BY <1>8, <1>t DEF MovedBack, Goto, genVars, diskVars, memVars, envVars, PhaseInv
<1>9. CASE DropStaged
  BY <1>9, <1>t DEF DropStaged, Preserving, Goto, genVars, memVars, envVars, PhaseInv
<1>10. CASE RestoreManifest
  BY <1>10, <1>t DEF RestoreManifest, Goto, Fail, End, NoWork, genVars, diskVars, memVars,
     envVars, PhaseInv
<1>11. CASE FinishRollback
  BY <1>11, <1>t DEF FinishRollback, Reset, Fail, End, NoWork, Goto, genVars, diskVars, memVars,
     envVars, PhaseInv
<1> QED
  BY <1>1, <1>2, <1>3, <1>4, <1>5, <1>6, <1>7, <1>8, <1>9, <1>10, <1>11 DEF Rollback

\* A step of the environment (an edit, a crash, the start or end of a sync)
\* keeps each part of the program to its phases.
LEMMA PhaseEnvironment == Typed /\ IInv /\ Environment => PhaseInv'
<1> SUFFICES ASSUME Typed, IInv, Environment PROVE PhaseInv'
  OBVIOUS
<1>t. journal \in Journals /\ snap \in Snapshots /\ pc \in Points
  BY DEF Typed
<1>1. CASE ForeignWrite
  BY <1>1, <1>t DEF ForeignWrite, diskVars, memVars, PhaseInv
<1>2. CASE FirmwareNormalize
  BY <1>2, <1>t DEF FirmwareNormalize, Fault, diskVars, memVars, PhaseInv
<1>3. CASE LoseStaged
  BY <1>3, <1>t DEF LoseStaged, Fault, genVars, memVars, PhaseInv
<1>4. CASE Crash
  BY <1>4, <1>t DEF Crash, End, NoWork, genVars, PhaseInv
<1>5. CASE StopAdmission
  BY <1>5, <1>t DEF StopAdmission, Goto, genVars, diskVars, envVars, PhaseInv
<1>6. CASE EndSession
  BY <1>6, <1>t DEF EndSession, Fail, End, NoWork, genVars, diskVars, envVars, PhaseInv
<1>7. CASE \E w \in Works : BeginSync(w)
  BY <1>7, <1>t DEF BeginSync, genVars, diskVars, PhaseInv
<1> QED
  BY <1>1, <1>2, <1>3, <1>4, <1>5, <1>6, <1>7 DEF Environment

\* Acquiring the lease keeps each part of the program to its phases.
LEMMA PhaseAcquire == Typed /\ IInv /\ Acquire => PhaseInv'
<1> SUFFICES ASSUME Typed, IInv, Acquire PROVE PhaseInv'
  OBVIOUS
<1>t. journal \in Journals /\ snap \in Snapshots /\ pc \in Points
  BY DEF Typed
<1>1. CASE Acquire
  BY <1>1, <1>t DEF Acquire, genVars, diskVars, envVars, PhaseInv
<1> QED
  BY <1>1

-----------------------------------------------------------------------------
(* A step that restores the snapshot finds it whole. *)

\* Recovering the journal a session finds keeps the snapshot a rollback needs.
LEMMA SnapRecovery == Typed /\ IInv /\ Recovery => SnapInv'
<1> SUFFICES ASSUME Typed, IInv, Recovery PROVE SnapInv'
  OBVIOUS
<1>t. journal \in Journals /\ snap \in Snapshots /\ pc \in Points
  BY DEF Typed
<1>1. CASE RecoverUndone
  BY <1>1, <1>t DEF RecoverUndone, Undone, Goto, genVars, diskVars, memVars, envVars, PhaseInv,
     SnapInv
<1>2. CASE RecoverStaging
  BY <1>2, <1>t DEF RecoverStaging, Goto, genVars, memVars, envVars, PhaseInv, SnapInv
<1>3. CASE SaveAbandoned
  BY <1>3, <1>t DEF SaveAbandoned, Abandoned, Goto, Fail, End, NoWork, genVars, diskVars,
     memVars, envVars, PhaseInv, SnapInv
<1>4. CASE RemoveAbandonedDir
  BY <1>4, <1>t DEF RemoveAbandonedDir, Goto, genVars, memVars, envVars, PhaseInv, SnapInv
<1>5. CASE RecoverFirmware
  BY <1>5, <1>t DEF RecoverFirmware, Undone, Goto, genVars, diskVars, memVars, envVars,
     PhaseInv, SnapInv
<1>6. CASE RecoverLost
  BY <1>6, <1>t DEF RecoverLost, Lost, Goto, Fail, End, NoWork, genVars, diskVars, memVars,
     envVars, PhaseInv, SnapInv
<1>7. CASE RecoverPublish
  BY <1>7, <1>t DEF RecoverPublish, Undone, Lost, Goto, genVars, diskVars, memVars, envVars,
     PhaseInv, SnapInv
<1> QED
  BY <1>1, <1>2, <1>3, <1>4, <1>5, <1>6, <1>7 DEF Recovery

\* Staging an album keeps the snapshot a rollback needs.
LEMMA SnapStaged == Typed /\ IInv /\ Staged => SnapInv'
<1> SUFFICES ASSUME Typed, IInv, Staged PROVE SnapInv'
  OBVIOUS
<1>t. journal \in Journals /\ snap \in Snapshots /\ pc \in Points
  BY DEF Typed
<1>1. CASE \E f \in Tracks : StageFile(f)
  BY <1>1, <1>t DEF StageFile, Goto, genVars, memVars, envVars, PhaseInv, SnapInv
<1>2. CASE SaveAlbum
  BY <1>2, <1>t DEF SaveAlbum, NewJournal, NoJournal, Goto, genVars, diskVars, memVars, envVars,
     PhaseInv, SnapInv
<1>3. CASE FinishStaging
  BY <1>3, <1>t DEF FinishStaging, Goto, genVars, diskVars, memVars, envVars, PhaseInv, SnapInv
<1> QED
  BY <1>1, <1>2, <1>3 DEF Staged

\* Publication up to the verified database keeps the snapshot a rollback needs.
LEMMA SnapPublish == Typed /\ IInv /\ Publish => SnapInv'
<1> SUFFICES ASSUME Typed, IInv, Publish PROVE SnapInv'
  OBVIOUS
<1>t. journal \in Journals /\ snap \in Snapshots /\ pc \in Points
  BY DEF Typed
<1>1. CASE PublishFence
  BY <1>1, <1>t DEF PublishFence, Fence, Goto, Fail, End, NoWork, genVars, diskVars, memVars,
     envVars, PhaseInv, SnapInv
<1>2. CASE Prepare
  BY <1>2, <1>t, PrepareIs DEF Fail, End, PhaseInv, SnapInv, genVars, diskVars, memVars,
     SameInputs, KnownLive
<1>3. CASE PrepareArtwork
  BY <1>3, <1>t DEF PrepareArtwork, Goto, Fault, End, NoWork, genVars, diskVars, memVars,
     envVars, PhaseInv, SnapInv
<1>4. CASE EnsurePreimage
  BY <1>4, <1>t DEF EnsurePreimage, Fail, End, NoWork, Goto, genVars, diskVars, memVars,
     envVars, PhaseInv, SnapInv
<1>5. CASE EnsureSnapshot
  BY <1>5, <1>t DEF EnsureSnapshot, Goto, Fail, End, NoWork, genVars, diskVars, memVars,
     envVars, PhaseInv, SnapInv
<1>6. CASE FillSnapshot
  BY <1>6, <1>t DEF FillSnapshot, Goto, genVars, memVars, envVars, PhaseInv, SnapInv
<1>7. CASE Dispatch
  BY <1>7, <1>t DEF Dispatch, Goto, genVars, diskVars, memVars, envVars, PhaseInv, SnapInv
<1>8. CASE ResumeCandidate
  BY <1>8, <1>t, ResumeIs DEF ResumeCandidate, PhaseInv, SnapInv, genVars, diskVars, memVars
<1>9. CASE OpenDatabase
  BY <1>9, <1>t DEF OpenDatabase, Goto, genVars, diskVars, envVars, PhaseInv, SnapInv
<1>10. CASE \E f \in Tracks : ReserveFinal(f)
  BY <1>10, <1>t DEF ReserveFinal, Goto, genVars, diskVars, envVars, PhaseInv, SnapInv
<1>11. CASE MoveStaged
  BY <1>11, <1>t DEF MoveStaged, Goto, genVars, memVars, envVars, PhaseInv, SnapInv
<1>12. CASE RecordAdded
  BY <1>12, <1>t DEF RecordAdded, Goto, genVars, diskVars, envVars, PhaseInv, SnapInv
<1>13. CASE UpdateMetadata
  BY <1>13, <1>t DEF UpdateMetadata, Goto, genVars, diskVars, envVars, PhaseInv, SnapInv
<1>14. CASE ReconcileCandidate
  BY <1>14, <1>t DEF ReconcileCandidate, Goto, Fault, genVars, diskVars, memVars, envVars,
     PhaseInv, SnapInv
<1>15. CASE DatabaseFence
  BY <1>15, <1>t DEF DatabaseFence, Fence, Goto, Fail, End, NoWork, genVars, diskVars, memVars,
     envVars, PhaseInv, SnapInv
<1>16. CASE ClearArtwork
  BY <1>16, <1>t DEF ClearArtwork, Goto, diskVars, memVars, envVars, PhaseInv, SnapInv
<1>17. CASE WriteArtwork
  BY <1>17, <1>t DEF WriteArtwork, Goto, WriteFault, Fault, RecordPublished, genVars, diskVars,
     memVars, envVars, PhaseInv, SnapInv
<1>18. CASE WriteDatabase
  BY <1>18, <1>t DEF WriteDatabase, Goto, WriteFault, Fault, RecordPublished, genVars, diskVars,
     memVars, envVars, PhaseInv, SnapInv
<1>19. CASE RecordWritten
  BY <1>19, <1>t DEF RecordWritten, RecordPublished, Goto, genVars, diskVars, memVars, envVars,
     PhaseInv, SnapInv
<1>20. CASE VerifyWritten
  BY <1>20, <1>t, VerifyIs DEF VerifyWritten, PhaseInv, SnapInv, genVars, diskVars, memVars
<1> QED
  BY <1>1, <1>2, <1>3, <1>4, <1>5, <1>6, <1>7, <1>8, <1>9, <1>10, <1>11, <1>12, <1>13, <1>14,
     <1>15, <1>16, <1>17, <1>18, <1>19, <1>20 DEF Publish

\* Publication after the verified database keeps the snapshot a rollback needs.
LEMMA SnapFinalize == Typed /\ IInv /\ Finalize => SnapInv'
<1> SUFFICES ASSUME Typed, IInv, Finalize PROVE SnapInv'
  OBVIOUS
<1>t. journal \in Journals /\ snap \in Snapshots /\ pc \in Points
  BY DEF Typed
<1>1. CASE CheckVerified
  BY <1>1, <1>t DEF CheckVerified, Goto, Mismatch, Fault, genVars, diskVars, memVars, envVars,
     PhaseInv, SnapInv
<1>2. CASE ManifestFence
  BY <1>2, <1>t DEF ManifestFence, Fence, Goto, Fail, End, NoWork, genVars, diskVars, memVars,
     envVars, PhaseInv, SnapInv
<1>3. CASE WriteManifest
  BY <1>3, <1>t DEF WriteManifest, Goto, Fault, genVars, diskVars, memVars, envVars, PhaseInv,
     SnapInv
<1>4. CASE RecordManifest
  BY <1>4, <1>t DEF RecordManifest, RecordVerified, Goto, genVars, diskVars, memVars, envVars,
     PhaseInv, SnapInv
<1>5. CASE Reverify
  BY <1>5, <1>t DEF Reverify, Goto, Resumed, Mismatch, Fault, genVars, diskVars, memVars,
     envVars, PhaseInv, SnapInv
<1>6. CASE PlanFence
  BY <1>6, <1>t DEF PlanFence, Fence, Goto, Fail, End, NoWork, genVars, diskVars, memVars,
     envVars, PhaseInv, SnapInv
<1>7. CASE PlanProjections
  BY <1>7, <1>t, PlanIs DEF PlanProjections, Fail, End, PhaseInv, SnapInv, genVars, diskVars,
     memVars
<1>8. CASE OwnershipFence
  BY <1>8, <1>t DEF OwnershipFence, Fence, Goto, Fail, End, NoWork, genVars, diskVars, memVars,
     envVars, PhaseInv, SnapInv
<1>9. CASE WriteOwnership
  BY <1>9, <1>t DEF WriteOwnership, Goto, Fault, Interrupted, End, NoWork, genVars, diskVars,
     memVars, envVars, PhaseInv, SnapInv
<1>10. CASE PhaseOwnership
  BY <1>10, <1>t DEF PhaseOwnership, Goto, genVars, diskVars, memVars, envVars, PhaseInv, SnapInv
<1>11. CASE RecordOwnership
  BY <1>11, <1>t DEF RecordOwnership, RecordVerified, Goto, genVars, diskVars, memVars, envVars,
     PhaseInv, SnapInv
<1>12. CASE ProjectionFence
  BY <1>12, <1>t DEF ProjectionFence, Fence, Goto, Fail, End, NoWork, genVars, diskVars,
     memVars, envVars, PhaseInv, SnapInv
<1>13. CASE WriteProjection
  BY <1>13, <1>t DEF WriteProjection, Goto, Fault, Interrupted, End, NoWork, genVars, diskVars,
     memVars, envVars, PhaseInv, SnapInv
<1>14. CASE RemovePrevious
  BY <1>14, <1>t DEF RemovePrevious, Goto, Fault, Interrupted, End, NoWork, genVars, diskVars,
     memVars, envVars, PhaseInv, SnapInv
<1>15. CASE PhaseProjection
  BY <1>15, <1>t DEF PhaseProjection, Goto, genVars, diskVars, memVars, envVars, PhaseInv, SnapInv
<1>16. CASE RecordProjection
  BY <1>16, <1>t DEF RecordProjection, RecordVerified, Goto, genVars, diskVars, memVars,
     envVars, PhaseInv, SnapInv
<1>17. CASE AuthorityFence
  BY <1>17, <1>t DEF AuthorityFence, Fence, Goto, Fail, End, NoWork, genVars, diskVars, memVars,
     envVars, PhaseInv, SnapInv
<1>18. CASE WriteAuthority
  BY <1>18, <1>t DEF WriteAuthority, Goto, diskVars, memVars, envVars, PhaseInv, SnapInv
<1>19. CASE RecordAuthority
  BY <1>19, <1>t DEF RecordAuthority, RecordVerified, Goto, genVars, diskVars, memVars, envVars,
     PhaseInv, SnapInv
<1> QED
  BY <1>1, <1>2, <1>3, <1>4, <1>5, <1>6, <1>7, <1>8, <1>9, <1>10, <1>11, <1>12, <1>13, <1>14,
     <1>15, <1>16, <1>17, <1>18, <1>19 DEF Finalize

\* Cleanup of a completed journal keeps the snapshot a rollback needs.
LEMMA SnapCleanup == Typed /\ IInv /\ Cleanup => SnapInv'
<1> SUFFICES ASSUME Typed, IInv, Cleanup PROVE SnapInv'
  OBVIOUS
<1>t. journal \in Journals /\ snap \in Snapshots /\ pc \in Points
  BY DEF Typed
<1>1. CASE CleanStaged
  BY <1>1, <1>t DEF CleanStaged, Goto, genVars, memVars, envVars, PhaseInv, SnapInv
<1>2. CASE RemoveObsolete
  BY <1>2, <1>t DEF RemoveObsolete, Goto, genVars, memVars, envVars, PhaseInv, SnapInv
<1>3. CASE SaveCleanup
  BY <1>3, <1>t DEF SaveCleanup, Goto, genVars, diskVars, memVars, envVars, PhaseInv, SnapInv
<1>4. CASE RemoveStagedDir
  BY <1>4, <1>t DEF RemoveStagedDir, Goto, Fail, End, NoWork, genVars, diskVars, memVars,
     envVars, PhaseInv, SnapInv
<1>5. CASE RemoveSnapshot
  BY <1>5, <1>t DEF RemoveSnapshot, Goto, Fail, End, NoWork, genVars, diskVars, memVars,
     envVars, PhaseInv, SnapInv
<1>6. CASE EmptySnapshot
  BY <1>6, <1>t DEF EmptySnapshot, Goto, genVars, memVars, envVars, PhaseInv, SnapInv
<1>7. CASE RemoveJournal
  BY <1>7, <1>t DEF RemoveJournal, NoJournal, NoWork, Goto, genVars, diskVars, envVars,
     PhaseInv, SnapInv
<1> QED
  BY <1>1, <1>2, <1>3, <1>4, <1>5, <1>6, <1>7 DEF Cleanup

\* Restoring the snapshot keeps the snapshot a rollback needs.
LEMMA SnapRollback == Typed /\ IInv /\ Rollback => SnapInv'
<1> SUFFICES ASSUME Typed, IInv, Rollback PROVE SnapInv'
  OBVIOUS
<1>t. journal \in Journals /\ snap \in Snapshots /\ pc \in Points
  BY DEF Typed
<1>1. CASE KnownRollback
  BY <1>1, <1>t DEF KnownRollback, Goto, Fail, End, NoWork, genVars, diskVars, memVars, envVars,
     PhaseInv, SnapInv
<1>2. CASE RestoreClear
  BY <1>2, <1>t DEF RestoreClear, Goto, Fail, End, NoWork, genVars, diskVars, memVars, envVars,
     PhaseInv, SnapInv
<1>3. CASE RestoreArtwork
  BY <1>3, <1>t DEF RestoreArtwork, Goto, diskVars, memVars, envVars, PhaseInv, SnapInv
<1>4. CASE RestoreDatabase
  BY <1>4, <1>t DEF RestoreDatabase, Goto, diskVars, memVars, envVars, PhaseInv, SnapInv
<1>5. CASE \E f \in Tracks : RestoreStaged(f)
  BY <1>5, <1>t DEF RestoreStaged, Preserving, Goto, genVars, memVars, envVars, PhaseInv, SnapInv
<1>6. CASE ResumeRestored
  BY <1>6, <1>t DEF ResumeRestored, Reset, Goto, genVars, diskVars, memVars, envVars, PhaseInv,
     SnapInv
<1>7. CASE UndoneRollback
  BY <1>7, <1>t DEF UndoneRollback, Reset, Goto, genVars, diskVars, memVars, envVars, PhaseInv,
     SnapInv
<1>8. CASE MovedBack
  BY <1>8, <1>t DEF MovedBack, Goto, genVars, diskVars, memVars, envVars, PhaseInv, SnapInv
<1>9. CASE DropStaged
  BY <1>9, <1>t DEF DropStaged, Preserving, Goto, genVars, memVars, envVars, PhaseInv, SnapInv
<1>10. CASE RestoreManifest
  BY <1>10, <1>t DEF RestoreManifest, Goto, Fail, End, NoWork, genVars, diskVars, memVars,
     envVars, PhaseInv, SnapInv
<1>11. CASE FinishRollback
  BY <1>11, <1>t, FinishIs DEF FinishRollback, PhaseInv, SnapInv, genVars, diskVars
<1> QED
  BY <1>1, <1>2, <1>3, <1>4, <1>5, <1>6, <1>7, <1>8, <1>9, <1>10, <1>11 DEF Rollback

\* A step of the environment (an edit, a crash, the start or end of a sync)
\* keeps the snapshot a rollback needs.
LEMMA SnapEnvironment == Typed /\ IInv /\ Environment => SnapInv'
<1> SUFFICES ASSUME Typed, IInv, Environment PROVE SnapInv'
  OBVIOUS
<1>t. journal \in Journals /\ snap \in Snapshots /\ pc \in Points
  BY DEF Typed
<1>1. CASE ForeignWrite
  BY <1>1, <1>t DEF ForeignWrite, diskVars, memVars, PhaseInv, SnapInv
<1>2. CASE FirmwareNormalize
  BY <1>2, <1>t DEF FirmwareNormalize, Fault, diskVars, memVars, PhaseInv, SnapInv
<1>3. CASE LoseStaged
  BY <1>3, <1>t DEF LoseStaged, Fault, genVars, memVars, PhaseInv, SnapInv
<1>4. CASE Crash
  BY <1>4, <1>t DEF Crash, End, NoWork, genVars, PhaseInv, SnapInv
<1>5. CASE StopAdmission
  BY <1>5, <1>t DEF StopAdmission, Goto, genVars, diskVars, envVars, PhaseInv, SnapInv
<1>6. CASE EndSession
  BY <1>6, <1>t DEF EndSession, Fail, End, NoWork, genVars, diskVars, envVars, PhaseInv, SnapInv
<1>7. CASE \E w \in Works : BeginSync(w)
  BY <1>7, <1>t DEF BeginSync, genVars, diskVars, PhaseInv, SnapInv
<1> QED
  BY <1>1, <1>2, <1>3, <1>4, <1>5, <1>6, <1>7 DEF Environment

\* Acquiring the lease keeps the snapshot a rollback needs.
LEMMA SnapAcquire == Typed /\ IInv /\ Acquire => SnapInv'
<1> SUFFICES ASSUME Typed, IInv, Acquire PROVE SnapInv'
  OBVIOUS
<1>t. journal \in Journals /\ snap \in Snapshots /\ pc \in Points
  BY DEF Typed
<1>1. CASE Acquire
  BY <1>1, <1>t DEF Acquire, genVars, diskVars, envVars, PhaseInv, SnapInv
<1> QED
  BY <1>1

-----------------------------------------------------------------------------
(* Staged audio is new to the database until it is published. *)

\* Recovering the journal a session finds keeps staged audio out of the database
\* until it is published.
LEMMA FreshRecovery == Typed /\ IInv /\ Recovery => FreshInv'
<1> SUFFICES ASSUME Typed, IInv, Recovery PROVE FreshInv'
  OBVIOUS
<1>t. journal \in Journals /\ snap \in Snapshots /\ pc \in Points
  BY DEF Typed
<1>1. CASE RecoverUndone
  BY <1>1, <1>t DEF RecoverUndone, Undone, Goto, genVars, diskVars, memVars, envVars, PhaseInv,
     SnapInv, FreshInv, MediaInv
<1>2. CASE RecoverStaging
  BY <1>2, <1>t DEF RecoverStaging, Unreferenced, Goto, genVars, memVars, envVars, PhaseInv,
     SnapInv, FreshInv, MediaInv
<1>3. CASE SaveAbandoned
  BY <1>3, <1>t DEF SaveAbandoned, Abandoned, Goto, Fail, End, NoWork, genVars, diskVars,
     memVars, envVars, PhaseInv, SnapInv, FreshInv, MediaInv
<1>4. CASE RemoveAbandonedDir
  BY <1>4, <1>t DEF RemoveAbandonedDir, Goto, genVars, memVars, envVars, PhaseInv, SnapInv,
     FreshInv, MediaInv
<1>5. CASE RecoverFirmware
  BY <1>5, <1>t DEF RecoverFirmware, Undone, Goto, genVars, diskVars, memVars, envVars,
     PhaseInv, SnapInv, FreshInv, MediaInv
<1>6. CASE RecoverLost
  <2>1. Gen.db = db
    BY DEF Gen
  <2> QED
    BY <1>6, <1>t, <2>1 DEF RecoverLost, Lost, Missing, Cleared, Goto, PhaseInv, SnapInv,
       FreshInv, Fail, End, genVars, diskVars, memVars, envVars
<1>7. CASE RecoverPublish
  BY <1>7, <1>t DEF RecoverPublish, Undone, Lost, Missing, Goto, genVars, diskVars, memVars,
     envVars, PhaseInv, SnapInv, FreshInv, MediaInv
<1> QED
  BY <1>1, <1>2, <1>3, <1>4, <1>5, <1>6, <1>7 DEF Recovery

\* Staging an album keeps staged audio out of the database until it is
\* published.
LEMMA FreshStaged == Typed /\ IInv /\ Staged => FreshInv'
<1> SUFFICES ASSUME Typed, IInv, Staged PROVE FreshInv'
  OBVIOUS
<1>t. journal \in Journals /\ snap \in Snapshots /\ pc \in Points
  BY DEF Typed
<1>1. CASE \E f \in Tracks : StageFile(f)
  BY <1>1, <1>t DEF StageFile, Goto, genVars, memVars, envVars, PhaseInv, SnapInv, FreshInv,
     MediaInv
<1>2. CASE SaveAlbum
  BY <1>2, <1>t DEF SaveAlbum, NewJournal, NoJournal, Goto, genVars, diskVars, memVars, envVars,
     PhaseInv, SnapInv, FreshInv, MediaInv
<1>3. CASE FinishStaging
  BY <1>3, <1>t DEF FinishStaging, Goto, genVars, diskVars, memVars, envVars, PhaseInv, SnapInv,
     FreshInv, MediaInv
<1> QED
  BY <1>1, <1>2, <1>3 DEF Staged

\* Publication up to the verified database keeps staged audio out of the
\* database until it is published.
LEMMA FreshPublish == Typed /\ IInv /\ Publish => FreshInv'
<1> SUFFICES ASSUME Typed, IInv, Publish PROVE FreshInv'
  OBVIOUS
<1>t. journal \in Journals /\ snap \in Snapshots /\ pc \in Points
  BY DEF Typed
<1>1. CASE PublishFence
  BY <1>1, <1>t DEF PublishFence, Fence, Goto, Fail, End, NoWork, genVars, diskVars, memVars,
     envVars, PhaseInv, SnapInv, FreshInv, MediaInv
<1>2. CASE Prepare
  <2>1. Gen.db = db
    BY DEF Gen
  <2> QED
    BY <1>2, <1>t, <2>1, PrepareIs DEF Prepare, SameInputs, PhaseInv, SnapInv, FreshInv, Fail,
       End, genVars, diskVars, memVars
<1>3. CASE PrepareArtwork
  BY <1>3, <1>t DEF PrepareArtwork, Goto, Fault, End, NoWork, genVars, diskVars, memVars,
     envVars, PhaseInv, SnapInv, FreshInv, MediaInv
<1>4. CASE EnsurePreimage
  BY <1>4, <1>t DEF EnsurePreimage, Fail, End, NoWork, Goto, genVars, diskVars, memVars,
     envVars, PhaseInv, SnapInv, FreshInv, MediaInv
<1>5. CASE EnsureSnapshot
  BY <1>5, <1>t DEF EnsureSnapshot, Goto, Fail, End, NoWork, genVars, diskVars, memVars,
     envVars, PhaseInv, SnapInv, FreshInv, MediaInv
<1>6. CASE FillSnapshot
  BY <1>6, <1>t DEF FillSnapshot, Goto, genVars, memVars, envVars, PhaseInv, SnapInv, FreshInv,
     MediaInv
<1>7. CASE Dispatch
  BY <1>7, <1>t DEF Dispatch, Goto, genVars, diskVars, memVars, envVars, PhaseInv, SnapInv,
     FreshInv, MediaInv
<1>8. CASE ResumeCandidate
  BY <1>8, <1>t, ResumeIs DEF ResumeCandidate, SameInputs, PhaseInv, SnapInv, FreshInv, genVars,
     diskVars, memVars
<1>9. CASE OpenDatabase
  BY <1>9, <1>t DEF OpenDatabase, Goto, genVars, diskVars, envVars, PhaseInv, SnapInv, FreshInv,
     MediaInv
<1>10. CASE \E f \in Tracks : ReserveFinal(f)
  BY <1>10, <1>t DEF ReserveFinal, Goto, genVars, diskVars, envVars, PhaseInv, SnapInv,
     FreshInv, MediaInv
<1>11. CASE MoveStaged
  BY <1>11, <1>t DEF MoveStaged, Goto, genVars, memVars, envVars, PhaseInv, SnapInv, FreshInv,
     MediaInv
<1>12. CASE RecordAdded
  BY <1>12, <1>t DEF RecordAdded, Goto, genVars, diskVars, envVars, PhaseInv, SnapInv, FreshInv,
     MediaInv
<1>13. CASE UpdateMetadata
  BY <1>13, <1>t DEF UpdateMetadata, Goto, genVars, diskVars, envVars, PhaseInv, SnapInv,
     FreshInv, MediaInv
<1>14. CASE ReconcileCandidate
  BY <1>14, <1>t DEF ReconcileCandidate, Goto, Fault, genVars, diskVars, memVars, envVars,
     PhaseInv, SnapInv, FreshInv, MediaInv
<1>15. CASE DatabaseFence
  BY <1>15, <1>t DEF DatabaseFence, Fence, Goto, Fail, End, NoWork, genVars, diskVars, memVars,
     envVars, PhaseInv, SnapInv, FreshInv, MediaInv
<1>16. CASE ClearArtwork
  BY <1>16, <1>t DEF ClearArtwork, Goto, diskVars, memVars, envVars, PhaseInv, SnapInv,
     FreshInv, MediaInv
<1>17. CASE WriteArtwork
  BY <1>17, <1>t DEF WriteArtwork, Goto, WriteFault, Fault, RecordPublished, genVars, diskVars,
     memVars, envVars, PhaseInv, SnapInv, FreshInv, MediaInv
<1>18. CASE WriteDatabase
  BY <1>18, <1>t DEF WriteDatabase, Goto, WriteFault, Fault, RecordPublished, genVars, diskVars,
     memVars, envVars, PhaseInv, SnapInv, FreshInv, MediaInv
<1>19. CASE RecordWritten
  BY <1>19, <1>t DEF RecordWritten, RecordPublished, Goto, genVars, diskVars, memVars, envVars,
     PhaseInv, SnapInv, FreshInv, MediaInv
<1>20. CASE VerifyWritten
  BY <1>20, <1>t, VerifyIs DEF VerifyWritten, SameInputs, PhaseInv, SnapInv, FreshInv, genVars,
     diskVars, memVars
<1> QED
  BY <1>1, <1>2, <1>3, <1>4, <1>5, <1>6, <1>7, <1>8, <1>9, <1>10, <1>11, <1>12, <1>13, <1>14,
     <1>15, <1>16, <1>17, <1>18, <1>19, <1>20 DEF Publish

\* Publication after the verified database keeps staged audio out of the
\* database until it is published.
LEMMA FreshFinalize == Typed /\ IInv /\ Finalize => FreshInv'
<1> SUFFICES ASSUME Typed, IInv, Finalize PROVE FreshInv'
  OBVIOUS
<1>t. journal \in Journals /\ snap \in Snapshots /\ pc \in Points
  BY DEF Typed
<1>1. CASE CheckVerified
  BY <1>1, <1>t DEF CheckVerified, Goto, Mismatch, Fault, genVars, diskVars, memVars, envVars,
     PhaseInv, SnapInv, FreshInv, MediaInv
<1>2. CASE ManifestFence
  BY <1>2, <1>t DEF ManifestFence, Fence, Goto, Fail, End, NoWork, genVars, diskVars, memVars,
     envVars, PhaseInv, SnapInv, FreshInv, MediaInv
<1>3. CASE WriteManifest
  BY <1>3, <1>t DEF WriteManifest, Goto, Fault, genVars, diskVars, memVars, envVars, PhaseInv,
     SnapInv, FreshInv, MediaInv
<1>4. CASE RecordManifest
  BY <1>4, <1>t DEF RecordManifest, RecordVerified, Goto, genVars, diskVars, memVars, envVars,
     PhaseInv, SnapInv, FreshInv, MediaInv
<1>5. CASE Reverify
  BY <1>5, <1>t DEF Reverify, Goto, Resumed, Mismatch, Fault, genVars, diskVars, memVars,
     envVars, PhaseInv, SnapInv, FreshInv, MediaInv
<1>6. CASE PlanFence
  BY <1>6, <1>t DEF PlanFence, Fence, Goto, Fail, End, NoWork, genVars, diskVars, memVars,
     envVars, PhaseInv, SnapInv, FreshInv, MediaInv
<1>7. CASE PlanProjections
  BY <1>7, <1>t, PlanIs DEF PlanProjections, SameInputs, PhaseInv, SnapInv, FreshInv, Fail, End,
     genVars, diskVars, memVars
<1>8. CASE OwnershipFence
  BY <1>8, <1>t DEF OwnershipFence, Fence, Goto, Fail, End, NoWork, genVars, diskVars, memVars,
     envVars, PhaseInv, SnapInv, FreshInv, MediaInv
<1>9. CASE WriteOwnership
  BY <1>9, <1>t DEF WriteOwnership, Goto, Fault, Interrupted, End, NoWork, genVars, diskVars,
     memVars, envVars, PhaseInv, SnapInv, FreshInv, MediaInv
<1>10. CASE PhaseOwnership
  BY <1>10, <1>t DEF PhaseOwnership, Goto, genVars, diskVars, memVars, envVars, PhaseInv,
     SnapInv, FreshInv, MediaInv
<1>11. CASE RecordOwnership
  BY <1>11, <1>t DEF RecordOwnership, RecordVerified, Goto, genVars, diskVars, memVars, envVars,
     PhaseInv, SnapInv, FreshInv, MediaInv
<1>12. CASE ProjectionFence
  BY <1>12, <1>t DEF ProjectionFence, Fence, Goto, Fail, End, NoWork, genVars, diskVars,
     memVars, envVars, PhaseInv, SnapInv, FreshInv, MediaInv
<1>13. CASE WriteProjection
  BY <1>13, <1>t DEF WriteProjection, Goto, Fault, Interrupted, End, NoWork, genVars, diskVars,
     memVars, envVars, PhaseInv, SnapInv, FreshInv, MediaInv
<1>14. CASE RemovePrevious
  BY <1>14, <1>t DEF RemovePrevious, Goto, Fault, Interrupted, End, NoWork, genVars, diskVars,
     memVars, envVars, PhaseInv, SnapInv, FreshInv, MediaInv
<1>15. CASE PhaseProjection
  BY <1>15, <1>t DEF PhaseProjection, Goto, genVars, diskVars, memVars, envVars, PhaseInv,
     SnapInv, FreshInv, MediaInv
<1>16. CASE RecordProjection
  BY <1>16, <1>t DEF RecordProjection, RecordVerified, Goto, genVars, diskVars, memVars,
     envVars, PhaseInv, SnapInv, FreshInv, MediaInv
<1>17. CASE AuthorityFence
  BY <1>17, <1>t DEF AuthorityFence, Fence, Goto, Fail, End, NoWork, genVars, diskVars, memVars,
     envVars, PhaseInv, SnapInv, FreshInv, MediaInv
<1>18. CASE WriteAuthority
  BY <1>18, <1>t DEF WriteAuthority, Goto, diskVars, memVars, envVars, PhaseInv, SnapInv,
     FreshInv, MediaInv
<1>19. CASE RecordAuthority
  BY <1>19, <1>t DEF RecordAuthority, RecordVerified, Goto, genVars, diskVars, memVars, envVars,
     PhaseInv, SnapInv, FreshInv, MediaInv
<1> QED
  BY <1>1, <1>2, <1>3, <1>4, <1>5, <1>6, <1>7, <1>8, <1>9, <1>10, <1>11, <1>12, <1>13, <1>14,
     <1>15, <1>16, <1>17, <1>18, <1>19 DEF Finalize

\* Cleanup of a completed journal keeps staged audio out of the database until
\* it is published.
LEMMA FreshCleanup == Typed /\ IInv /\ Cleanup => FreshInv'
<1> SUFFICES ASSUME Typed, IInv, Cleanup PROVE FreshInv'
  OBVIOUS
<1>t. journal \in Journals /\ snap \in Snapshots /\ pc \in Points
  BY DEF Typed
<1>1. CASE CleanStaged
  BY <1>1, <1>t DEF CleanStaged, Unreferenced, Goto, genVars, memVars, envVars, PhaseInv,
     SnapInv, FreshInv, MediaInv
<1>2. CASE RemoveObsolete
  BY <1>2, <1>t DEF RemoveObsolete, Unreferenced, Goto, genVars, memVars, envVars, PhaseInv,
     SnapInv, FreshInv, MediaInv
<1>3. CASE SaveCleanup
  BY <1>3, <1>t DEF SaveCleanup, Goto, genVars, diskVars, memVars, envVars, PhaseInv, SnapInv,
     FreshInv, MediaInv
<1>4. CASE RemoveStagedDir
  BY <1>4, <1>t DEF RemoveStagedDir, Goto, Fail, End, NoWork, genVars, diskVars, memVars,
     envVars, PhaseInv, SnapInv, FreshInv, MediaInv
<1>5. CASE RemoveSnapshot
  BY <1>5, <1>t DEF RemoveSnapshot, Goto, Fail, End, NoWork, genVars, diskVars, memVars,
     envVars, PhaseInv, SnapInv, FreshInv, MediaInv
<1>6. CASE EmptySnapshot
  BY <1>6, <1>t DEF EmptySnapshot, Goto, genVars, memVars, envVars, PhaseInv, SnapInv, FreshInv,
     MediaInv
<1>7. CASE RemoveJournal
  BY <1>7, <1>t DEF RemoveJournal, NoJournal, NoWork, Goto, genVars, diskVars, envVars,
     PhaseInv, SnapInv, FreshInv, MediaInv
<1> QED
  BY <1>1, <1>2, <1>3, <1>4, <1>5, <1>6, <1>7 DEF Cleanup

\* Restoring the snapshot keeps staged audio out of the database until it is
\* published.
LEMMA FreshRollback == Typed /\ IInv /\ Rollback => FreshInv'
<1> SUFFICES ASSUME Typed, IInv, Rollback PROVE FreshInv'
  OBVIOUS
<1>t. journal \in Journals /\ snap \in Snapshots /\ pc \in Points
  BY DEF Typed
<1>1. CASE KnownRollback
  BY <1>1, <1>t DEF KnownRollback, RollbackKnown, Goto, Fail, End, NoWork, genVars, diskVars,
     memVars, envVars, PhaseInv, SnapInv, FreshInv, MediaInv
<1>2. CASE RestoreClear
  BY <1>2, <1>t DEF RestoreClear, Goto, Fail, End, NoWork, genVars, diskVars, memVars, envVars,
     PhaseInv, SnapInv, FreshInv, MediaInv
<1>3. CASE RestoreArtwork
  BY <1>3, <1>t DEF RestoreArtwork, Goto, diskVars, memVars, envVars, PhaseInv, SnapInv,
     FreshInv, MediaInv
<1>4. CASE RestoreDatabase
  BY <1>4, <1>t DEF RestoreDatabase, Goto, diskVars, memVars, envVars, PhaseInv, SnapInv,
     FreshInv, MediaInv
<1>5. CASE \E f \in Tracks : RestoreStaged(f)
  BY <1>5, <1>t DEF RestoreStaged, Preserving, Goto, genVars, memVars, envVars, PhaseInv,
     SnapInv, FreshInv, MediaInv
<1>6. CASE ResumeRestored
  BY <1>6, <1>t DEF ResumeRestored, Reset, Goto, genVars, diskVars, memVars, envVars, PhaseInv,
     SnapInv, FreshInv, MediaInv
<1>7. CASE UndoneRollback
  BY <1>7, <1>t DEF UndoneRollback, Reset, Goto, genVars, diskVars, memVars, envVars, PhaseInv,
     SnapInv, FreshInv, MediaInv
<1>8. CASE MovedBack
  BY <1>8, <1>t DEF MovedBack, Goto, genVars, diskVars, memVars, envVars, PhaseInv, SnapInv,
     FreshInv, MediaInv
<1>9. CASE DropStaged
  BY <1>9, <1>t DEF DropStaged, Preserving, Unreferenced, Goto, genVars, memVars, envVars,
     PhaseInv, SnapInv, FreshInv, MediaInv
<1>10. CASE RestoreManifest
  BY <1>10, <1>t DEF RestoreManifest, Goto, Fail, End, NoWork, genVars, diskVars, memVars,
     envVars, PhaseInv, SnapInv, FreshInv, MediaInv
<1>11. CASE FinishRollback
  BY <1>11, <1>t, FinishIs DEF FinishRollback, PhaseInv, SnapInv, FreshInv, genVars, diskVars
<1> QED
  BY <1>1, <1>2, <1>3, <1>4, <1>5, <1>6, <1>7, <1>8, <1>9, <1>10, <1>11 DEF Rollback

\* A step of the environment (an edit, a crash, the start or end of a sync)
\* keeps staged audio out of the database until it is published.
LEMMA FreshEnvironment == Typed /\ IInv /\ Environment => FreshInv'
<1> SUFFICES ASSUME Typed, IInv, Environment PROVE FreshInv'
  OBVIOUS
<1>t. journal \in Journals /\ snap \in Snapshots /\ pc \in Points
  BY DEF Typed
<1>1. CASE ForeignWrite
  BY <1>1, <1>t DEF ForeignWrite, diskVars, memVars, PhaseInv, SnapInv, FreshInv, MediaInv
<1>2. CASE FirmwareNormalize
  BY <1>2, <1>t DEF FirmwareNormalize, Fault, diskVars, memVars, PhaseInv, SnapInv, FreshInv,
     MediaInv
<1>3. CASE LoseStaged
  BY <1>3, <1>t DEF LoseStaged, Fault, genVars, memVars, PhaseInv, SnapInv, FreshInv, MediaInv
<1>4. CASE Crash
  BY <1>4, <1>t DEF Crash, End, NoWork, genVars, PhaseInv, SnapInv, FreshInv, MediaInv
<1>5. CASE StopAdmission
  BY <1>5, <1>t DEF StopAdmission, Goto, genVars, diskVars, envVars, PhaseInv, SnapInv,
     FreshInv, MediaInv
<1>6. CASE EndSession
  BY <1>6, <1>t DEF EndSession, Fail, End, NoWork, genVars, diskVars, envVars, PhaseInv,
     SnapInv, FreshInv, MediaInv
<1>7. CASE \E w \in Works : BeginSync(w)
  BY <1>7, <1>t DEF BeginSync, genVars, diskVars, PhaseInv, SnapInv, FreshInv, MediaInv
<1> QED
  BY <1>1, <1>2, <1>3, <1>4, <1>5, <1>6, <1>7 DEF Environment

\* Acquiring the lease keeps staged audio out of the database until it is
\* published.
LEMMA FreshAcquire == Typed /\ IInv /\ Acquire => FreshInv'
<1> SUFFICES ASSUME Typed, IInv, Acquire PROVE FreshInv'
  OBVIOUS
<1>t. journal \in Journals /\ snap \in Snapshots /\ pc \in Points
  BY DEF Typed
<1>1. CASE Acquire
  BY <1>1, <1>t DEF Acquire, genVars, diskVars, envVars, PhaseInv, SnapInv, FreshInv, MediaInv
<1> QED
  BY <1>1

-----------------------------------------------------------------------------
(* Nothing replaces the database whose audio is missing. *)

\* Recovering the journal a session finds keeps the audio of every database it
\* may publish or restore.
LEMMA MediaRecovery == Typed /\ IInv /\ Recovery => MediaInv'
<1> SUFFICES ASSUME Typed, IInv, Recovery PROVE MediaInv'
  OBVIOUS
<1>t. journal \in Journals /\ snap \in Snapshots /\ pc \in Points
  BY DEF Typed
<1>1. CASE RecoverUndone
  BY <1>1, <1>t DEF RecoverUndone, Undone, Goto, genVars, diskVars, memVars, envVars, PhaseInv,
     SnapInv, FreshInv, MediaInv, HeldInv
<1>2. CASE RecoverStaging
  BY <1>2, <1>t DEF RecoverStaging, Unreferenced, Goto, genVars, memVars, envVars, PhaseInv,
     SnapInv, FreshInv, MediaInv, HeldInv
<1>3. CASE SaveAbandoned
  BY <1>3, <1>t DEF SaveAbandoned, Abandoned, Goto, Fail, End, NoWork, genVars, diskVars,
     memVars, envVars, PhaseInv, SnapInv, FreshInv, MediaInv, HeldInv
<1>4. CASE RemoveAbandonedDir
  BY <1>4, <1>t DEF RemoveAbandonedDir, Goto, genVars, memVars, envVars, PhaseInv, SnapInv,
     FreshInv, MediaInv, HeldInv
<1>5. CASE RecoverFirmware
  BY <1>5, <1>t DEF RecoverFirmware, Undone, Goto, genVars, diskVars, memVars, envVars,
     PhaseInv, SnapInv, FreshInv, MediaInv, HeldInv
<1>6. CASE RecoverLost
  BY <1>6, <1>t DEF RecoverLost, Lost, Goto, Fail, End, NoWork, genVars, diskVars, memVars,
     envVars, PhaseInv, SnapInv, FreshInv, MediaInv, HeldInv
<1>7. CASE RecoverPublish
  BY <1>7, <1>t DEF RecoverPublish, Undone, Lost, Goto, genVars, diskVars, memVars, envVars,
     PhaseInv, SnapInv, FreshInv, MediaInv, HeldInv
<1> QED
  BY <1>1, <1>2, <1>3, <1>4, <1>5, <1>6, <1>7 DEF Recovery

\* Staging an album keeps the audio of every database it may publish or restore.
LEMMA MediaStaged == Typed /\ IInv /\ Staged => MediaInv'
<1> SUFFICES ASSUME Typed, IInv, Staged PROVE MediaInv'
  OBVIOUS
<1>t. journal \in Journals /\ snap \in Snapshots /\ pc \in Points
  BY DEF Typed
<1>1. CASE \E f \in Tracks : StageFile(f)
  BY <1>1, <1>t DEF StageFile, Goto, genVars, memVars, envVars, PhaseInv, SnapInv, FreshInv,
     MediaInv, HeldInv
<1>2. CASE SaveAlbum
  BY <1>2, <1>t DEF SaveAlbum, NewJournal, NoJournal, Goto, genVars, diskVars, memVars, envVars,
     PhaseInv, SnapInv, FreshInv, MediaInv, HeldInv
<1>3. CASE FinishStaging
  BY <1>3, <1>t DEF FinishStaging, Goto, genVars, diskVars, memVars, envVars, PhaseInv, SnapInv,
     FreshInv, MediaInv, HeldInv
<1> QED
  BY <1>1, <1>2, <1>3 DEF Staged

\* Publication up to the verified database keeps the audio of every database it
\* may publish or restore.
LEMMA MediaPublish == Typed /\ IInv /\ Publish => MediaInv'
<1> SUFFICES ASSUME Typed, IInv, Publish PROVE MediaInv'
  OBVIOUS
<1>t. journal \in Journals /\ snap \in Snapshots /\ pc \in Points
  BY DEF Typed
<1>1. CASE PublishFence
  BY <1>1, <1>t DEF PublishFence, Fence, Goto, Fail, End, NoWork, genVars, diskVars, memVars,
     envVars, PhaseInv, SnapInv, FreshInv, MediaInv, HeldInv
<1>2. CASE Prepare
  BY <1>2, <1>t DEF Prepare, NewJournal, NoJournal, Terminal, Fail, End, NoWork, Goto, genVars,
     diskVars, memVars, envVars, PhaseInv, SnapInv, FreshInv, MediaInv, HeldInv
<1>3. CASE PrepareArtwork
  BY <1>3, <1>t DEF PrepareArtwork, Goto, Fault, End, NoWork, genVars, diskVars, memVars,
     envVars, PhaseInv, SnapInv, FreshInv, MediaInv, HeldInv
<1>4. CASE EnsurePreimage
  BY <1>4, <1>t DEF EnsurePreimage, Fail, End, NoWork, Goto, genVars, diskVars, memVars,
     envVars, PhaseInv, SnapInv, FreshInv, MediaInv, HeldInv
<1>5. CASE EnsureSnapshot
  BY <1>5, <1>t DEF EnsureSnapshot, Goto, Fail, End, NoWork, genVars, diskVars, memVars,
     envVars, PhaseInv, SnapInv, FreshInv, MediaInv, HeldInv
<1>6. CASE FillSnapshot
  BY <1>6, <1>t DEF FillSnapshot, Goto, genVars, memVars, envVars, PhaseInv, SnapInv, FreshInv,
     MediaInv, HeldInv
<1>7. CASE Dispatch
  BY <1>7, <1>t DEF Dispatch, Goto, genVars, diskVars, memVars, envVars, PhaseInv, SnapInv,
     FreshInv, MediaInv, HeldInv
<1>8. CASE ResumeCandidate
  BY <1>8, <1>t DEF ResumeCandidate, Goto, RecordVerified, genVars, diskVars, memVars, envVars,
     PhaseInv, SnapInv, FreshInv, MediaInv, HeldInv
<1>9. CASE OpenDatabase
  BY <1>9, <1>t DEF OpenDatabase, Goto, genVars, diskVars, envVars, PhaseInv, SnapInv, FreshInv,
     MediaInv, HeldInv
<1>10. CASE \E f \in Tracks : ReserveFinal(f)
  BY <1>10, <1>t DEF ReserveFinal, Goto, genVars, diskVars, envVars, PhaseInv, SnapInv,
     FreshInv, MediaInv, HeldInv
<1>11. CASE MoveStaged
  BY <1>11, <1>t DEF MoveStaged, Goto, genVars, memVars, envVars, PhaseInv, SnapInv, FreshInv,
     MediaInv, HeldInv
<1>12. CASE RecordAdded
  BY <1>12, <1>t DEF RecordAdded, Goto, genVars, diskVars, envVars, PhaseInv, SnapInv, FreshInv,
     MediaInv, HeldInv
<1>13. CASE UpdateMetadata
  <2>1. mdb'.tracks = mdb.tracks
    BY <1>13 DEF UpdateMetadata, Typed, Databases
  <2> QED
    BY <1>13, <1>t, <2>1 DEF UpdateMetadata, Goto, PhaseInv, SnapInv, MediaInv, genVars,
       diskVars, envVars
<1>14. CASE ReconcileCandidate
  <2>1. mdb'.tracks = mdb.tracks
    BY <1>14 DEF ReconcileCandidate, Typed, Databases, memVars
  <2> QED
    BY <1>14, <1>t, <2>1 DEF ReconcileCandidate, Fault, Goto, PhaseInv, SnapInv, MediaInv,
       genVars, diskVars, memVars, envVars
<1>15. CASE DatabaseFence
  BY <1>15, <1>t DEF DatabaseFence, Fence, Goto, Fail, End, NoWork, genVars, diskVars, memVars,
     envVars, PhaseInv, SnapInv, FreshInv, MediaInv, HeldInv
<1>16. CASE ClearArtwork
  BY <1>16, <1>t DEF ClearArtwork, Goto, diskVars, memVars, envVars, PhaseInv, SnapInv,
     FreshInv, MediaInv, HeldInv
<1>17. CASE WriteArtwork
  BY <1>17, <1>t DEF WriteArtwork, Goto, WriteFault, Fault, RecordPublished, genVars, diskVars,
     memVars, envVars, PhaseInv, SnapInv, FreshInv, MediaInv, HeldInv
<1>18. CASE WriteDatabase
  BY <1>18, <1>t DEF WriteDatabase, Goto, WriteFault, Fault, RecordPublished, genVars, diskVars,
     memVars, envVars, PhaseInv, SnapInv, FreshInv, MediaInv, HeldInv
<1>19. CASE RecordWritten
  BY <1>19, <1>t DEF RecordWritten, RecordPublished, Goto, genVars, diskVars, memVars, envVars,
     PhaseInv, SnapInv, FreshInv, MediaInv, HeldInv
<1>20. CASE VerifyWritten
  BY <1>20, <1>t DEF VerifyWritten, RecordVerified, Goto, Mismatch, Fault, genVars, diskVars,
     memVars, envVars, PhaseInv, SnapInv, FreshInv, MediaInv, HeldInv
<1> QED
  BY <1>1, <1>2, <1>3, <1>4, <1>5, <1>6, <1>7, <1>8, <1>9, <1>10, <1>11, <1>12, <1>13, <1>14,
     <1>15, <1>16, <1>17, <1>18, <1>19, <1>20 DEF Publish

\* Publication after the verified database keeps the audio of every database it
\* may publish or restore.
LEMMA MediaFinalize == Typed /\ IInv /\ Finalize => MediaInv'
<1> SUFFICES ASSUME Typed, IInv, Finalize PROVE MediaInv'
  OBVIOUS
<1>t. journal \in Journals /\ snap \in Snapshots /\ pc \in Points
  BY DEF Typed
<1>1. CASE CheckVerified
  BY <1>1, <1>t DEF CheckVerified, Goto, Mismatch, Fault, genVars, diskVars, memVars, envVars,
     PhaseInv, SnapInv, FreshInv, MediaInv, HeldInv
<1>2. CASE ManifestFence
  BY <1>2, <1>t DEF ManifestFence, Fence, Goto, Fail, End, NoWork, genVars, diskVars, memVars,
     envVars, PhaseInv, SnapInv, FreshInv, MediaInv, HeldInv
<1>3. CASE WriteManifest
  BY <1>3, <1>t DEF WriteManifest, Goto, Fault, genVars, diskVars, memVars, envVars, PhaseInv,
     SnapInv, FreshInv, MediaInv, HeldInv
<1>4. CASE RecordManifest
  BY <1>4, <1>t DEF RecordManifest, RecordVerified, Goto, genVars, diskVars, memVars, envVars,
     PhaseInv, SnapInv, FreshInv, MediaInv, HeldInv
<1>5. CASE Reverify
  BY <1>5, <1>t DEF Reverify, Goto, Resumed, Mismatch, Fault, genVars, diskVars, memVars,
     envVars, PhaseInv, SnapInv, FreshInv, MediaInv, HeldInv
<1>6. CASE PlanFence
  BY <1>6, <1>t DEF PlanFence, Fence, Goto, Fail, End, NoWork, genVars, diskVars, memVars,
     envVars, PhaseInv, SnapInv, FreshInv, MediaInv, HeldInv
<1>7. CASE PlanProjections
  BY <1>7, <1>t, PlanIs DEF PlanProjections, SameInputs, PhaseInv, SnapInv, MediaInv, Fail, End,
     genVars, diskVars, memVars
<1>8. CASE OwnershipFence
  BY <1>8, <1>t DEF OwnershipFence, Fence, Goto, Fail, End, NoWork, genVars, diskVars, memVars,
     envVars, PhaseInv, SnapInv, FreshInv, MediaInv, HeldInv
<1>9. CASE WriteOwnership
  BY <1>9, <1>t DEF WriteOwnership, Goto, Fault, Interrupted, End, NoWork, genVars, diskVars,
     memVars, envVars, PhaseInv, SnapInv, FreshInv, MediaInv, HeldInv
<1>10. CASE PhaseOwnership
  BY <1>10, <1>t DEF PhaseOwnership, Goto, genVars, diskVars, memVars, envVars, PhaseInv,
     SnapInv, FreshInv, MediaInv, HeldInv
<1>11. CASE RecordOwnership
  BY <1>11, <1>t DEF RecordOwnership, RecordVerified, Goto, genVars, diskVars, memVars, envVars,
     PhaseInv, SnapInv, FreshInv, MediaInv, HeldInv
<1>12. CASE ProjectionFence
  BY <1>12, <1>t DEF ProjectionFence, Fence, Goto, Fail, End, NoWork, genVars, diskVars,
     memVars, envVars, PhaseInv, SnapInv, FreshInv, MediaInv, HeldInv
<1>13. CASE WriteProjection
  BY <1>13, <1>t DEF WriteProjection, Goto, Fault, Interrupted, End, NoWork, genVars, diskVars,
     memVars, envVars, PhaseInv, SnapInv, FreshInv, MediaInv, HeldInv
<1>14. CASE RemovePrevious
  BY <1>14, <1>t DEF RemovePrevious, Goto, Fault, Interrupted, End, NoWork, genVars, diskVars,
     memVars, envVars, PhaseInv, SnapInv, FreshInv, MediaInv, HeldInv
<1>15. CASE PhaseProjection
  BY <1>15, <1>t DEF PhaseProjection, Goto, genVars, diskVars, memVars, envVars, PhaseInv,
     SnapInv, FreshInv, MediaInv, HeldInv
<1>16. CASE RecordProjection
  BY <1>16, <1>t DEF RecordProjection, RecordVerified, Goto, genVars, diskVars, memVars,
     envVars, PhaseInv, SnapInv, FreshInv, MediaInv, HeldInv
<1>17. CASE AuthorityFence
  BY <1>17, <1>t DEF AuthorityFence, Fence, Goto, Fail, End, NoWork, genVars, diskVars, memVars,
     envVars, PhaseInv, SnapInv, FreshInv, MediaInv, HeldInv
<1>18. CASE WriteAuthority
  BY <1>18, <1>t DEF WriteAuthority, Goto, diskVars, memVars, envVars, PhaseInv, SnapInv,
     FreshInv, MediaInv, HeldInv
<1>19. CASE RecordAuthority
  BY <1>19, <1>t DEF RecordAuthority, RecordVerified, Goto, genVars, diskVars, memVars, envVars,
     PhaseInv, SnapInv, FreshInv, MediaInv, HeldInv
<1> QED
  BY <1>1, <1>2, <1>3, <1>4, <1>5, <1>6, <1>7, <1>8, <1>9, <1>10, <1>11, <1>12, <1>13, <1>14,
     <1>15, <1>16, <1>17, <1>18, <1>19 DEF Finalize

\* Cleanup of a completed journal keeps the audio of every database it may
\* publish or restore.
LEMMA MediaCleanup == Typed /\ IInv /\ Cleanup => MediaInv'
<1> SUFFICES ASSUME Typed, IInv, Cleanup PROVE MediaInv'
  OBVIOUS
<1>t. journal \in Journals /\ snap \in Snapshots /\ pc \in Points
  BY DEF Typed
<1>1. CASE CleanStaged
  BY <1>1, <1>t DEF CleanStaged, Unreferenced, Goto, genVars, memVars, envVars, PhaseInv,
     SnapInv, FreshInv, MediaInv, HeldInv
<1>2. CASE RemoveObsolete
  BY <1>2, <1>t DEF RemoveObsolete, Unreferenced, Goto, genVars, memVars, envVars, PhaseInv,
     SnapInv, FreshInv, MediaInv, HeldInv
<1>3. CASE SaveCleanup
  BY <1>3, <1>t DEF SaveCleanup, Goto, genVars, diskVars, memVars, envVars, PhaseInv, SnapInv,
     FreshInv, MediaInv, HeldInv
<1>4. CASE RemoveStagedDir
  BY <1>4, <1>t DEF RemoveStagedDir, Goto, Fail, End, NoWork, genVars, diskVars, memVars,
     envVars, PhaseInv, SnapInv, FreshInv, MediaInv, HeldInv
<1>5. CASE RemoveSnapshot
  BY <1>5, <1>t DEF RemoveSnapshot, Goto, Fail, End, NoWork, genVars, diskVars, memVars,
     envVars, PhaseInv, SnapInv, FreshInv, MediaInv, HeldInv
<1>6. CASE EmptySnapshot
  BY <1>6, <1>t DEF EmptySnapshot, Goto, genVars, memVars, envVars, PhaseInv, SnapInv, FreshInv,
     MediaInv, HeldInv
<1>7. CASE RemoveJournal
  BY <1>7, <1>t DEF RemoveJournal, NoJournal, NoWork, Goto, genVars, diskVars, envVars,
     PhaseInv, SnapInv, FreshInv, MediaInv, HeldInv
<1> QED
  BY <1>1, <1>2, <1>3, <1>4, <1>5, <1>6, <1>7 DEF Cleanup

\* Restoring the snapshot keeps the audio of every database it may publish or
\* restore.
LEMMA MediaRollback == Typed /\ IInv /\ Rollback => MediaInv'
<1> SUFFICES ASSUME Typed, IInv, Rollback PROVE MediaInv'
  OBVIOUS
<1>t. journal \in Journals /\ snap \in Snapshots /\ pc \in Points
  BY DEF Typed
<1>1. CASE KnownRollback
  BY <1>1, <1>t DEF KnownRollback, Goto, Fail, End, NoWork, genVars, diskVars, memVars, envVars,
     PhaseInv, SnapInv, FreshInv, MediaInv, HeldInv
<1>2. CASE RestoreClear
  BY <1>2, <1>t DEF RestoreClear, Goto, Fail, End, NoWork, genVars, diskVars, memVars, envVars,
     PhaseInv, SnapInv, FreshInv, MediaInv, HeldInv
<1>3. CASE RestoreArtwork
  BY <1>3, <1>t DEF RestoreArtwork, Goto, diskVars, memVars, envVars, PhaseInv, SnapInv,
     FreshInv, MediaInv, HeldInv
<1>4. CASE RestoreDatabase
  BY <1>4, <1>t DEF RestoreDatabase, Goto, diskVars, memVars, envVars, PhaseInv, SnapInv,
     FreshInv, MediaInv, HeldInv
<1>5. CASE \E f \in Tracks : RestoreStaged(f)
  BY <1>5, <1>t DEF RestoreStaged, Preserving, Moved, Unreferenced, Goto, genVars, memVars,
     envVars, PhaseInv, SnapInv, FreshInv, MediaInv, HeldInv
<1>6. CASE ResumeRestored
  BY <1>6, <1>t DEF ResumeRestored, Moved, Unreferenced, Reset, Goto, genVars, diskVars,
     memVars, envVars, PhaseInv, SnapInv, FreshInv, MediaInv, HeldInv
<1>7. CASE UndoneRollback
  BY <1>7, <1>t DEF UndoneRollback, Moved, Unreferenced, Reset, Goto, genVars, diskVars,
     memVars, envVars, PhaseInv, SnapInv, FreshInv, MediaInv, HeldInv
<1>8. CASE MovedBack
  BY <1>8, <1>t DEF MovedBack, Moved, Unreferenced, Goto, genVars, diskVars, memVars, envVars,
     PhaseInv, SnapInv, FreshInv, MediaInv, HeldInv
<1>9. CASE DropStaged
  BY <1>9, <1>t DEF DropStaged, Preserving, Unreferenced, Goto, genVars, memVars, envVars,
     PhaseInv, SnapInv, FreshInv, MediaInv, HeldInv
<1>10. CASE RestoreManifest
  BY <1>10, <1>t DEF RestoreManifest, Goto, Fail, End, NoWork, genVars, diskVars, memVars,
     envVars, PhaseInv, SnapInv, FreshInv, MediaInv, HeldInv
<1>11. CASE FinishRollback
  BY <1>11, <1>t, FinishIs DEF FinishRollback, PhaseInv, SnapInv, MediaInv, genVars, diskVars
<1> QED
  BY <1>1, <1>2, <1>3, <1>4, <1>5, <1>6, <1>7, <1>8, <1>9, <1>10, <1>11 DEF Rollback

\* A step of the environment (an edit, a crash, the start or end of a sync)
\* keeps the audio of every database it may publish or restore.
LEMMA MediaEnvironment == Typed /\ IInv /\ Environment => MediaInv'
<1> SUFFICES ASSUME Typed, IInv, Environment PROVE MediaInv'
  OBVIOUS
<1>t. journal \in Journals /\ snap \in Snapshots /\ pc \in Points
  BY DEF Typed
<1>1. CASE ForeignWrite
  BY <1>1, <1>t DEF ForeignWrite, diskVars, memVars, PhaseInv, SnapInv, FreshInv, MediaInv,
     HeldInv
<1>2. CASE FirmwareNormalize
  BY <1>2, <1>t DEF FirmwareNormalize, Fault, diskVars, memVars, PhaseInv, SnapInv, FreshInv,
     MediaInv, HeldInv
<1>3. CASE LoseStaged
  BY <1>3, <1>t DEF LoseStaged, Fault, genVars, memVars, PhaseInv, SnapInv, FreshInv, MediaInv,
     HeldInv
<1>4. CASE Crash
  BY <1>4, <1>t DEF Crash, End, NoWork, genVars, PhaseInv, SnapInv, FreshInv, MediaInv, HeldInv
<1>5. CASE StopAdmission
  BY <1>5, <1>t DEF StopAdmission, Goto, genVars, diskVars, envVars, PhaseInv, SnapInv,
     FreshInv, MediaInv, HeldInv
<1>6. CASE EndSession
  BY <1>6, <1>t DEF EndSession, Fail, End, NoWork, genVars, diskVars, envVars, PhaseInv,
     SnapInv, FreshInv, MediaInv, HeldInv
<1>7. CASE \E w \in Works : BeginSync(w)
  BY <1>7, <1>t DEF BeginSync, genVars, diskVars, PhaseInv, SnapInv, FreshInv, MediaInv, HeldInv
<1> QED
  BY <1>1, <1>2, <1>3, <1>4, <1>5, <1>6, <1>7 DEF Environment

\* Acquiring the lease keeps the audio of every database it may publish or
\* restore.
LEMMA MediaAcquire == Typed /\ IInv /\ Acquire => MediaInv'
<1> SUFFICES ASSUME Typed, IInv, Acquire PROVE MediaInv'
  OBVIOUS
<1>t. journal \in Journals /\ snap \in Snapshots /\ pc \in Points
  BY DEF Typed
<1>1. CASE Acquire
  BY <1>1, <1>t DEF Acquire, genVars, diskVars, envVars, PhaseInv, SnapInv, FreshInv, MediaInv,
     HeldInv
<1> QED
  BY <1>1

-----------------------------------------------------------------------------
(* After the manifest, the recorded generations hold the candidate. *)

\* Recovering the journal a session finds keeps the recorded generations holding
\* the candidate.
LEMMA HeldRecovery == Typed /\ IInv /\ Recovery => HeldInv'
<1> SUFFICES ASSUME Typed, IInv, Recovery PROVE HeldInv'
  OBVIOUS
<1>t. journal \in Journals /\ snap \in Snapshots /\ pc \in Points
  BY DEF Typed
<1>1. CASE RecoverUndone
  BY <1>1, <1>t, LiveKept DEF RecoverUndone, Undone, Goto, genVars, PhaseInv, HeldInv
<1>2. CASE RecoverStaging
  BY <1>2, <1>t, LiveKept DEF RecoverStaging, Goto, genVars, PhaseInv, HeldInv
<1>3. CASE SaveAbandoned
  <2>1. CASE journal' = Abandoned
    <3>1. RecordsHeld' /\ journal'.seen = journal'.own
      BY <1>3, <1>t, <2>1 DEF SaveAbandoned, Abandoned, PhaseInv, HeldInv, RecordsHeld
    <3> QED
      BY <1>3, <1>t, <2>1, <3>1 DEF SaveAbandoned, Abandoned, Fail, End, Goto, HeldInv
  <2>2. CASE journal' # Abandoned
    BY <1>3, <1>t, <2>2, LiveKept DEF SaveAbandoned, Fail, End, PhaseInv, HeldInv, genVars
  <2> QED
    BY <2>1, <2>2
<1>4. CASE RemoveAbandonedDir
  BY <1>4, <1>t, LiveKept DEF RemoveAbandonedDir, Goto, genVars, PhaseInv, HeldInv
<1>5. CASE RecoverFirmware
  BY <1>5, <1>t, LiveKept DEF RecoverFirmware, Undone, Goto, genVars, PhaseInv, HeldInv
<1>6. CASE RecoverLost
  BY <1>6, <1>t, LiveKept DEF RecoverLost, Lost, Goto, Fail, End, NoWork, genVars, PhaseInv,
     HeldInv
<1>7. CASE RecoverPublish
  BY <1>7, <1>t, LiveKept DEF RecoverPublish, Undone, Lost, Goto, genVars, PhaseInv, HeldInv
<1> QED
  BY <1>1, <1>2, <1>3, <1>4, <1>5, <1>6, <1>7 DEF Recovery

\* Staging an album keeps the recorded generations holding the candidate.
LEMMA HeldStaged == Typed /\ IInv /\ Staged => HeldInv'
<1> SUFFICES ASSUME Typed, IInv, Staged PROVE HeldInv'
  OBVIOUS
<1>t. journal \in Journals /\ snap \in Snapshots /\ pc \in Points
  BY DEF Typed
<1>1. CASE \E f \in Tracks : StageFile(f)
  BY <1>1, <1>t, LiveKept DEF StageFile, Goto, genVars, PhaseInv, HeldInv
<1>2. CASE SaveAlbum
  BY <1>2, <1>t, LiveKept DEF SaveAlbum, NewJournal, NoJournal, Goto, genVars, PhaseInv, HeldInv
<1>3. CASE FinishStaging
  BY <1>3, <1>t, LiveKept DEF FinishStaging, Goto, genVars, PhaseInv, HeldInv
<1> QED
  BY <1>1, <1>2, <1>3 DEF Staged

\* Publication up to the verified database keeps the recorded generations
\* holding the candidate.
LEMMA HeldPublish == Typed /\ IInv /\ Publish => HeldInv'
<1> SUFFICES ASSUME Typed, IInv, Publish PROVE HeldInv'
  OBVIOUS
<1>t. journal \in Journals /\ snap \in Snapshots /\ pc \in Points
  BY DEF Typed
<1>1. CASE PublishFence
  BY <1>1, <1>t, LiveKept DEF PublishFence, Fence, Goto, Fail, End, NoWork, genVars, PhaseInv,
     HeldInv
<1>2. CASE Prepare
  <2>1. CASE \E o \in Outcomes : Fail(o)
    BY <2>1, <1>t, LiveKept DEF Fail, End, HeldInv, genVars
  <2>2. CASE ~ \E o \in Outcomes : Fail(o)
    <3>1. CASE journal.phase = Absent
      BY <1>2, <2>2, <3>1, PrepareIs DEF HeldInv
    <3>2. CASE journal.phase # Absent
      <4>1. journal.phase \in Published => LiveHeld
        BY <1>2, <1>t, <2>2, <3>2, PrepareIs DEF KnownLive, HeldInv, LiveHeld, RecordsHeld
      <4> QED
        BY <1>2, <1>t, <2>2, <3>2, <4>1, PrepareIs, LiveKept DEF SameInputs, HeldInv, genVars
    <3> QED
      BY <3>1, <3>2
  <2> QED
    BY <2>1, <2>2
<1>3. CASE PrepareArtwork
  BY <1>3, <1>t, LiveKept DEF PrepareArtwork, Goto, Fault, End, NoWork, genVars, PhaseInv, HeldInv
<1>4. CASE EnsurePreimage
  BY <1>4, <1>t, LiveKept DEF EnsurePreimage, Fail, End, NoWork, Goto, genVars, PhaseInv, HeldInv
<1>5. CASE EnsureSnapshot
  BY <1>5, <1>t, LiveKept DEF EnsureSnapshot, Goto, Fail, End, NoWork, genVars, PhaseInv, HeldInv
<1>6. CASE FillSnapshot
  BY <1>6, <1>t, LiveKept DEF FillSnapshot, Goto, genVars, PhaseInv, HeldInv
<1>7. CASE Dispatch
  BY <1>7, <1>t, LiveKept DEF Dispatch, Goto, genVars, PhaseInv, HeldInv
<1>8. CASE ResumeCandidate
  BY <1>8, <1>t, ResumeIs DEF ResumeCandidate, PhaseInv, HeldInv
<1>9. CASE OpenDatabase
  BY <1>9, <1>t, LiveKept DEF OpenDatabase, Goto, genVars, PhaseInv, HeldInv
<1>10. CASE \E f \in Tracks : ReserveFinal(f)
  BY <1>10, <1>t, LiveKept DEF ReserveFinal, Goto, genVars, PhaseInv, HeldInv
<1>11. CASE MoveStaged
  BY <1>11, <1>t, LiveKept DEF MoveStaged, Goto, genVars, PhaseInv, HeldInv
<1>12. CASE RecordAdded
  BY <1>12, <1>t, LiveKept DEF RecordAdded, Goto, genVars, PhaseInv, HeldInv
<1>13. CASE UpdateMetadata
  BY <1>13, <1>t, LiveKept DEF UpdateMetadata, Goto, genVars, PhaseInv, HeldInv
<1>14. CASE ReconcileCandidate
  <2>1. pc' \in {"dbfence", "known"} /\ journal'.phase = ReadyToPublish
    BY <1>14, <1>t DEF ReconcileCandidate, Goto, PhaseInv
  <2> QED
    BY <2>1 DEF HeldInv
<1>15. CASE DatabaseFence
  BY <1>15, <1>t, LiveKept DEF DatabaseFence, Fence, Goto, Fail, End, NoWork, genVars, PhaseInv,
     HeldInv
<1>16. CASE ClearArtwork
  BY <1>16, <1>t, LiveKept DEF ClearArtwork, Goto, PhaseInv, HeldInv
<1>17. CASE WriteArtwork
  BY <1>17, <1>t, LiveKept DEF WriteArtwork, Goto, WriteFault, Fault, RecordPublished, genVars,
     PhaseInv, HeldInv
<1>18. CASE WriteDatabase
  BY <1>18, <1>t, LiveKept DEF WriteDatabase, Goto, WriteFault, Fault, RecordPublished, genVars,
     PhaseInv, HeldInv
<1>19. CASE RecordWritten
  BY <1>19, <1>t, LiveKept DEF RecordWritten, RecordPublished, Goto, genVars, PhaseInv, HeldInv
<1>20. CASE VerifyWritten
  BY <1>20, <1>t, VerifyIs DEF VerifyWritten, PhaseInv, HeldInv
<1> QED
  BY <1>1, <1>2, <1>3, <1>4, <1>5, <1>6, <1>7, <1>8, <1>9, <1>10, <1>11, <1>12, <1>13, <1>14,
     <1>15, <1>16, <1>17, <1>18, <1>19, <1>20 DEF Publish

\* Publication after the verified database keeps the recorded generations
\* holding the candidate.
LEMMA HeldFinalize == Typed /\ IInv /\ Finalize => HeldInv'
<1> SUFFICES ASSUME Typed, IInv, Finalize PROVE HeldInv'
  OBVIOUS
<1>t. journal \in Journals /\ snap \in Snapshots /\ pc \in Points
  BY DEF Typed
<1>1. CASE CheckVerified
  <2>1. /\ pc' \in {"manfence", "known"} /\ journal'.phase = DatabaseVerified
        /\ pc' = "manfence" => LiveHeld' /\ journal'.seen = journal'.own
    <3>1. CASE Mismatch(CandidateHeld /\ PlaylistsHeld, "dbv", "terminal")
      BY <1>1, <1>t, <3>1 DEF CheckVerified, Mismatch, PhaseInv
    <3>2. CASE ~ Mismatch(CandidateHeld /\ PlaylistsHeld, "dbv", "terminal")
      <4>1. journal'.seen = journal'.own /\ journal'.phase = journal.phase
        BY <1>1, <1>t, <3>2 DEF CheckVerified
      <4> QED
        BY <1>1, <1>t, <3>2, <4>1, LiveKept, LiveIsHeld DEF CheckVerified, Goto, PhaseInv, genVars
    <3> QED
      BY <3>1, <3>2
  <2> QED
    BY <2>1 DEF HeldInv
<1>2. CASE ManifestFence
  BY <1>2, <1>t, LiveKept DEF ManifestFence, Fence, Goto, Fail, End, NoWork, genVars, PhaseInv,
     HeldInv
<1>3. CASE WriteManifest
  BY <1>3, <1>t, LiveKept DEF WriteManifest, Goto, Fault, genVars, PhaseInv, HeldInv
<1>4. CASE RecordManifest
  BY <1>4, <1>t, LiveKept DEF RecordManifest, RecordVerified, Goto, genVars, PhaseInv, HeldInv
<1>5. CASE Reverify
  BY <1>5, <1>t, LiveKept DEF Reverify, Goto, Resumed, Mismatch, Fault, genVars, PhaseInv, HeldInv
<1>6. CASE PlanFence
  BY <1>6, <1>t, LiveKept DEF PlanFence, Fence, Goto, Fail, End, NoWork, genVars, PhaseInv,
     HeldInv
<1>7. CASE PlanProjections
  <2>1. CASE \E o \in Outcomes : Fail(o)
    BY <2>1, <1>t, LiveKept DEF Fail, End, HeldInv, genVars
  <2>2. CASE ~ \E o \in Outcomes : Fail(o)
    BY <1>7, <1>t, <2>2, PlanIs, LiveKept DEF PlanProjections, SameInputs, HeldInv, genVars
  <2> QED
    BY <2>1, <2>2
<1>8. CASE OwnershipFence
  BY <1>8, <1>t, LiveKept DEF OwnershipFence, Fence, Goto, Fail, End, NoWork, genVars, PhaseInv,
     HeldInv
<1>9. CASE WriteOwnership
  BY <1>9, <1>t, LiveKept DEF WriteOwnership, Goto, Fault, Interrupted, End, NoWork, genVars,
     PhaseInv, HeldInv
<1>10. CASE PhaseOwnership
  BY <1>10, <1>t, LiveKept DEF PhaseOwnership, Goto, genVars, PhaseInv, HeldInv
<1>11. CASE RecordOwnership
  BY <1>11, <1>t, LiveKept DEF RecordOwnership, RecordVerified, Goto, genVars, PhaseInv, HeldInv
<1>12. CASE ProjectionFence
  BY <1>12, <1>t, LiveKept DEF ProjectionFence, Fence, Goto, Fail, End, NoWork, genVars,
     PhaseInv, HeldInv
<1>13. CASE WriteProjection
  BY <1>13, <1>t, LiveKept DEF WriteProjection, Goto, Fault, Interrupted, End, NoWork, genVars,
     PhaseInv, HeldInv
<1>14. CASE RemovePrevious
  BY <1>14, <1>t, LiveKept DEF RemovePrevious, Goto, Fault, Interrupted, End, NoWork, genVars,
     PhaseInv, HeldInv
<1>15. CASE PhaseProjection
  BY <1>15, <1>t, LiveKept DEF PhaseProjection, Goto, genVars, PhaseInv, HeldInv
<1>16. CASE RecordProjection
  BY <1>16, <1>t, LiveKept DEF RecordProjection, RecordVerified, Goto, genVars, PhaseInv, HeldInv
<1>17. CASE AuthorityFence
  BY <1>17, <1>t, LiveKept DEF AuthorityFence, Fence, Goto, Fail, End, NoWork, genVars,
     PhaseInv, HeldInv
<1>18. CASE WriteAuthority
  BY <1>18, <1>t, LiveKept DEF WriteAuthority, Goto, PhaseInv, HeldInv
<1>19. CASE RecordAuthority
  BY <1>19, <1>t, LiveKept DEF RecordAuthority, RecordVerified, Goto, genVars, PhaseInv, HeldInv
<1> QED
  BY <1>1, <1>2, <1>3, <1>4, <1>5, <1>6, <1>7, <1>8, <1>9, <1>10, <1>11, <1>12, <1>13, <1>14,
     <1>15, <1>16, <1>17, <1>18, <1>19 DEF Finalize

\* Cleanup of a completed journal keeps the recorded generations holding the
\* candidate.
LEMMA HeldCleanup == Typed /\ IInv /\ Cleanup => HeldInv'
<1> SUFFICES ASSUME Typed, IInv, Cleanup PROVE HeldInv'
  OBVIOUS
<1>t. journal \in Journals /\ snap \in Snapshots /\ pc \in Points
  BY DEF Typed
<1>1. CASE CleanStaged
  BY <1>1, <1>t, LiveKept DEF CleanStaged, Goto, genVars, PhaseInv, HeldInv
<1>2. CASE RemoveObsolete
  BY <1>2, <1>t, LiveKept DEF RemoveObsolete, Goto, genVars, PhaseInv, HeldInv
<1>3. CASE SaveCleanup
  BY <1>3, <1>t, LiveKept DEF SaveCleanup, Goto, genVars, PhaseInv, HeldInv
<1>4. CASE RemoveStagedDir
  BY <1>4, <1>t, LiveKept DEF RemoveStagedDir, Goto, Fail, End, NoWork, genVars, PhaseInv, HeldInv
<1>5. CASE RemoveSnapshot
  BY <1>5, <1>t, LiveKept DEF RemoveSnapshot, Goto, Fail, End, NoWork, genVars, PhaseInv, HeldInv
<1>6. CASE EmptySnapshot
  BY <1>6, <1>t, LiveKept DEF EmptySnapshot, Goto, genVars, PhaseInv, HeldInv
<1>7. CASE RemoveJournal
  BY <1>7, <1>t, LiveKept DEF RemoveJournal, NoJournal, NoWork, Goto, genVars, PhaseInv, HeldInv
<1> QED
  BY <1>1, <1>2, <1>3, <1>4, <1>5, <1>6, <1>7 DEF Cleanup

\* Restoring the snapshot keeps the recorded generations holding the candidate.
LEMMA HeldRollback == Typed /\ IInv /\ Rollback => HeldInv'
<1> SUFFICES ASSUME Typed, IInv, Rollback PROVE HeldInv'
  OBVIOUS
<1>t. journal \in Journals /\ snap \in Snapshots /\ pc \in Points
  BY DEF Typed
<1>1. CASE KnownRollback
  BY <1>1, <1>t, LiveKept DEF KnownRollback, Goto, Fail, End, NoWork, genVars, PhaseInv, HeldInv
<1>2. CASE RestoreClear
  BY <1>2, <1>t, LiveKept DEF RestoreClear, Goto, Fail, End, NoWork, genVars, PhaseInv, HeldInv
<1>3. CASE RestoreArtwork
  BY <1>3, <1>t, LiveKept DEF RestoreArtwork, Goto, PhaseInv, HeldInv
<1>4. CASE RestoreDatabase
  BY <1>4, <1>t, LiveKept DEF RestoreDatabase, Goto, PhaseInv, HeldInv
<1>5. CASE \E f \in Tracks : RestoreStaged(f)
  BY <1>5, <1>t, LiveKept DEF RestoreStaged, Preserving, Goto, genVars, PhaseInv, HeldInv
<1>6. CASE ResumeRestored
  BY <1>6, <1>t, LiveKept DEF ResumeRestored, Reset, Goto, genVars, PhaseInv, HeldInv
<1>7. CASE UndoneRollback
  BY <1>7, <1>t, LiveKept DEF UndoneRollback, Reset, Goto, genVars, PhaseInv, HeldInv
<1>8. CASE MovedBack
  BY <1>8, <1>t, LiveKept DEF MovedBack, Goto, genVars, PhaseInv, HeldInv
<1>9. CASE DropStaged
  BY <1>9, <1>t, LiveKept DEF DropStaged, Preserving, Goto, genVars, PhaseInv, HeldInv
<1>10. CASE RestoreManifest
  BY <1>10, <1>t, LiveKept DEF RestoreManifest, Goto, Fail, End, NoWork, genVars, PhaseInv,
     HeldInv
<1>11. CASE FinishRollback
  <2>1. journal'.phase \notin Published \cup {Staging} /\ pc' \in {"off", "rmstaged"}
    BY <1>11, <1>t, FinishIs DEF FinishRollback, PhaseInv
  <2> QED
    BY <2>1 DEF HeldInv
<1> QED
  BY <1>1, <1>2, <1>3, <1>4, <1>5, <1>6, <1>7, <1>8, <1>9, <1>10, <1>11 DEF Rollback

\* A step of the environment (an edit, a crash, the start or end of a sync)
\* keeps the recorded generations holding the candidate.
LEMMA HeldEnvironment == Typed /\ IInv /\ Environment => HeldInv'
<1> SUFFICES ASSUME Typed, IInv, Environment PROVE HeldInv'
  OBVIOUS
<1>t. journal \in Journals /\ snap \in Snapshots /\ pc \in Points
  BY DEF Typed
<1>1. CASE ForeignWrite
  <2>1. LiveHeld' <=> LiveHeld
    BY <1>1 DEF ForeignWrite, Typed, Databases, diskVars, memVars, LiveHeld, HoldsCandidate, Gen
  <2> QED
    BY <1>1, <1>t, <2>1, LiveKept DEF ForeignWrite, HeldInv
<1>2. CASE FirmwareNormalize
  BY <1>2, <1>t, LiveKept DEF FirmwareNormalize, Fault, PhaseInv, HeldInv
<1>3. CASE LoseStaged
  BY <1>3, <1>t, LiveKept DEF LoseStaged, Fault, genVars, PhaseInv, HeldInv
<1>4. CASE Crash
  BY <1>4, <1>t, LiveKept DEF Crash, End, NoWork, genVars, PhaseInv, HeldInv
<1>5. CASE StopAdmission
  BY <1>5, <1>t, LiveKept DEF StopAdmission, Goto, genVars, PhaseInv, HeldInv
<1>6. CASE EndSession
  BY <1>6, <1>t, LiveKept DEF EndSession, Fail, End, NoWork, genVars, PhaseInv, HeldInv
<1>7. CASE \E w \in Works : BeginSync(w)
  BY <1>7, <1>t, LiveKept DEF BeginSync, genVars, PhaseInv, HeldInv
<1> QED
  BY <1>1, <1>2, <1>3, <1>4, <1>5, <1>6, <1>7 DEF Environment

\* Acquiring the lease keeps the recorded generations holding the candidate.
LEMMA HeldAcquire == Typed /\ IInv /\ Acquire => HeldInv'
<1> SUFFICES ASSUME Typed, IInv, Acquire PROVE HeldInv'
  OBVIOUS
<1>t. journal \in Journals /\ snap \in Snapshots /\ pc \in Points
  BY DEF Typed
<1>1. CASE Acquire
  BY <1>1, <1>t, LiveKept DEF Acquire, genVars, PhaseInv, HeldInv
<1> QED
  BY <1>1

-----------------------------------------------------------------------------
(* A verified rollback stays one until the session that made it removes it.  *)

FinalStep ==
  journal.phase = RollbackComplete =>
    journal'.phase = RollbackComplete \/ (journal'.phase = Absent /\ why = "firmware")

\* Recovering the journal a session finds keeps a verified rollback closed, and
\* no step of it reopens one.
LEMMA FinalRecovery == Typed /\ IInv /\ Recovery => FinalInv' /\ FinalStep
<1> SUFFICES ASSUME Typed, IInv, Recovery PROVE FinalInv' /\ FinalStep
  OBVIOUS
<1>t. journal \in Journals /\ snap \in Snapshots /\ pc \in Points
  BY DEF Typed
<1>1. CASE RecoverUndone
  BY <1>1, <1>t DEF RecoverUndone, Undone, Goto, genVars, diskVars, memVars, envVars, PhaseInv,
     FinalInv, FinalStep
<1>2. CASE RecoverStaging
  BY <1>2, <1>t DEF RecoverStaging, Goto, genVars, memVars, envVars, PhaseInv, FinalInv, FinalStep
<1>3. CASE SaveAbandoned
  BY <1>3, <1>t DEF SaveAbandoned, Abandoned, Goto, Fail, End, NoWork, genVars, diskVars,
     memVars, envVars, PhaseInv, FinalInv, FinalStep
<1>4. CASE RemoveAbandonedDir
  BY <1>4, <1>t DEF RemoveAbandonedDir, Goto, genVars, memVars, envVars, PhaseInv, FinalInv,
     FinalStep
<1>5. CASE RecoverFirmware
  BY <1>5, <1>t DEF RecoverFirmware, Undone, Goto, genVars, diskVars, memVars, envVars,
     PhaseInv, FinalInv, FinalStep
<1>6. CASE RecoverLost
  BY <1>6, <1>t DEF RecoverLost, Lost, Goto, Fail, End, NoWork, genVars, diskVars, memVars,
     envVars, PhaseInv, FinalInv, FinalStep
<1>7. CASE RecoverPublish
  BY <1>7, <1>t DEF RecoverPublish, Undone, Lost, Goto, genVars, diskVars, memVars, envVars,
     PhaseInv, FinalInv, FinalStep
<1> QED
  BY <1>1, <1>2, <1>3, <1>4, <1>5, <1>6, <1>7 DEF Recovery

\* Staging an album keeps a verified rollback closed, and no step of it reopens
\* one.
LEMMA FinalStaged == Typed /\ IInv /\ Staged => FinalInv' /\ FinalStep
<1> SUFFICES ASSUME Typed, IInv, Staged PROVE FinalInv' /\ FinalStep
  OBVIOUS
<1>t. journal \in Journals /\ snap \in Snapshots /\ pc \in Points
  BY DEF Typed
<1>1. CASE \E f \in Tracks : StageFile(f)
  BY <1>1, <1>t DEF StageFile, Goto, genVars, memVars, envVars, PhaseInv, FinalInv, FinalStep
<1>2. CASE SaveAlbum
  BY <1>2, <1>t DEF SaveAlbum, NewJournal, NoJournal, Goto, genVars, diskVars, memVars, envVars,
     PhaseInv, FinalInv, FinalStep
<1>3. CASE FinishStaging
  BY <1>3, <1>t DEF FinishStaging, Goto, genVars, diskVars, memVars, envVars, PhaseInv,
     FinalInv, FinalStep
<1> QED
  BY <1>1, <1>2, <1>3 DEF Staged

\* Publication up to the verified database keeps a verified rollback closed, and
\* no step of it reopens one.
LEMMA FinalPublish == Typed /\ IInv /\ Publish => FinalInv' /\ FinalStep
<1> SUFFICES ASSUME Typed, IInv, Publish PROVE FinalInv' /\ FinalStep
  OBVIOUS
<1>t. journal \in Journals /\ snap \in Snapshots /\ pc \in Points
  BY DEF Typed
<1>1. CASE PublishFence
  BY <1>1, <1>t DEF PublishFence, Fence, Goto, Fail, End, NoWork, genVars, diskVars, memVars,
     envVars, PhaseInv, FinalInv, FinalStep
<1>2. CASE Prepare
  BY <1>2, <1>t, PrepareIs DEF Prepare, Fail, End, PhaseInv, FinalInv, FinalStep, genVars,
     diskVars, memVars, SameInputs
<1>3. CASE PrepareArtwork
  BY <1>3, <1>t DEF PrepareArtwork, Goto, Fault, End, NoWork, genVars, diskVars, memVars,
     envVars, PhaseInv, FinalInv, FinalStep
<1>4. CASE EnsurePreimage
  BY <1>4, <1>t DEF EnsurePreimage, Fail, End, NoWork, Goto, genVars, diskVars, memVars,
     envVars, PhaseInv, FinalInv, FinalStep
<1>5. CASE EnsureSnapshot
  BY <1>5, <1>t DEF EnsureSnapshot, Goto, Fail, End, NoWork, genVars, diskVars, memVars,
     envVars, PhaseInv, FinalInv, FinalStep
<1>6. CASE FillSnapshot
  BY <1>6, <1>t DEF FillSnapshot, Goto, genVars, memVars, envVars, PhaseInv, FinalInv, FinalStep
<1>7. CASE Dispatch
  BY <1>7, <1>t DEF Dispatch, Goto, genVars, diskVars, memVars, envVars, PhaseInv, FinalInv,
     FinalStep
<1>8. CASE ResumeCandidate
  BY <1>8, <1>t, ResumeIs DEF ResumeCandidate, PhaseInv, FinalInv, FinalStep, genVars, diskVars,
     memVars
<1>9. CASE OpenDatabase
  BY <1>9, <1>t DEF OpenDatabase, Goto, genVars, diskVars, envVars, PhaseInv, FinalInv, FinalStep
<1>10. CASE \E f \in Tracks : ReserveFinal(f)
  BY <1>10, <1>t DEF ReserveFinal, Goto, genVars, diskVars, envVars, PhaseInv, FinalInv, FinalStep
<1>11. CASE MoveStaged
  BY <1>11, <1>t DEF MoveStaged, Goto, genVars, memVars, envVars, PhaseInv, FinalInv, FinalStep
<1>12. CASE RecordAdded
  BY <1>12, <1>t DEF RecordAdded, Goto, genVars, diskVars, envVars, PhaseInv, FinalInv, FinalStep
<1>13. CASE UpdateMetadata
  BY <1>13, <1>t DEF UpdateMetadata, Goto, genVars, diskVars, envVars, PhaseInv, FinalInv,
     FinalStep
<1>14. CASE ReconcileCandidate
  BY <1>14, <1>t DEF ReconcileCandidate, Goto, Fault, genVars, diskVars, memVars, envVars,
     PhaseInv, FinalInv, FinalStep
<1>15. CASE DatabaseFence
  BY <1>15, <1>t DEF DatabaseFence, Fence, Goto, Fail, End, NoWork, genVars, diskVars, memVars,
     envVars, PhaseInv, FinalInv, FinalStep
<1>16. CASE ClearArtwork
  BY <1>16, <1>t DEF ClearArtwork, Goto, diskVars, memVars, envVars, PhaseInv, FinalInv, FinalStep
<1>17. CASE WriteArtwork
  BY <1>17, <1>t DEF WriteArtwork, Goto, WriteFault, Fault, RecordPublished, genVars, diskVars,
     memVars, envVars, PhaseInv, FinalInv, FinalStep
<1>18. CASE WriteDatabase
  BY <1>18, <1>t DEF WriteDatabase, Goto, WriteFault, Fault, RecordPublished, genVars, diskVars,
     memVars, envVars, PhaseInv, FinalInv, FinalStep
<1>19. CASE RecordWritten
  BY <1>19, <1>t DEF RecordWritten, RecordPublished, Goto, genVars, diskVars, memVars, envVars,
     PhaseInv, FinalInv, FinalStep
<1>20. CASE VerifyWritten
  BY <1>20, <1>t, VerifyIs DEF VerifyWritten, PhaseInv, FinalInv, FinalStep, genVars, diskVars,
     memVars
<1> QED
  BY <1>1, <1>2, <1>3, <1>4, <1>5, <1>6, <1>7, <1>8, <1>9, <1>10, <1>11, <1>12, <1>13, <1>14,
     <1>15, <1>16, <1>17, <1>18, <1>19, <1>20 DEF Publish

\* Publication after the verified database keeps a verified rollback closed, and
\* no step of it reopens one.
LEMMA FinalFinalize == Typed /\ IInv /\ Finalize => FinalInv' /\ FinalStep
<1> SUFFICES ASSUME Typed, IInv, Finalize PROVE FinalInv' /\ FinalStep
  OBVIOUS
<1>t. journal \in Journals /\ snap \in Snapshots /\ pc \in Points
  BY DEF Typed
<1>1. CASE CheckVerified
  BY <1>1, <1>t DEF CheckVerified, Goto, Mismatch, Fault, genVars, diskVars, memVars, envVars,
     PhaseInv, FinalInv, FinalStep
<1>2. CASE ManifestFence
  BY <1>2, <1>t DEF ManifestFence, Fence, Goto, Fail, End, NoWork, genVars, diskVars, memVars,
     envVars, PhaseInv, FinalInv, FinalStep
<1>3. CASE WriteManifest
  BY <1>3, <1>t DEF WriteManifest, Goto, Fault, genVars, diskVars, memVars, envVars, PhaseInv,
     FinalInv, FinalStep
<1>4. CASE RecordManifest
  BY <1>4, <1>t DEF RecordManifest, RecordVerified, Goto, genVars, diskVars, memVars, envVars,
     PhaseInv, FinalInv, FinalStep
<1>5. CASE Reverify
  BY <1>5, <1>t DEF Reverify, Goto, Resumed, Mismatch, Fault, genVars, diskVars, memVars,
     envVars, PhaseInv, FinalInv, FinalStep
<1>6. CASE PlanFence
  BY <1>6, <1>t DEF PlanFence, Fence, Goto, Fail, End, NoWork, genVars, diskVars, memVars,
     envVars, PhaseInv, FinalInv, FinalStep
<1>7. CASE PlanProjections
  BY <1>7, <1>t, PlanIs DEF PlanProjections, Fail, End, PhaseInv, FinalInv, FinalStep, genVars,
     diskVars, memVars
<1>8. CASE OwnershipFence
  BY <1>8, <1>t DEF OwnershipFence, Fence, Goto, Fail, End, NoWork, genVars, diskVars, memVars,
     envVars, PhaseInv, FinalInv, FinalStep
<1>9. CASE WriteOwnership
  BY <1>9, <1>t DEF WriteOwnership, Goto, Fault, Interrupted, End, NoWork, genVars, diskVars,
     memVars, envVars, PhaseInv, FinalInv, FinalStep
<1>10. CASE PhaseOwnership
  BY <1>10, <1>t DEF PhaseOwnership, Goto, genVars, diskVars, memVars, envVars, PhaseInv,
     FinalInv, FinalStep
<1>11. CASE RecordOwnership
  BY <1>11, <1>t DEF RecordOwnership, RecordVerified, Goto, genVars, diskVars, memVars, envVars,
     PhaseInv, FinalInv, FinalStep
<1>12. CASE ProjectionFence
  BY <1>12, <1>t DEF ProjectionFence, Fence, Goto, Fail, End, NoWork, genVars, diskVars,
     memVars, envVars, PhaseInv, FinalInv, FinalStep
<1>13. CASE WriteProjection
  BY <1>13, <1>t DEF WriteProjection, Goto, Fault, Interrupted, End, NoWork, genVars, diskVars,
     memVars, envVars, PhaseInv, FinalInv, FinalStep
<1>14. CASE RemovePrevious
  BY <1>14, <1>t DEF RemovePrevious, Goto, Fault, Interrupted, End, NoWork, genVars, diskVars,
     memVars, envVars, PhaseInv, FinalInv, FinalStep
<1>15. CASE PhaseProjection
  BY <1>15, <1>t DEF PhaseProjection, Goto, genVars, diskVars, memVars, envVars, PhaseInv,
     FinalInv, FinalStep
<1>16. CASE RecordProjection
  BY <1>16, <1>t DEF RecordProjection, RecordVerified, Goto, genVars, diskVars, memVars,
     envVars, PhaseInv, FinalInv, FinalStep
<1>17. CASE AuthorityFence
  BY <1>17, <1>t DEF AuthorityFence, Fence, Goto, Fail, End, NoWork, genVars, diskVars, memVars,
     envVars, PhaseInv, FinalInv, FinalStep
<1>18. CASE WriteAuthority
  BY <1>18, <1>t DEF WriteAuthority, Goto, diskVars, memVars, envVars, PhaseInv, FinalInv,
     FinalStep
<1>19. CASE RecordAuthority
  BY <1>19, <1>t DEF RecordAuthority, RecordVerified, Goto, genVars, diskVars, memVars, envVars,
     PhaseInv, FinalInv, FinalStep
<1> QED
  BY <1>1, <1>2, <1>3, <1>4, <1>5, <1>6, <1>7, <1>8, <1>9, <1>10, <1>11, <1>12, <1>13, <1>14,
     <1>15, <1>16, <1>17, <1>18, <1>19 DEF Finalize

\* Cleanup of a completed journal keeps a verified rollback closed, and no step
\* of it reopens one.
LEMMA FinalCleanup == Typed /\ IInv /\ Cleanup => FinalInv' /\ FinalStep
<1> SUFFICES ASSUME Typed, IInv, Cleanup PROVE FinalInv' /\ FinalStep
  OBVIOUS
<1>t. journal \in Journals /\ snap \in Snapshots /\ pc \in Points
  BY DEF Typed
<1>1. CASE CleanStaged
  BY <1>1, <1>t DEF CleanStaged, Goto, genVars, memVars, envVars, PhaseInv, FinalInv, FinalStep
<1>2. CASE RemoveObsolete
  BY <1>2, <1>t DEF RemoveObsolete, Goto, genVars, memVars, envVars, PhaseInv, FinalInv, FinalStep
<1>3. CASE SaveCleanup
  BY <1>3, <1>t DEF SaveCleanup, Goto, genVars, diskVars, memVars, envVars, PhaseInv, FinalInv,
     FinalStep
<1>4. CASE RemoveStagedDir
  BY <1>4, <1>t DEF RemoveStagedDir, Goto, Fail, End, NoWork, genVars, diskVars, memVars,
     envVars, PhaseInv, FinalInv, FinalStep
<1>5. CASE RemoveSnapshot
  BY <1>5, <1>t DEF RemoveSnapshot, Goto, Fail, End, NoWork, genVars, diskVars, memVars,
     envVars, PhaseInv, FinalInv, FinalStep
<1>6. CASE EmptySnapshot
  BY <1>6, <1>t DEF EmptySnapshot, Goto, genVars, memVars, envVars, PhaseInv, FinalInv, FinalStep
<1>7. CASE RemoveJournal
  BY <1>7, <1>t DEF RemoveJournal, NoJournal, NoWork, Goto, genVars, diskVars, envVars,
     PhaseInv, FinalInv, FinalStep
<1> QED
  BY <1>1, <1>2, <1>3, <1>4, <1>5, <1>6, <1>7 DEF Cleanup

\* Restoring the snapshot keeps a verified rollback closed, and no step of it
\* reopens one.
LEMMA FinalRollback == Typed /\ IInv /\ Rollback => FinalInv' /\ FinalStep
<1> SUFFICES ASSUME Typed, IInv, Rollback PROVE FinalInv' /\ FinalStep
  OBVIOUS
<1>t. journal \in Journals /\ snap \in Snapshots /\ pc \in Points
  BY DEF Typed
<1>1. CASE KnownRollback
  BY <1>1, <1>t DEF KnownRollback, Goto, Fail, End, NoWork, genVars, diskVars, memVars, envVars,
     PhaseInv, FinalInv, FinalStep
<1>2. CASE RestoreClear
  BY <1>2, <1>t DEF RestoreClear, Goto, Fail, End, NoWork, genVars, diskVars, memVars, envVars,
     PhaseInv, FinalInv, FinalStep
<1>3. CASE RestoreArtwork
  BY <1>3, <1>t DEF RestoreArtwork, Goto, diskVars, memVars, envVars, PhaseInv, FinalInv,
     FinalStep
<1>4. CASE RestoreDatabase
  BY <1>4, <1>t DEF RestoreDatabase, Goto, diskVars, memVars, envVars, PhaseInv, FinalInv,
     FinalStep
<1>5. CASE \E f \in Tracks : RestoreStaged(f)
  BY <1>5, <1>t DEF RestoreStaged, Preserving, Goto, genVars, memVars, envVars, PhaseInv,
     FinalInv, FinalStep
<1>6. CASE ResumeRestored
  BY <1>6, <1>t DEF ResumeRestored, Reset, Goto, genVars, diskVars, memVars, envVars, PhaseInv,
     FinalInv, FinalStep
<1>7. CASE UndoneRollback
  BY <1>7, <1>t DEF UndoneRollback, Reset, Goto, genVars, diskVars, memVars, envVars, PhaseInv,
     FinalInv, FinalStep
<1>8. CASE MovedBack
  BY <1>8, <1>t DEF MovedBack, Goto, genVars, diskVars, memVars, envVars, PhaseInv, FinalInv,
     FinalStep
<1>9. CASE DropStaged
  BY <1>9, <1>t DEF DropStaged, Preserving, Goto, genVars, memVars, envVars, PhaseInv, FinalInv,
     FinalStep
<1>10. CASE RestoreManifest
  BY <1>10, <1>t DEF RestoreManifest, Goto, Fail, End, NoWork, genVars, diskVars, memVars,
     envVars, PhaseInv, FinalInv, FinalStep
<1>11. CASE FinishRollback
  BY <1>11, <1>t DEF FinishRollback, Reset, Fail, End, NoWork, Goto, genVars, diskVars, memVars,
     envVars, PhaseInv, FinalInv, FinalStep
<1> QED
  BY <1>1, <1>2, <1>3, <1>4, <1>5, <1>6, <1>7, <1>8, <1>9, <1>10, <1>11 DEF Rollback

\* A step of the environment (an edit, a crash, the start or end of a sync)
\* keeps a verified rollback closed, and no step of it reopens one.
LEMMA FinalEnvironment == Typed /\ IInv /\ Environment => FinalInv' /\ FinalStep
<1> SUFFICES ASSUME Typed, IInv, Environment PROVE FinalInv' /\ FinalStep
  OBVIOUS
<1>t. journal \in Journals /\ snap \in Snapshots /\ pc \in Points
  BY DEF Typed
<1>1. CASE ForeignWrite
  BY <1>1, <1>t DEF ForeignWrite, diskVars, memVars, PhaseInv, FinalInv, FinalStep
<1>2. CASE FirmwareNormalize
  BY <1>2, <1>t DEF FirmwareNormalize, Fault, diskVars, memVars, PhaseInv, FinalInv, FinalStep
<1>3. CASE LoseStaged
  BY <1>3, <1>t DEF LoseStaged, Fault, genVars, memVars, PhaseInv, FinalInv, FinalStep
<1>4. CASE Crash
  BY <1>4, <1>t DEF Crash, End, NoWork, genVars, PhaseInv, FinalInv, FinalStep
<1>5. CASE StopAdmission
  BY <1>5, <1>t DEF StopAdmission, Goto, genVars, diskVars, envVars, PhaseInv, FinalInv, FinalStep
<1>6. CASE EndSession
  BY <1>6, <1>t DEF EndSession, Fail, End, NoWork, genVars, diskVars, envVars, PhaseInv,
     FinalInv, FinalStep
<1>7. CASE \E w \in Works : BeginSync(w)
  BY <1>7, <1>t DEF BeginSync, genVars, diskVars, PhaseInv, FinalInv, FinalStep
<1> QED
  BY <1>1, <1>2, <1>3, <1>4, <1>5, <1>6, <1>7 DEF Environment

\* Acquiring the lease keeps a verified rollback closed, and no step of it
\* reopens one.
LEMMA FinalAcquire == Typed /\ IInv /\ Acquire => FinalInv' /\ FinalStep
<1> SUFFICES ASSUME Typed, IInv, Acquire PROVE FinalInv' /\ FinalStep
  OBVIOUS
<1>t. journal \in Journals /\ snap \in Snapshots /\ pc \in Points
  BY DEF Typed
<1>1. CASE Acquire
  BY <1>1, <1>t DEF Acquire, genVars, diskVars, envVars, PhaseInv, FinalInv, FinalStep
<1> QED
  BY <1>1

-----------------------------------------------------------------------------
(* The invariant, and what follows from it.                                  *)

\* A device that is at rest meets the invariant.
LEMMA InvInit == Init => IInv
<1> SUFFICES ASSUME Init PROVE IInv
  OBVIOUS
<1>1. journal.phase = Absent /\ journal.before = {} /\ journal.staged = {} /\ journal.final = {}
  BY DEF Init, NoJournal
<1>2. snap.state = "none" /\ pc = "off" /\ pending = {} /\ db.tracks = media
  BY DEF Init
<1> QED
  BY <1>1, <1>2 DEF PhaseInv, SnapInv, FreshInv, MediaInv, HeldInv, FinalInv

\* The invariant depends on nothing but the variables.
LEMMA InvFrame == IInv /\ UNCHANGED vars => IInv'
<1> SUFFICES ASSUME IInv, UNCHANGED vars PROVE IInv'
  OBVIOUS
<1>1. /\ UNCHANGED <<db, art, manifest, owner, boxes, profile>>
      /\ UNCHANGED <<media, pending, snap, journal, mdb, work, cur, pc, why>>
  BY DEF vars, genVars, diskVars, memVars
<1>2. (LiveHeld' <=> LiveHeld) /\ (RecordsHeld' <=> RecordsHeld)
  BY <1>1 DEF LiveHeld, RecordsHeld, HoldsCandidate, Gen
<1> QED
  BY <1>1, <1>2 DEF PhaseInv, SnapInv, FreshInv, MediaInv, HeldInv, FinalInv

\* Every step keeps the invariant: the lemmas above, one per group of actions
\* and conjunct.
LEMMA InvStep ==
  ASSUME CacheWhole, Typed, IInv, [Next]_vars
  PROVE  IInv'
<1>1. CASE UNCHANGED vars
  BY <1>1, InvFrame
<1>2. CASE Next
  <2>1. PhaseInv'
    BY <1>2, PhaseRecovery, PhaseStaged, PhasePublish, PhaseFinalize, PhaseCleanup,
       PhaseRollback, PhaseEnvironment, PhaseAcquire DEF Next, Session
  <2>2. SnapInv'
    BY <1>2, SnapRecovery, SnapStaged, SnapPublish, SnapFinalize, SnapCleanup,
       SnapRollback, SnapEnvironment, SnapAcquire DEF Next, Session
  <2>3. FreshInv'
    BY <1>2, FreshRecovery, FreshStaged, FreshPublish, FreshFinalize, FreshCleanup,
       FreshRollback, FreshEnvironment, FreshAcquire DEF Next, Session
  <2>4. MediaInv'
    BY <1>2, MediaRecovery, MediaStaged, MediaPublish, MediaFinalize, MediaCleanup,
       MediaRollback, MediaEnvironment, MediaAcquire DEF Next, Session
  <2>5. HeldInv'
    BY <1>2, HeldRecovery, HeldStaged, HeldPublish, HeldFinalize, HeldCleanup,
       HeldRollback, HeldEnvironment, HeldAcquire DEF Next, Session
  <2>6. FinalInv'
    BY <1>2, FinalRecovery, FinalStaged, FinalPublish, FinalFinalize, FinalCleanup,
       FinalRollback, FinalEnvironment, FinalAcquire DEF Next, Session
  <2> QED
    BY <2>1, <2>2, <2>3, <2>4, <2>5, <2>6
<1> QED
  BY <1>1, <1>2

\* The phases, the snapshot, the staged audio and the recorded generations of
\* sync_transaction.rs keep their promises at every step, wherever a crash, a
\* failure, a foreign edit or a loss falls.
THEOREM InvariantHolds == ASSUME CacheWhole PROVE Spec => []IInv
<1>1. Init => Typed /\ IInv
  BY TypeInit, InvInit
<1>2. Typed /\ IInv /\ [Next]_vars => (Typed /\ IInv)'
  BY TypeStep, InvStep
<1> QED
  BY <1>1, <1>2, PTL DEF Spec

\* The database on the device never names audio the device does not hold,
\* whatever step of a publication, a rollback or a recovery a crash falls
\* behind, as long as this host's artwork cache lets a verified database be
\* verified again.
THEOREM NoDanglingSafe == ASSUME CacheWhole PROVE Spec => []NoDangling
<1>1. IInv => NoDangling
  BY DEF MediaInv, NoDangling
<1> QED
  BY <1>1, InvariantHolds, PTL

\* A verified rollback is terminal (publish_unfenced refuses its journal, and no
\* recovery branch but the firmware abandonment that wrote it touches it).
THEOREM RollbackFinal == ASSUME CacheWhole PROVE Spec => RollbackIsFinal
<1>1. Typed /\ IInv /\ [Next]_vars => [FinalStep]_vars
  BY FinalRecovery, FinalStaged, FinalPublish, FinalFinalize, FinalCleanup, FinalRollback,
     FinalEnvironment, FinalAcquire DEF Next, Session
<1> QED
  BY <1>1, TypedAlways, InvariantHolds, PTL DEF Spec, RollbackIsFinal, FinalStep
=============================================================================
