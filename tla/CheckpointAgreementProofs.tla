--------------------- MODULE CheckpointAgreementProofs ----------------------
(* What the files of the device have to do with each other at every point of *)
(* a publication, a rollback and a recovery, for any tracks, playlists,      *)
(* works, crash points and budgets: one lemma per part of AgreeInv and group *)
(* of actions, one step per action.  Then what follows from it:              *)
(* JournalLoads, AuthoritiesAgree, RetryKeepsInputs and ForeignPreserved,    *)
(* each under what the environment must not do for it to hold.               *)
EXTENDS CheckpointProofs, CheckpointAgreement

USE DEF IInv, Absent, Staging, ReadyToPublish, DatabaseVerified, DeviceManifestPublished,
  RockboxProjectionsPrepared, PlaylistOwnershipPublished, RockboxProjectionsPublished,
  CleanupComplete, RollbackComplete, Published, WritePoints, VerifiedPoints, LatePoints,
  SetupPoints, RollbackPoints, RemovalPoints, Journals, Snapshots, OpenPhases, ForwardPhases,
  ClosedPhases, FillPoints, BuiltPoints, WrittenPoints, BackPoints, ListPoints, OwnedPoints,
  BoxedPoints, EndPoints

-----------------------------------------------------------------------------
(* What the operations that build a new journal leave in it.                 *)

\* What recording a verified generation leaves of the projection plan.
LEMMA VerifiedPlan ==
  ASSUME NEW j \in Journals, RecordVerified(j)
  PROVE  journal'.plan <=> j.plan
  BY DEF RecordVerified

\* What preparing a journal that is there already leaves in it.
LEMMA PrepareKeeps ==
  ASSUME Typed, Prepare
  PROVE  \/ \E o \in Outcomes : Fail(o)
         \/ journal.phase # Absent => (journal'.plan <=> journal.plan)
<1> SUFFICES ASSUME ~ \E o \in Outcomes : Fail(o), journal.phase # Absent
             PROVE  journal'.plan <=> journal.plan
  OBVIOUS
<1>1. journal' = [journal EXCEPT !.before = IF @ = {} THEN {Gen} ELSE @]
  BY DEF Prepare, Outcomes
<1>2. journal \in Journals
  BY DEF Typed
<1> QED
  BY <1>1, <1>2

\* What the first save of a journal holds.
LEMMA PrepareFirst ==
  ASSUME Typed, Prepare, journal.phase = Absent
  PROVE  \/ \E o \in Outcomes : Fail(o)
         \/ /\ journal'.cand = {} /\ journal'.pre = {} /\ ~ journal'.plan
            /\ journal'.obsolete \subseteq work.obsolete
<1> SUFFICES ASSUME ~ \E o \in Outcomes : Fail(o)
             PROVE  /\ journal'.cand = {} /\ journal'.pre = {} /\ ~ journal'.plan
                    /\ journal'.obsolete \subseteq work.obsolete
  OBVIOUS
<1> DEFINE j == NewJournal(pending)
<1>1. journal' = [j EXCEPT !.before = IF @ = {} THEN {Gen} ELSE @]
  BY DEF Prepare, Outcomes
<1>2. j \in Journals
  BY NewTyped DEF Typed
<1>3. /\ j.cand = {} /\ j.pre = {} /\ j.plan = FALSE
      /\ j.obsolete = IF work.staged \subseteq pending THEN work.obsolete ELSE {}
  BY DEF NewJournal, NoJournal
<1> HIDE DEF j
<1>4. journal'.cand = j.cand /\ journal'.pre = j.pre /\ journal'.obsolete = j.obsolete
  BY <1>1, <1>2
<1>5. journal'.plan = j.plan
  BY <1>1, <1>2
<1> QED
  BY <1>3, <1>4, <1>5

\* What adopting the candidate a session left behind records.
LEMMA ResumeRecords ==
  ASSUME Typed, ResumeCandidate
  PROVE  /\ pc' = "open" => journal.cand = {}
         /\ pc' = "dbv" =>
              /\ journal.cand # {} /\ CandidateHeld
              /\ journal'.published = {} /\ journal'.verified = {Gen}
              /\ journal'.seen = journal.seen /\ (journal'.plan <=> journal.plan)
<1> DEFINE j == [journal EXCEPT !.phase = DatabaseVerified]
<1>1. j \in Journals /\ j.seen = journal.seen /\ (j.plan <=> journal.plan)
  BY DEF Typed
<1> HIDE DEF j
<1>2. RecordVerified(j) => /\ journal'.published = {} /\ journal'.verified = {Gen}
                           /\ journal'.seen = journal.seen /\ (journal'.plan <=> journal.plan)
  BY <1>1, VerifiedIs, VerifiedPlan
<1> QED
  BY <1>2 DEF ResumeCandidate, Goto, j

\* What verifying the written database records.
LEMMA VerifyRecords ==
  ASSUME Typed, VerifyWritten, pc' = "dbv"
  PROVE  /\ CandidateHeld /\ PlaylistsHeld
         /\ journal'.published = {} /\ journal'.verified = {Gen}
         /\ journal'.seen = journal.seen \cup journal.own /\ (journal'.plan <=> journal.plan)
<1> DEFINE j == [journal EXCEPT !.phase = DatabaseVerified, !.seen = @ \cup journal.own]
<1>t. journal \in Journals
  BY DEF Typed
<1>1. j \in Journals
  BY <1>t, SeenTyped
<1>2. j.seen = journal.seen \cup journal.own /\ (j.plan <=> journal.plan)
  BY <1>t
<1> HIDE DEF j
<1>3. RecordVerified(j) => /\ journal'.published = {} /\ journal'.verified = {Gen}
                           /\ journal'.seen = journal.seen \cup journal.own
                           /\ (journal'.plan <=> journal.plan)
  BY <1>1, <1>2, VerifiedIs, VerifiedPlan
<1> QED
  BY <1>3 DEF VerifyWritten, Mismatch, Goto, j

\* What planning the projections records.
LEMMA PlanRecords ==
  ASSUME Typed, PlanProjections, pc' = "ownfence"
  PROVE  journal'.plan
<1> DEFINE j == [journal EXCEPT !.phase = RockboxProjectionsPrepared, !.plan = TRUE]
<1>t. journal \in Journals
  BY DEF Typed
<1>1. j \in Journals
  BY <1>t, PlanTyped
<1>2. j.plan
  BY <1>t
<1> HIDE DEF j
<1>3. RecordVerified(j) => journal'.plan
  BY <1>1, <1>2, VerifiedPlan
<1> QED
  BY <1>3 DEF PlanProjections, Goto, Fail, End, j

\* A journal that was rolled back to be published again.
Restored ==
  /\ journal'.phase = ReadyToPublish /\ journal'.before = journal.before
  /\ journal'.staged = journal.staged /\ journal'.obsolete = journal.obsolete
  /\ journal'.pre = journal.pre
  /\ journal'.final = {} /\ journal'.cand = {} /\ journal'.own = {} /\ journal'.seen = {}
  /\ journal'.published = {} /\ journal'.verified = {} /\ ~ journal'.plan

\* What the reset journal of a rollback holds.
LEMMA RestoredIs ==
  ASSUME journal \in Journals,
         journal' = [Reset(journal) EXCEPT !.phase = ReadyToPublish, !.published = {},
                   !.verified = {}]
  PROVE  Restored
<1> DEFINE r == Reset(journal)
<1>1. r \in Journals
  BY ResetTyped
<1>2. /\ r.before = journal.before /\ r.staged = journal.staged /\ r.obsolete = journal.obsolete
      /\ r.pre = journal.pre /\ r.final = {} /\ r.cand = {} /\ r.own = {} /\ r.seen = {}
      /\ ~ r.plan
  BY DEF Reset
<1> HIDE DEF r
<1>3. journal' = [r EXCEPT !.phase = ReadyToPublish, !.published = {}, !.verified = {}]
  BY DEF r
<1> QED
  BY <1>1, <1>2, <1>3 DEF Restored

\* A journal closed by a verified rollback.
Closed ==
  /\ journal'.phase = RollbackComplete /\ journal'.before = journal.before
  /\ SameInputs(journal, journal') /\ journal'.seen = journal.seen
  /\ journal'.published = {} /\ journal'.verified = {Gen}
  /\ journal'.plan <=> journal.plan

\* The outcomes of the last step of a rollback.
LEMMA FinishRecords ==
  ASSUME Typed, FinishRollback
  PROVE  /\ UNCHANGED <<genVars, diskVars>>
         /\ \/ pc' = "off" /\ why' = "none" /\ UNCHANGED journal
            \/ /\ journal.before = {Gen} /\ why = "retry"
               /\ pc' = "off" /\ why' = "none" /\ Restored
            \/ /\ journal.before = {Gen} /\ why # "retry"
               /\ IF why = "firmware" THEN pc' = "rmstaged" /\ why' = why
                  ELSE pc' = "off" /\ why' = "none"
               /\ Closed
<1> DEFINE a == [Reset(journal) EXCEPT !.phase = ReadyToPublish, !.published = {}, !.verified = {}]
           b == [journal EXCEPT !.phase = RollbackComplete, !.published = {}, !.verified = {Gen}]
<1>1. journal' = a => Restored
  BY RestoredIs DEF Typed
<1>2. journal' = b => Closed
  BY DEF Typed, SameInputs, Closed
<1>3. FinishRollback => \/ Fail("blocked")
           \/ /\ journal.before = {Gen} /\ journal' = (IF why = "retry" THEN a ELSE b)
              /\ why # "firmware" /\ pc' = "off" /\ why' = "none"
              /\ UNCHANGED <<genVars, diskVars>>
           \/ /\ journal.before = {Gen} /\ journal' = (IF why = "retry" THEN a ELSE b)
              /\ why = "firmware" /\ why' = why
              /\ pc' = "rmstaged" /\ UNCHANGED <<genVars, diskVars>>
  BY DEF FinishRollback, End, Goto
<1> HIDE DEF a, b
<1> QED
  BY <1>1, <1>2, <1>3 DEF Fail, End

\* A save that changes nothing but the phase.
LEMMA PhaseIs ==
  ASSUME NEW p, journal \in Journals, journal' = [journal EXCEPT !.phase = p]
  PROVE  /\ journal'.phase = p /\ SameInputs(journal, journal') /\ SameRecords(journal, journal')
         /\ journal'.seen = journal.seen /\ (journal'.plan <=> journal.plan)
  BY DEF SameInputs, SameRecords

\* A save that changes nothing but the published generation.
LEMMA PublishedIs ==
  ASSUME journal \in Journals, journal' = [journal EXCEPT !.published = {Gen}]
  PROVE  /\ journal'.phase = journal.phase /\ SameInputs(journal, journal')
         /\ journal'.before = journal.before /\ journal'.verified = journal.verified
         /\ journal'.published = {Gen}
         /\ journal'.seen = journal.seen /\ (journal'.plan <=> journal.plan)
  BY DEF SameInputs

\* A save that records the live generation as verified.
LEMMA RecordIs ==
  ASSUME journal \in Journals, RecordVerified(journal)
  PROVE  /\ journal'.phase = journal.phase /\ SameInputs(journal, journal')
         /\ journal'.before = journal.before /\ journal'.verified = {Gen}
         /\ journal'.published = {}
         /\ journal'.seen = journal.seen /\ (journal'.plan <=> journal.plan)
  BY VerifiedIs, VerifiedPlan

\* What the manifest's record leaves in the journal.
LEMMA ManifestIs ==
  ASSUME journal \in Journals,
         RecordVerified([journal EXCEPT !.phase = DeviceManifestPublished])
  PROVE  /\ journal'.phase = DeviceManifestPublished /\ SameInputs(journal, journal')
         /\ journal'.before = journal.before /\ journal'.verified = {Gen}
         /\ journal'.published = {}
         /\ journal'.seen = journal.seen /\ (journal'.plan <=> journal.plan)
<1> DEFINE j == [journal EXCEPT !.phase = DeviceManifestPublished]
<1>1. /\ j \in Journals /\ SameInputs(journal, j) /\ j.phase = DeviceManifestPublished
      /\ j.before = journal.before /\ j.seen = journal.seen /\ (j.plan <=> journal.plan)
  BY DEF SameInputs
<1> HIDE DEF j
<1>2. RecordVerified(j) => SameInputs(journal, journal')
  BY <1>1, VerifiedIs DEF SameInputs
<1>3. RecordVerified(j)
  BY DEF j
<1> QED
  BY <1>1, <1>2, <1>3, VerifiedIs, VerifiedPlan

\* The outcomes of the candidate step of the playlists.
LEMMA ReconcileIs ==
  ASSUME Typed, ReconcileCandidate
  PROVE  /\ UNCHANGED <<genVars, diskVars, work, want, cur, exp, out>>
         /\ \/ /\ pc' = "dbfence" /\ UNCHANGED why
               /\ mdb'.tracks = mdb.tracks /\ mdb'.ext = mdb.ext
               /\ mdb'.lists \in IF want = {} THEN {mdb.lists} ELSE want
               /\ SameRecords(journal, journal') /\ journal'.phase = journal.phase
               /\ journal'.staged = journal.staged /\ journal'.final = journal.final
               /\ journal'.obsolete = journal.obsolete /\ journal'.pre = journal.pre
               /\ journal'.seen = journal.seen /\ (journal'.plan <=> journal.plan)
               /\ journal'.own = want /\ journal'.cand = {Candidate(journal.staged, NewTags)}
            \/ pc' = "known" /\ why' = "retry" /\ UNCHANGED <<journal, memVars>>
<1>t. journal \in Journals /\ mdb \in Databases
  BY DEF Typed
<1>1. CASE pc' = "known"
  BY <1>1 DEF ReconcileCandidate, Fault, memVars, Goto
<1>2. CASE pc' # "known"
  <2> DEFINE c == Candidate(journal.staged, NewTags)
  <2>1. /\ \E v \in IF want = {} THEN {mdb.lists} ELSE want : mdb' = [mdb EXCEPT !.lists = v]
        /\ journal' = [journal EXCEPT !.own = want, !.cand = {c}]
        /\ Goto("dbfence")
        /\ UNCHANGED <<genVars, diskVars, work, want, cur, exp, why>>
    BY <1>2 DEF ReconcileCandidate
  <2> HIDE DEF c
  <2>2. /\ mdb'.tracks = mdb.tracks /\ mdb'.ext = mdb.ext
        /\ mdb'.lists \in IF want = {} THEN {mdb.lists} ELSE want
    BY <2>1, <1>t DEF Databases
  <2>3. /\ SameRecords(journal, journal') /\ journal'.phase = journal.phase
        /\ journal'.staged = journal.staged /\ journal'.final = journal.final
        /\ journal'.obsolete = journal.obsolete /\ journal'.pre = journal.pre
        /\ journal'.seen = journal.seen /\ (journal'.plan <=> journal.plan)
        /\ journal'.own = want /\ journal'.cand = {c}
    BY <2>1, <1>t DEF SameRecords
  <2> QED
    BY <2>1, <2>2, <2>3 DEF Goto, c
<1> QED
  BY <1>1, <1>2

\* Where a verified journal continues.
LEMMA ResumedIs ==
  ASSUME NEW j
  PROVE  \/ Resumed(j) = "rmstaged" /\ j.phase = CleanupComplete
         \/ Resumed(j) = "cleanup" /\ j.phase # CleanupComplete /\ j.own = {}
         \/ Resumed(j) = "planfence" /\ j.phase = DeviceManifestPublished /\ j.own # {}
         \/ Resumed(j) = "ownfence" /\ j.phase = RockboxProjectionsPrepared /\ j.own # {}
         \/ Resumed(j) = "boxfence" /\ j.phase = PlaylistOwnershipPublished /\ j.own # {}
         \/ /\ Resumed(j) = "authfence" /\ j.own # {}
            /\ j.phase \notin {DeviceManifestPublished, RockboxProjectionsPrepared,
                               PlaylistOwnershipPublished, CleanupComplete}
  BY DEF Resumed

\* The loop that publishes nothing has staged nothing.
LEMMA NothingStaged ==
  ASSUME FinishStaging, journal.phase = Absent
  PROVE  pending = {}
<1>1. journal # NewJournal(pending)
  BY NewJournalIs
<1> QED
  BY <1>1 DEF FinishStaging, HasAlbums, Saved

\* Another program's edit changes neither tracks nor playlists.
LEMMA ForeignIs ==
  ASSUME Typed, ForeignWrite
  PROVE  /\ db'.tracks = db.tracks /\ db'.lists = db.lists
         /\ UNCHANGED <<art, manifest, owner, boxes, profile, diskVars, journal, memVars>>
         /\ UNCHANGED <<exp, pc, why>>
  BY DEF ForeignWrite, Typed, Databases

\* The outcome of the metadata updates of a journal.
LEMMA UpdateIs ==
  ASSUME Typed, UpdateMetadata
  PROVE  /\ pc = "add" /\ pc' = "desire" /\ journal.staged \subseteq mdb.tracks
         /\ UNCHANGED <<genVars, diskVars, work, want, cur, exp, why>>
         /\ mdb'.tracks = mdb.tracks /\ mdb'.lists = mdb.lists /\ mdb'.ext = mdb.ext
         /\ SameRecords(journal, journal') /\ journal'.phase = journal.phase
         /\ journal'.staged = journal.staged /\ journal'.final = journal.final
         /\ journal'.obsolete = journal.obsolete /\ journal'.own = journal.own
         /\ \/ journal'.cand = journal.cand
            \/ journal'.cand = {Candidate(journal.staged, NewTags)}
<1>t. journal \in Journals /\ mdb \in Databases
  BY DEF Typed
<1> DEFINE c == Candidate(journal.staged, NewTags)
<1>1. \/ UNCHANGED <<mdb, journal>>
      \/ mdb' = [mdb EXCEPT !.tags = NewTags] /\ journal' = [journal EXCEPT !.cand = {c}]
  BY DEF UpdateMetadata
<1>2. /\ pc = "add" /\ pc' = "desire" /\ journal.staged \subseteq mdb.tracks
      /\ UNCHANGED <<genVars, diskVars, work, want, cur, exp, why>>
  BY DEF UpdateMetadata, Goto
<1> HIDE DEF c
<1>3. mdb'.tracks = mdb.tracks /\ mdb'.lists = mdb.lists /\ mdb'.ext = mdb.ext
  BY <1>1, <1>t DEF Databases
<1>4. /\ SameRecords(journal, journal') /\ journal'.phase = journal.phase
      /\ journal'.staged = journal.staged /\ journal'.final = journal.final
      /\ journal'.obsolete = journal.obsolete /\ journal'.own = journal.own
      /\ journal'.cand = journal.cand \/ journal'.cand = {c}
  BY <1>1, <1>t DEF SameRecords
<1> QED
  BY <1>2, <1>3, <1>4 DEF c

\* The outcome of recording an added track.
LEMMA AddedIs ==
  ASSUME Typed, RecordAdded
  PROVE  /\ pc = "record" /\ pc' = "add" /\ cur' = {}
         /\ UNCHANGED <<genVars, diskVars, work, want, exp, why>>
         /\ mdb'.tracks = mdb.tracks \cup cur /\ mdb'.lists = mdb.lists
         /\ SameRecords(journal, journal') /\ journal'.phase = journal.phase
         /\ journal'.staged = journal.staged /\ journal'.final = journal.final
         /\ journal'.obsolete = journal.obsolete /\ journal'.own = journal.own
         /\ journal'.cand = {Candidate((mdb.tracks \cap journal.staged) \cup cur, manifest.tags)}
<1>t. journal \in Journals /\ mdb \in Databases
  BY DEF Typed
<1> DEFINE c == Candidate((mdb.tracks \cap journal.staged) \cup cur, manifest.tags)
<1>1. /\ journal' = [journal EXCEPT !.dbids = @ \cup cur, !.cand = {c}]
      /\ mdb' = [mdb EXCEPT !.tracks = @ \cup cur]
      /\ pc = "record" /\ pc' = "add" /\ cur' = {}
      /\ UNCHANGED <<genVars, diskVars, work, want, exp, why>>
  BY DEF RecordAdded, Goto
<1> HIDE DEF c
<1> QED
  BY <1>1, <1>t DEF SameRecords, Databases, c

\* The tracks of a candidate manifest.
LEMMA CandidateIs ==
  ASSUME NEW d, NEW t
  PROVE  Candidate(d, t).tracks = (manifest.tracks \ journal.obsolete) \cup d
  BY DEF Candidate

\* A database that passes verify_candidate is the target, although the check
\* only asks for what must be there and what must be gone.
LEMMA HeldExact ==
  ASSUME FreshInv, BaseInv, LiveInv, CandInv, CandidateHeld, journal.cand # {},
         journal.phase \in {ReadyToPublish, DatabaseVerified}, NEW b \in journal.before
  PROVE  db.tracks = Target(b) /\ \A c \in journal.cand : c.tracks = Target(b)
<1>1. journal.staged \cap b.db.tracks = {} /\ journal.staged \cap journal.obsolete = {}
  BY DEF FreshInv, BaseInv
<1>2. db.tracks \in {b.db.tracks, Target(b)}
  BY DEF LiveInv
<1>3. CASE db.tracks # b.db.tracks
  BY <1>2, <1>3 DEF CandInv
<1>4. CASE db.tracks = b.db.tracks
  <2> SUFFICES ASSUME NEW c \in journal.cand PROVE db.tracks = Target(b) /\ c.tracks = Target(b)
    OBVIOUS
  <2>1. /\ c.tracks = (b.db.tracks \ journal.obsolete) \cup (c.tracks \cap journal.staged)
        /\ c.tracks \cap journal.staged = {} => journal.staged = {}
    BY DEF CandInv
  <2>2. /\ c.tracks \subseteq db.tracks
        /\ \A o \in journal.obsolete : o \in c.tracks \/ o \notin db.tracks
    BY DEF CandidateHeld
  <2>3. c.tracks \cap journal.staged = {}
    BY <1>1, <1>4, <2>2
  <2>4. journal.staged = {} /\ c.tracks = b.db.tracks \ journal.obsolete
    BY <2>1, <2>3
  <2>5. b.db.tracks \cap journal.obsolete = {}
    BY <1>4, <2>2, <2>4
  <2> QED
    BY <1>4, <2>4, <2>5 DEF Target
<1> QED
  BY <1>3, <1>4

\* Another program's edit is counted.
LEMMA EditIs == ASSUME Typed, ForeignWrite PROVE db'.ext = db.ext + 1
  BY DEF ForeignWrite, Typed, Databases

\* A generation the firmware normalised has the live database.
LEMMA FirmwareIs ==
  ASSUME Typed, FirmwareOnly
  PROVE  \E v \in journal.verified : v.db = db
<1>1. PICK v \in journal.verified : Gen = [v EXCEPT !.art = art]
  BY DEF FirmwareOnly
<1>2. v \in Generations
  BY DEF Typed
<1>3. Gen.db = v.db
  BY <1>1, <1>2 DEF Generations
<1> QED
  BY <1>3 DEF Gen

-----------------------------------------------------------------------------
(* The journal that is saved next.                                           *)

\* Recovering the journal a session finds keeps the journal one that validate
\* accepts.
LEMMA LoadRecovery == Typed /\ IInv /\ LoadInv /\ Recovery => LoadInv'
<1> SUFFICES ASSUME Typed, IInv, LoadInv, Recovery PROVE LoadInv'
  OBVIOUS
<1>t. journal \in Journals /\ snap \in Snapshots /\ pc \in Points
  BY DEF Typed
<1>1. CASE RecoverUndone
  BY <1>1, <1>t DEF Goto, RecoverUndone, Undone, diskVars, envVars, genVars, memVars, PhaseInv,
     FreshInv, HeldInv, LoadInv, Valid
<1>2. CASE RecoverStaging
  BY <1>2, <1>t DEF Goto, RecoverStaging, Unreferenced, envVars, genVars, memVars, PhaseInv,
     FreshInv, HeldInv, LoadInv, Valid
<1>3. CASE SaveAbandoned
  BY <1>3, <1>t DEF Abandoned, End, Fail, Goto, NoWork, SaveAbandoned, diskVars, envVars,
     genVars, memVars, PhaseInv, FreshInv, HeldInv, LoadInv, Valid
<1>4. CASE RemoveAbandonedDir
  BY <1>4, <1>t DEF Goto, RemoveAbandonedDir, envVars, genVars, memVars, PhaseInv, FreshInv,
     HeldInv, LoadInv, Valid
<1>5. CASE RecoverFirmware
  BY <1>5, <1>t DEF Goto, RecoverFirmware, Undone, diskVars, envVars, genVars, memVars,
     PhaseInv, FreshInv, HeldInv, LoadInv, Valid
<1>6. CASE RecoverLost
  BY <1>6, <1>t DEF End, Fail, Goto, Lost, NoWork, RecoverLost, diskVars, envVars, genVars,
     memVars, PhaseInv, FreshInv, HeldInv, LoadInv, Valid
<1>7. CASE RecoverPublish
  BY <1>7, <1>t DEF Goto, Lost, RecoverPublish, Undone, diskVars, envVars, genVars, memVars,
     PhaseInv, FreshInv, HeldInv, LoadInv, Valid
<1> QED
  BY <1>1, <1>2, <1>3, <1>4, <1>5, <1>6, <1>7 DEF Recovery

\* Staging and saving albums keeps the journal one that validate accepts.
LEMMA LoadStaged == Typed /\ IInv /\ LoadInv /\ Staged => LoadInv'
<1> SUFFICES ASSUME Typed, IInv, LoadInv, Staged PROVE LoadInv'
  OBVIOUS
<1>t. journal \in Journals /\ snap \in Snapshots /\ pc \in Points
  BY DEF Typed
<1>1. CASE \E f \in Tracks : StageFile(f)
  BY <1>1, <1>t DEF Goto, StageFile, envVars, genVars, memVars, PhaseInv, FreshInv, HeldInv,
     LoadInv, Valid
<1>2. CASE SaveAlbum
  BY <1>2, <1>t DEF Goto, NewJournal, NoJournal, SaveAlbum, diskVars, envVars, genVars, memVars,
     PhaseInv, FreshInv, HeldInv, LoadInv, Valid
<1>3. CASE FinishStaging
  BY <1>3, <1>t DEF FinishStaging, Goto, diskVars, envVars, genVars, memVars, PhaseInv,
     FreshInv, HeldInv, LoadInv, Valid
<1> QED
  BY <1>1, <1>2, <1>3 DEF Staged

\* Publication up to the verified database keeps the journal one that validate
\* accepts.
LEMMA LoadPublish == Typed /\ IInv /\ LoadInv /\ Publish => LoadInv'
<1> SUFFICES ASSUME Typed, IInv, LoadInv, Publish PROVE LoadInv'
  OBVIOUS
<1>t. journal \in Journals /\ snap \in Snapshots /\ pc \in Points
  BY DEF Typed
<1>1. CASE PublishFence
  BY <1>1, <1>t DEF End, Fail, Fence, Goto, NoWork, PublishFence, diskVars, envVars, genVars,
     memVars, PhaseInv, FreshInv, HeldInv, LoadInv, Valid
<1>2. CASE Prepare
  BY <1>2, <1>t, PrepareIs, PrepareKeeps, PrepareFirst
     DEF Prepare, KnownLive, Fail, End, SameInputs, genVars, diskVars, memVars, envVars, PhaseInv,
        FreshInv, HeldInv, LoadInv, Valid
<1>3. CASE PrepareArtwork
  BY <1>3, <1>t DEF End, Fault, Goto, NoWork, PrepareArtwork, diskVars, envVars, genVars,
     memVars, PhaseInv, FreshInv, HeldInv, LoadInv, Valid
<1>4. CASE EnsurePreimage
  BY <1>4, <1>t DEF End, EnsurePreimage, Fail, Goto, NoWork, diskVars, envVars, genVars,
     memVars, PhaseInv, FreshInv, HeldInv, LoadInv, Valid
<1>5. CASE EnsureSnapshot
  BY <1>5, <1>t DEF End, EnsureSnapshot, Fail, Goto, NoWork, diskVars, envVars, genVars,
     memVars, PhaseInv, FreshInv, HeldInv, LoadInv, Valid
<1>6. CASE FillSnapshot
  BY <1>6, <1>t DEF FillSnapshot, Goto, envVars, genVars, memVars, PhaseInv, FreshInv, HeldInv,
     LoadInv, Valid
<1>7. CASE Dispatch
  BY <1>7, <1>t DEF Dispatch, Goto, diskVars, envVars, genVars, memVars, PhaseInv, FreshInv,
     HeldInv, LoadInv, Valid
<1>8. CASE ResumeCandidate
  BY <1>8, <1>t, ResumeIs, ResumeRecords
     DEF ResumeCandidate, SameInputs, genVars, diskVars, memVars, envVars, PhaseInv, FreshInv,
        HeldInv, LoadInv, Valid
<1>9. CASE OpenDatabase
  BY <1>9, <1>t DEF Goto, OpenDatabase, diskVars, envVars, genVars, PhaseInv, FreshInv, HeldInv,
     LoadInv, Valid
<1>10. CASE \E f \in Tracks : ReserveFinal(f)
  BY <1>10, <1>t DEF Goto, ReserveFinal, diskVars, envVars, genVars, PhaseInv, FreshInv,
     HeldInv, LoadInv, Valid
<1>11. CASE MoveStaged
  BY <1>11, <1>t DEF Goto, MoveStaged, envVars, genVars, memVars, PhaseInv, FreshInv, HeldInv,
     LoadInv, Valid
<1>12. CASE RecordAdded
  BY <1>12, <1>t DEF Goto, RecordAdded, diskVars, envVars, genVars, PhaseInv, FreshInv, HeldInv,
     LoadInv, Valid
<1>13. CASE UpdateMetadata
  BY <1>13, <1>t DEF Goto, UpdateMetadata, diskVars, envVars, genVars, PhaseInv, FreshInv,
     HeldInv, LoadInv, Valid
<1>14. CASE ReconcileCandidate
  BY <1>14, <1>t, ReconcileIs
     DEF ReconcileCandidate, SameRecords, genVars, diskVars, memVars, envVars, PhaseInv, FreshInv,
        HeldInv, LoadInv, Valid
<1>15. CASE DatabaseFence
  BY <1>15, <1>t DEF DatabaseFence, End, Fail, Fence, Goto, NoWork, diskVars, envVars, genVars,
     memVars, PhaseInv, FreshInv, HeldInv, LoadInv, Valid
<1>16. CASE ClearArtwork
  BY <1>16, <1>t DEF ClearArtwork, Goto, diskVars, envVars, memVars, PhaseInv, FreshInv,
     HeldInv, LoadInv, Valid
<1>17. CASE WriteArtwork
  BY <1>17, <1>t DEF Fault, Goto, RecordPublished, WriteArtwork, WriteFault, diskVars, envVars,
     genVars, memVars, PhaseInv, FreshInv, HeldInv, LoadInv, Valid
<1>18. CASE WriteDatabase
  BY <1>18, <1>t DEF Fault, Goto, RecordPublished, WriteDatabase, WriteFault, diskVars, envVars,
     genVars, memVars, PhaseInv, FreshInv, HeldInv, LoadInv, Valid
<1>19. CASE RecordWritten
  BY <1>19, <1>t DEF Goto, RecordPublished, RecordWritten, diskVars, envVars, genVars, memVars,
     PhaseInv, FreshInv, HeldInv, LoadInv, Valid
<1>20. CASE VerifyWritten
  BY <1>20, <1>t, VerifyIs, VerifyRecords
     DEF VerifyWritten, SameInputs, genVars, diskVars, memVars, envVars, PhaseInv, FreshInv,
        HeldInv, LoadInv, Valid
<1> QED
  BY <1>1, <1>2, <1>3, <1>4, <1>5, <1>6, <1>7, <1>8, <1>9, <1>10, <1>11, <1>12, <1>13, <1>14,
     <1>15, <1>16, <1>17, <1>18, <1>19, <1>20 DEF Publish

\* Publication after the verified database keeps the journal one that validate
\* accepts.
LEMMA LoadFinalize == Typed /\ IInv /\ LoadInv /\ Finalize => LoadInv'
<1> SUFFICES ASSUME Typed, IInv, LoadInv, Finalize PROVE LoadInv'
  OBVIOUS
<1>t. journal \in Journals /\ snap \in Snapshots /\ pc \in Points
  BY DEF Typed
<1>1. CASE CheckVerified
  BY <1>1, <1>t DEF CheckVerified, Fault, Goto, Mismatch, diskVars, envVars, genVars, memVars,
     PhaseInv, FreshInv, HeldInv, LoadInv, Valid
<1>2. CASE ManifestFence
  BY <1>2, <1>t DEF End, Fail, Fence, Goto, ManifestFence, NoWork, diskVars, envVars, genVars,
     memVars, PhaseInv, FreshInv, HeldInv, LoadInv, Valid
<1>3. CASE WriteManifest
  BY <1>3, <1>t DEF Fault, Goto, WriteManifest, diskVars, envVars, genVars, memVars, PhaseInv,
     FreshInv, HeldInv, LoadInv, Valid
<1>4. CASE RecordManifest
  BY <1>4, <1>t DEF Goto, RecordManifest, RecordVerified, diskVars, envVars, genVars, memVars,
     PhaseInv, FreshInv, HeldInv, LoadInv, Valid
<1>5. CASE Reverify
  BY <1>5, <1>t, ResumedIs
     DEF Reverify, StillHeld, Mismatch, Fault, Goto, genVars, diskVars, memVars, envVars, PhaseInv,
        FreshInv, HeldInv, LoadInv, Valid
<1>6. CASE PlanFence
  BY <1>6, <1>t DEF End, Fail, Fence, Goto, NoWork, PlanFence, diskVars, envVars, genVars,
     memVars, PhaseInv, FreshInv, HeldInv, LoadInv, Valid
<1>7. CASE PlanProjections
  BY <1>7, <1>t, PlanIs, PlanRecords
     DEF PlanProjections, Goto, Fail, End, SameInputs, genVars, diskVars, memVars, envVars,
        PhaseInv, FreshInv, HeldInv, LoadInv, Valid
<1>8. CASE OwnershipFence
  BY <1>8, <1>t DEF End, Fail, Fence, Goto, NoWork, OwnershipFence, diskVars, envVars, genVars,
     memVars, PhaseInv, FreshInv, HeldInv, LoadInv, Valid
<1>9. CASE WriteOwnership
  <2>1. CASE Interrupted
    <3>1. /\ journal'.phase = journal.phase /\ SameInputs(journal, journal')
        /\ journal'.before = journal.before /\ journal'.verified = journal.verified
        /\ journal'.published = {Gen}
        /\ journal'.seen = journal.seen /\ (journal'.plan <=> journal.plan)
      BY <2>1, <1>t, PublishedIs DEF Interrupted
    <3> QED
      BY <1>9, <2>1, <3>1
         DEF WriteOwnership, Interrupted, End, SameInputs, genVars, diskVars, memVars, envVars,
            PhaseInv, FreshInv, HeldInv, LoadInv, Valid
  <2>2. CASE ~ Interrupted
    BY <1>9, <2>2, <1>t
       DEF WriteOwnership, Goto, genVars, diskVars, memVars, envVars, PhaseInv, FreshInv, HeldInv,
          LoadInv, Valid
  <2> QED
    BY <2>1, <2>2
<1>10. CASE PhaseOwnership
  <2>1. /\ journal'.phase = PlaylistOwnershipPublished /\ SameInputs(journal, journal')
        /\ journal'.before = journal.before /\ journal'.verified = journal.verified
        /\ journal'.published = journal.published
        /\ journal'.seen = journal.seen /\ (journal'.plan <=> journal.plan)
    BY <1>10, <1>t, PhaseIs DEF PhaseOwnership, SameRecords
  <2> QED
    BY <1>10, <2>1
       DEF PhaseOwnership, Goto, SameInputs, genVars, diskVars, memVars, envVars, PhaseInv,
          FreshInv, HeldInv, LoadInv, Valid
<1>11. CASE RecordOwnership
  <2>1. /\ journal'.phase = journal.phase /\ SameInputs(journal, journal')
        /\ journal'.before = journal.before /\ journal'.verified = {Gen} /\ journal'.published = {}
        /\ journal'.seen = journal.seen /\ (journal'.plan <=> journal.plan)
    BY <1>11, <1>t, RecordIs DEF RecordOwnership
  <2> QED
    BY <1>11, <2>1
       DEF RecordOwnership, Goto, SameInputs, genVars, diskVars, memVars, envVars, PhaseInv,
          FreshInv, HeldInv, LoadInv, Valid
<1>12. CASE ProjectionFence
  BY <1>12, <1>t DEF End, Fail, Fence, Goto, NoWork, ProjectionFence, diskVars, envVars,
     genVars, memVars, PhaseInv, FreshInv, HeldInv, LoadInv, Valid
<1>13. CASE WriteProjection
  <2>1. CASE Interrupted
    <3>1. /\ journal'.phase = journal.phase /\ SameInputs(journal, journal')
        /\ journal'.before = journal.before /\ journal'.verified = journal.verified
        /\ journal'.published = {Gen}
        /\ journal'.seen = journal.seen /\ (journal'.plan <=> journal.plan)
      BY <2>1, <1>t, PublishedIs DEF Interrupted
    <3> QED
      BY <1>13, <2>1, <3>1
         DEF WriteProjection, Interrupted, End, SameInputs, genVars, diskVars, memVars, envVars,
            PhaseInv, FreshInv, HeldInv, LoadInv, Valid
  <2>2. CASE ~ Interrupted
    BY <1>13, <2>2, <1>t
       DEF WriteProjection, Goto, genVars, diskVars, memVars, envVars, PhaseInv, FreshInv, HeldInv,
          LoadInv, Valid
  <2> QED
    BY <2>1, <2>2
<1>14. CASE RemovePrevious
  <2>1. CASE Interrupted
    <3>1. /\ journal'.phase = journal.phase /\ SameInputs(journal, journal')
        /\ journal'.before = journal.before /\ journal'.verified = journal.verified
        /\ journal'.published = {Gen}
        /\ journal'.seen = journal.seen /\ (journal'.plan <=> journal.plan)
      BY <2>1, <1>t, PublishedIs DEF Interrupted
    <3> QED
      BY <1>14, <2>1, <3>1
         DEF RemovePrevious, Interrupted, End, SameInputs, genVars, diskVars, memVars, envVars,
            PhaseInv, FreshInv, HeldInv, LoadInv, Valid
  <2>2. CASE ~ Interrupted
    BY <1>14, <2>2, <1>t
       DEF RemovePrevious, Goto, genVars, diskVars, memVars, envVars, PhaseInv, FreshInv, HeldInv,
          LoadInv, Valid
  <2> QED
    BY <2>1, <2>2
<1>15. CASE PhaseProjection
  <2>1. /\ journal'.phase = RockboxProjectionsPublished /\ SameInputs(journal, journal')
        /\ journal'.before = journal.before /\ journal'.verified = journal.verified
        /\ journal'.published = journal.published
        /\ journal'.seen = journal.seen /\ (journal'.plan <=> journal.plan)
    BY <1>15, <1>t, PhaseIs DEF PhaseProjection, SameRecords
  <2> QED
    BY <1>15, <2>1
       DEF PhaseProjection, Goto, SameInputs, genVars, diskVars, memVars, envVars, PhaseInv,
          FreshInv, HeldInv, LoadInv, Valid
<1>16. CASE RecordProjection
  <2>1. /\ journal'.phase = journal.phase /\ SameInputs(journal, journal')
        /\ journal'.before = journal.before /\ journal'.verified = {Gen} /\ journal'.published = {}
        /\ journal'.seen = journal.seen /\ (journal'.plan <=> journal.plan)
    BY <1>16, <1>t, RecordIs DEF RecordProjection
  <2> QED
    BY <1>16, <2>1
       DEF RecordProjection, Goto, SameInputs, genVars, diskVars, memVars, envVars, PhaseInv,
          FreshInv, HeldInv, LoadInv, Valid
<1>17. CASE AuthorityFence
  BY <1>17, <1>t DEF AuthorityFence, End, Fail, Fence, Goto, NoWork, diskVars, envVars, genVars,
     memVars, PhaseInv, FreshInv, HeldInv, LoadInv, Valid
<1>18. CASE WriteAuthority
  BY <1>18, <1>t DEF Goto, WriteAuthority, diskVars, envVars, memVars, PhaseInv, FreshInv,
     HeldInv, LoadInv, Valid
<1>19. CASE RecordAuthority
  <2>1. /\ journal'.phase = journal.phase /\ SameInputs(journal, journal')
        /\ journal'.before = journal.before /\ journal'.verified = {Gen} /\ journal'.published = {}
        /\ journal'.seen = journal.seen /\ (journal'.plan <=> journal.plan)
    BY <1>19, <1>t, RecordIs DEF RecordAuthority
  <2> QED
    BY <1>19, <2>1
       DEF RecordAuthority, Goto, SameInputs, genVars, diskVars, memVars, envVars, PhaseInv,
          FreshInv, HeldInv, LoadInv, Valid
<1> QED
  BY <1>1, <1>2, <1>3, <1>4, <1>5, <1>6, <1>7, <1>8, <1>9, <1>10, <1>11, <1>12, <1>13, <1>14,
     <1>15, <1>16, <1>17, <1>18, <1>19 DEF Finalize

\* Removing what a closed journal leaves keeps the journal one that validate
\* accepts.
LEMMA LoadCleanup == Typed /\ IInv /\ LoadInv /\ Cleanup => LoadInv'
<1> SUFFICES ASSUME Typed, IInv, LoadInv, Cleanup PROVE LoadInv'
  OBVIOUS
<1>t. journal \in Journals /\ snap \in Snapshots /\ pc \in Points
  BY DEF Typed
<1>1. CASE CleanStaged
  BY <1>1, <1>t DEF CleanStaged, Goto, Unreferenced, envVars, genVars, memVars, PhaseInv,
     FreshInv, HeldInv, LoadInv, Valid
<1>2. CASE RemoveObsolete
  BY <1>2, <1>t DEF Goto, RemoveObsolete, Unreferenced, envVars, genVars, memVars, PhaseInv,
     FreshInv, HeldInv, LoadInv, Valid
<1>3. CASE SaveCleanup
  <2>1. /\ journal'.phase = CleanupComplete /\ SameInputs(journal, journal')
        /\ journal'.before = journal.before /\ journal'.verified = journal.verified
        /\ journal'.published = journal.published
        /\ journal'.seen = journal.seen /\ (journal'.plan <=> journal.plan)
    BY <1>3, <1>t, PhaseIs DEF SaveCleanup, SameRecords
  <2> QED
    BY <1>3, <2>1
       DEF SaveCleanup, Goto, SameInputs, genVars, diskVars, memVars, envVars, PhaseInv, FreshInv,
          HeldInv, LoadInv, Valid
<1>4. CASE RemoveStagedDir
  BY <1>4, <1>t DEF End, Fail, Goto, NoWork, RemoveStagedDir, diskVars, envVars, genVars,
     memVars, PhaseInv, FreshInv, HeldInv, LoadInv, Valid
<1>5. CASE RemoveSnapshot
  BY <1>5, <1>t DEF End, Fail, Goto, NoWork, RemoveSnapshot, diskVars, envVars, genVars,
     memVars, PhaseInv, FreshInv, HeldInv, LoadInv, Valid
<1>6. CASE EmptySnapshot
  BY <1>6, <1>t DEF EmptySnapshot, Goto, envVars, genVars, memVars, PhaseInv, FreshInv, HeldInv,
     LoadInv, Valid
<1>7. CASE RemoveJournal
  BY <1>7, <1>t DEF Goto, NoJournal, NoWork, RemoveJournal, diskVars, envVars, genVars,
     PhaseInv, FreshInv, HeldInv, LoadInv, Valid
<1> QED
  BY <1>1, <1>2, <1>3, <1>4, <1>5, <1>6, <1>7 DEF Cleanup

\* Restoring the snapshot keeps the journal one that validate accepts.
LEMMA LoadRollback == Typed /\ IInv /\ LoadInv /\ Rollback => LoadInv'
<1> SUFFICES ASSUME Typed, IInv, LoadInv, Rollback PROVE LoadInv'
  OBVIOUS
<1>t. journal \in Journals /\ snap \in Snapshots /\ pc \in Points
  BY DEF Typed
<1>1. CASE KnownRollback
  BY <1>1, <1>t DEF End, Fail, Goto, KnownRollback, NoWork, diskVars, envVars, genVars, memVars,
     PhaseInv, FreshInv, HeldInv, LoadInv, Valid
<1>2. CASE RestoreClear
  BY <1>2, <1>t DEF End, Fail, Goto, NoWork, RestoreClear, diskVars, envVars, genVars, memVars,
     PhaseInv, FreshInv, HeldInv, LoadInv, Valid
<1>3. CASE RestoreArtwork
  BY <1>3, <1>t DEF Goto, RestoreArtwork, diskVars, envVars, memVars, PhaseInv, FreshInv,
     HeldInv, LoadInv, Valid
<1>4. CASE RestoreDatabase
  BY <1>4, <1>t DEF Goto, RestoreDatabase, diskVars, envVars, memVars, PhaseInv, FreshInv,
     HeldInv, LoadInv, Valid
<1>5. CASE \E f \in Tracks : RestoreStaged(f)
  BY <1>5, <1>t DEF Goto, Moved, Preserving, RestoreStaged, Unreferenced, envVars, genVars,
     memVars, PhaseInv, FreshInv, HeldInv, LoadInv, Valid
<1>6. CASE ResumeRestored
  BY <1>6, <1>t DEF Goto, Moved, Reset, ResumeRestored, Unreferenced, diskVars, envVars,
     genVars, memVars, PhaseInv, FreshInv, HeldInv, LoadInv, Valid
<1>7. CASE UndoneRollback
  BY <1>7, <1>t DEF Goto, Moved, Reset, UndoneRollback, Unreferenced, diskVars, envVars,
     genVars, memVars, PhaseInv, FreshInv, HeldInv, LoadInv, Valid
<1>8. CASE MovedBack
  BY <1>8, <1>t DEF Goto, Moved, MovedBack, Unreferenced, diskVars, envVars, genVars, memVars,
     PhaseInv, FreshInv, HeldInv, LoadInv, Valid
<1>9. CASE DropStaged
  BY <1>9, <1>t DEF DropStaged, Goto, Preserving, Unreferenced, envVars, genVars, memVars,
     PhaseInv, FreshInv, HeldInv, LoadInv, Valid
<1>10. CASE RestoreManifest
  BY <1>10, <1>t DEF End, Fail, Goto, NoWork, RestoreManifest, diskVars, envVars, genVars,
     memVars, PhaseInv, FreshInv, HeldInv, LoadInv, Valid
<1>11. CASE FinishRollback
  BY <1>11, <1>t, FinishRecords
     DEF Restored, Closed, SameInputs, genVars, diskVars, memVars, envVars, PhaseInv, FreshInv,
        HeldInv, LoadInv, Valid
<1> QED
  BY <1>1, <1>2, <1>3, <1>4, <1>5, <1>6, <1>7, <1>8, <1>9, <1>10, <1>11 DEF Rollback

\* A step of the environment keeps the journal one that validate accepts.
LEMMA LoadEnvironment == Typed /\ IInv /\ LoadInv /\ Environment => LoadInv'
<1> SUFFICES ASSUME Typed, IInv, LoadInv, Environment PROVE LoadInv'
  OBVIOUS
<1>t. journal \in Journals /\ snap \in Snapshots /\ pc \in Points
  BY DEF Typed
<1>1. CASE ForeignWrite
  BY <1>1, <1>t DEF ForeignWrite, diskVars, memVars, PhaseInv, FreshInv, HeldInv, LoadInv, Valid
<1>2. CASE FirmwareNormalize
  BY <1>2, <1>t DEF Fault, FirmwareNormalize, diskVars, memVars, PhaseInv, FreshInv, HeldInv,
     LoadInv, Valid
<1>3. CASE LoseStaged
  BY <1>3, <1>t DEF Fault, LoseStaged, genVars, memVars, PhaseInv, FreshInv, HeldInv, LoadInv,
     Valid
<1>4. CASE Crash
  BY <1>4, <1>t DEF Crash, End, NoWork, genVars, PhaseInv, FreshInv, HeldInv, LoadInv, Valid
<1>5. CASE StopAdmission
  BY <1>5, <1>t DEF Goto, StopAdmission, diskVars, envVars, genVars, PhaseInv, FreshInv,
     HeldInv, LoadInv, Valid
<1>6. CASE EndSession
  BY <1>6, <1>t DEF End, EndSession, Fail, NoWork, diskVars, envVars, genVars, PhaseInv,
     FreshInv, HeldInv, LoadInv, Valid
<1>7. CASE \E w \in Works : BeginSync(w)
  BY <1>7, <1>t DEF BeginSync, diskVars, genVars, PhaseInv, FreshInv, HeldInv, LoadInv, Valid
<1> QED
  BY <1>1, <1>2, <1>3, <1>4, <1>5, <1>6, <1>7 DEF Environment

\* Acquiring the lease keeps the journal one that validate accepts.
LEMMA LoadAcquire == Typed /\ IInv /\ LoadInv /\ Acquire => LoadInv'
<1> SUFFICES ASSUME Typed, IInv, LoadInv, Acquire PROVE LoadInv'
  OBVIOUS
<1>t. journal \in Journals /\ snap \in Snapshots /\ pc \in Points
  BY DEF Typed
<1>1. CASE Acquire
  BY <1>1, <1>t DEF Acquire, diskVars, envVars, genVars, PhaseInv, FreshInv, HeldInv, LoadInv,
     Valid
<1> QED
  BY <1>1

-----------------------------------------------------------------------------
(* Where no journal is in the middle of its work.                            *)

\* Recovering the journal a session finds leaves a device without a working
\* journal in agreement.
LEMMA SettledRecovery == Typed /\ IInv /\ LoadInv /\ AgreeInv /\ Recovery => SettledInv'
<1> SUFFICES ASSUME Typed, IInv, LoadInv, AgreeInv, Recovery PROVE SettledInv'
  OBVIOUS
<1>t. journal \in Journals /\ snap \in Snapshots /\ pc \in Points
  BY DEF Typed
<1>1. CASE RecoverUndone
  BY <1>1, <1>t DEF Goto, RecoverUndone, Undone, diskVars, envVars, genVars, memVars, PhaseInv,
     SnapInv, FreshInv, MediaInv, LoadInv, AgreeInv, SettledInv, BaseInv, LiveInv, ForwardInv,
     Settled, Coherent, LiveIs, Target, Gen
<1>2. CASE RecoverStaging
  BY <1>2, <1>t DEF Goto, RecoverStaging, Unreferenced, envVars, genVars, memVars, PhaseInv,
     SnapInv, FreshInv, MediaInv, LoadInv, AgreeInv, SettledInv, BaseInv, LiveInv, ForwardInv,
     Settled, Coherent, LiveIs, Target, Gen
<1>3. CASE SaveAbandoned
  BY <1>3, <1>t DEF Abandoned, End, Fail, Goto, NoWork, SaveAbandoned, diskVars, envVars,
     genVars, memVars, PhaseInv, SnapInv, FreshInv, MediaInv, LoadInv, AgreeInv, SettledInv,
     BaseInv, LiveInv, ForwardInv, Settled, Coherent, LiveIs, Target, Gen
<1>4. CASE RemoveAbandonedDir
  BY <1>4, <1>t DEF Goto, RemoveAbandonedDir, envVars, genVars, memVars, PhaseInv, SnapInv,
     FreshInv, MediaInv, LoadInv, AgreeInv, SettledInv, BaseInv, LiveInv, ForwardInv, Settled,
     Coherent, LiveIs, Target, Gen
<1>5. CASE RecoverFirmware
  BY <1>5, <1>t DEF Goto, RecoverFirmware, Undone, diskVars, envVars, genVars, memVars,
     PhaseInv, SnapInv, FreshInv, MediaInv, LoadInv, AgreeInv, SettledInv, BaseInv, LiveInv,
     ForwardInv, Settled, Coherent, LiveIs, Target, Gen
<1>6. CASE RecoverLost
  <2>1. CASE pc' = "off"
    BY <1>6, <1>t, <2>1
       DEF RecoverLost, Goto, Fail, End, Lost, genVars, diskVars, memVars, envVars, PhaseInv,
          AgreeInv, SettledInv, Settled, Coherent, Gen
  <2>2. CASE pc' # "off"
    <3>1. /\ journal.before = {Gen} /\ journal.phase = ReadyToPublish /\ journal.final = {}
          /\ pc' = "rmsnap" /\ UNCHANGED <<genVars, diskVars, journal>>
      BY <1>6, <2>2 DEF RecoverLost, Lost, Cleared, Goto, Fail, End
    <3>2. Coherent(Gen) /\ Gen.db.tracks \subseteq media /\ media \subseteq Gen.db.tracks
      BY <1>t, <3>1 DEF AgreeInv, BaseInv
    <3>3. Settled'
      BY <3>1, <3>2 DEF Settled, Coherent, Gen, genVars, diskVars
    <3> QED
      BY <3>1, <3>3 DEF SettledInv
  <2> QED
    BY <2>1, <2>2
<1>7. CASE RecoverPublish
  BY <1>7, <1>t DEF Goto, Lost, RecoverPublish, Undone, diskVars, envVars, genVars, memVars,
     PhaseInv, SnapInv, FreshInv, MediaInv, LoadInv, AgreeInv, SettledInv, BaseInv, LiveInv,
     ForwardInv, Settled, Coherent, LiveIs, Target, Gen
<1> QED
  BY <1>1, <1>2, <1>3, <1>4, <1>5, <1>6, <1>7 DEF Recovery

\* Staging and saving albums leaves a device without a working journal in
\* agreement.
LEMMA SettledStaged == Typed /\ IInv /\ LoadInv /\ AgreeInv /\ Staged => SettledInv'
<1> SUFFICES ASSUME Typed, IInv, LoadInv, AgreeInv, Staged PROVE SettledInv'
  OBVIOUS
<1>t. journal \in Journals /\ snap \in Snapshots /\ pc \in Points
  BY DEF Typed
<1>1. CASE \E f \in Tracks : StageFile(f)
  BY <1>1, <1>t DEF Goto, StageFile, envVars, genVars, memVars, PhaseInv, SnapInv, FreshInv,
     MediaInv, LoadInv, AgreeInv, SettledInv, BaseInv, LiveInv, ForwardInv, Settled, Coherent,
     LiveIs, Target, Gen
<1>2. CASE SaveAlbum
  BY <1>2, <1>t DEF Goto, NewJournal, NoJournal, SaveAlbum, diskVars, envVars, genVars, memVars,
     PhaseInv, SnapInv, FreshInv, MediaInv, LoadInv, AgreeInv, SettledInv, BaseInv, LiveInv,
     ForwardInv, Settled, Coherent, LiveIs, Target, Gen
<1>3. CASE FinishStaging
  BY <1>3, <1>t, NothingStaged
     DEF FinishStaging, Goto, genVars, diskVars, memVars, envVars, PhaseInv, AgreeInv, SettledInv,
        Settled, Coherent, Gen
<1> QED
  BY <1>1, <1>2, <1>3 DEF Staged

\* Publication up to the verified database leaves a device without a working
\* journal in agreement.
LEMMA SettledPublish == Typed /\ IInv /\ LoadInv /\ AgreeInv /\ Publish => SettledInv'
<1> SUFFICES ASSUME Typed, IInv, LoadInv, AgreeInv, Publish PROVE SettledInv'
  OBVIOUS
<1>t. journal \in Journals /\ snap \in Snapshots /\ pc \in Points
  BY DEF Typed
<1>1. CASE PublishFence
  BY <1>1, <1>t DEF End, Fail, Fence, Goto, NoWork, PublishFence, diskVars, envVars, genVars,
     memVars, PhaseInv, SnapInv, FreshInv, MediaInv, LoadInv, AgreeInv, SettledInv, BaseInv,
     LiveInv, ForwardInv, Settled, Coherent, LiveIs, Target, Gen
<1>2. CASE Prepare
  BY <1>2, <1>t, PrepareIs, PrepareFirst
     DEF Prepare, KnownLive, Fail, End, SameInputs, genVars, diskVars, memVars, envVars, PhaseInv,
        SnapInv, FreshInv, MediaInv, LoadInv, AgreeInv, SettledInv, BaseInv, LiveInv, ForwardInv,
        Settled, Coherent, LiveIs, Target, Gen
<1>3. CASE PrepareArtwork
  BY <1>3, <1>t DEF End, Fault, Goto, NoWork, PrepareArtwork, diskVars, envVars, genVars,
     memVars, PhaseInv, SnapInv, FreshInv, MediaInv, LoadInv, AgreeInv, SettledInv, BaseInv,
     LiveInv, ForwardInv, Settled, Coherent, LiveIs, Target, Gen
<1>4. CASE EnsurePreimage
  BY <1>4, <1>t DEF End, EnsurePreimage, Fail, Goto, NoWork, diskVars, envVars, genVars,
     memVars, PhaseInv, SnapInv, FreshInv, MediaInv, LoadInv, AgreeInv, SettledInv, BaseInv,
     LiveInv, ForwardInv, Settled, Coherent, LiveIs, Target, Gen
<1>5. CASE EnsureSnapshot
  BY <1>5, <1>t DEF End, EnsureSnapshot, Fail, Goto, NoWork, diskVars, envVars, genVars,
     memVars, PhaseInv, SnapInv, FreshInv, MediaInv, LoadInv, AgreeInv, SettledInv, BaseInv,
     LiveInv, ForwardInv, Settled, Coherent, LiveIs, Target, Gen
<1>6. CASE FillSnapshot
  BY <1>6, <1>t DEF FillSnapshot, Goto, envVars, genVars, memVars, PhaseInv, SnapInv, FreshInv,
     MediaInv, LoadInv, AgreeInv, SettledInv, BaseInv, LiveInv, ForwardInv, Settled, Coherent,
     LiveIs, Target, Gen
<1>7. CASE Dispatch
  BY <1>7, <1>t DEF Dispatch, Goto, diskVars, envVars, genVars, memVars, PhaseInv, SnapInv,
     FreshInv, MediaInv, LoadInv, AgreeInv, SettledInv, BaseInv, LiveInv, ForwardInv, Settled,
     Coherent, LiveIs, Target, Gen
<1>8. CASE ResumeCandidate
  BY <1>8, <1>t, ResumeIs, ResumeRecords
     DEF ResumeCandidate, SameInputs, genVars, diskVars, memVars, envVars, PhaseInv, SnapInv,
        FreshInv, MediaInv, LoadInv, AgreeInv, SettledInv, BaseInv, LiveInv, ForwardInv, Settled,
        Coherent, LiveIs, Target, Gen
<1>9. CASE OpenDatabase
  BY <1>9, <1>t DEF Goto, OpenDatabase, diskVars, envVars, genVars, PhaseInv, SnapInv, FreshInv,
     MediaInv, LoadInv, AgreeInv, SettledInv, BaseInv, LiveInv, ForwardInv, Settled, Coherent,
     LiveIs, Target, Gen
<1>10. CASE \E f \in Tracks : ReserveFinal(f)
  BY <1>10, <1>t DEF Goto, ReserveFinal, diskVars, envVars, genVars, PhaseInv, SnapInv,
     FreshInv, MediaInv, LoadInv, AgreeInv, SettledInv, BaseInv, LiveInv, ForwardInv, Settled,
     Coherent, LiveIs, Target, Gen
<1>11. CASE MoveStaged
  BY <1>11, <1>t DEF Goto, MoveStaged, envVars, genVars, memVars, PhaseInv, SnapInv, FreshInv,
     MediaInv, LoadInv, AgreeInv, SettledInv, BaseInv, LiveInv, ForwardInv, Settled, Coherent,
     LiveIs, Target, Gen
<1>12. CASE RecordAdded
  BY <1>12, <1>t DEF Goto, RecordAdded, diskVars, envVars, genVars, PhaseInv, SnapInv, FreshInv,
     MediaInv, LoadInv, AgreeInv, SettledInv, BaseInv, LiveInv, ForwardInv, Settled, Coherent,
     LiveIs, Target, Gen
<1>13. CASE UpdateMetadata
  BY <1>13, <1>t DEF Goto, UpdateMetadata, diskVars, envVars, genVars, PhaseInv, SnapInv,
     FreshInv, MediaInv, LoadInv, AgreeInv, SettledInv, BaseInv, LiveInv, ForwardInv, Settled,
     Coherent, LiveIs, Target, Gen
<1>14. CASE ReconcileCandidate
  BY <1>14, <1>t, ReconcileIs
     DEF ReconcileCandidate, SameRecords, genVars, diskVars, memVars, envVars, PhaseInv, SnapInv,
        FreshInv, MediaInv, LoadInv, AgreeInv, SettledInv, BaseInv, LiveInv, ForwardInv, Settled,
        Coherent, LiveIs, Target, Gen
<1>15. CASE DatabaseFence
  BY <1>15, <1>t DEF DatabaseFence, End, Fail, Fence, Goto, NoWork, diskVars, envVars, genVars,
     memVars, PhaseInv, SnapInv, FreshInv, MediaInv, LoadInv, AgreeInv, SettledInv, BaseInv,
     LiveInv, ForwardInv, Settled, Coherent, LiveIs, Target, Gen
<1>16. CASE ClearArtwork
  BY <1>16, <1>t DEF ClearArtwork, Goto, diskVars, envVars, memVars, PhaseInv, SnapInv,
     FreshInv, MediaInv, LoadInv, AgreeInv, SettledInv, BaseInv, LiveInv, ForwardInv, Settled,
     Coherent, LiveIs, Target, Gen
<1>17. CASE WriteArtwork
  BY <1>17, <1>t DEF Fault, Goto, RecordPublished, WriteArtwork, WriteFault, diskVars, envVars,
     genVars, memVars, PhaseInv, SnapInv, FreshInv, MediaInv, LoadInv, AgreeInv, SettledInv,
     BaseInv, LiveInv, ForwardInv, Settled, Coherent, LiveIs, Target, Gen
<1>18. CASE WriteDatabase
  BY <1>18, <1>t DEF Fault, Goto, RecordPublished, WriteDatabase, WriteFault, diskVars, envVars,
     genVars, memVars, PhaseInv, SnapInv, FreshInv, MediaInv, LoadInv, AgreeInv, SettledInv,
     BaseInv, LiveInv, ForwardInv, Settled, Coherent, LiveIs, Target, Gen
<1>19. CASE RecordWritten
  BY <1>19, <1>t DEF Goto, RecordPublished, RecordWritten, diskVars, envVars, genVars, memVars,
     PhaseInv, SnapInv, FreshInv, MediaInv, LoadInv, AgreeInv, SettledInv, BaseInv, LiveInv,
     ForwardInv, Settled, Coherent, LiveIs, Target, Gen
<1>20. CASE VerifyWritten
  BY <1>20, <1>t, VerifyIs, VerifyRecords
     DEF VerifyWritten, SameInputs, genVars, diskVars, memVars, envVars, PhaseInv, SnapInv,
        FreshInv, MediaInv, LoadInv, AgreeInv, SettledInv, BaseInv, LiveInv, ForwardInv, Settled,
        Coherent, LiveIs, Target, Gen
<1> QED
  BY <1>1, <1>2, <1>3, <1>4, <1>5, <1>6, <1>7, <1>8, <1>9, <1>10, <1>11, <1>12, <1>13, <1>14,
     <1>15, <1>16, <1>17, <1>18, <1>19, <1>20 DEF Publish

\* Publication after the verified database leaves a device without a working
\* journal in agreement.
LEMMA SettledFinalize == Typed /\ IInv /\ LoadInv /\ AgreeInv /\ Finalize => SettledInv'
<1> SUFFICES ASSUME Typed, IInv, LoadInv, AgreeInv, Finalize PROVE SettledInv'
  OBVIOUS
<1>t. journal \in Journals /\ snap \in Snapshots /\ pc \in Points
  BY DEF Typed
<1>1. CASE CheckVerified
  BY <1>1, <1>t DEF CheckVerified, Fault, Goto, Mismatch, diskVars, envVars, genVars, memVars,
     PhaseInv, SnapInv, FreshInv, MediaInv, LoadInv, AgreeInv, SettledInv, BaseInv, LiveInv,
     ForwardInv, Settled, Coherent, LiveIs, Target, Gen
<1>2. CASE ManifestFence
  BY <1>2, <1>t DEF End, Fail, Fence, Goto, ManifestFence, NoWork, diskVars, envVars, genVars,
     memVars, PhaseInv, SnapInv, FreshInv, MediaInv, LoadInv, AgreeInv, SettledInv, BaseInv,
     LiveInv, ForwardInv, Settled, Coherent, LiveIs, Target, Gen
<1>3. CASE WriteManifest
  BY <1>3, <1>t DEF Fault, Goto, WriteManifest, diskVars, envVars, genVars, memVars, PhaseInv,
     SnapInv, FreshInv, MediaInv, LoadInv, AgreeInv, SettledInv, BaseInv, LiveInv, ForwardInv,
     Settled, Coherent, LiveIs, Target, Gen
<1>4. CASE RecordManifest
  <2>1. /\ journal'.phase = DeviceManifestPublished /\ SameInputs(journal, journal')
        /\ journal'.before = journal.before /\ journal'.verified = {Gen} /\ journal'.published = {}
    BY <1>4, <1>t, ManifestIs DEF RecordManifest
  <2> QED
    BY <1>4, <1>t, <2>1
       DEF RecordManifest, Goto, SameInputs, genVars, diskVars, memVars, envVars, PhaseInv, SnapInv,
          FreshInv, MediaInv, LoadInv, AgreeInv, SettledInv, BaseInv, LiveInv, ForwardInv, Settled,
          Coherent, LiveIs, Target, Gen
<1>5. CASE Reverify
  BY <1>5, <1>t, ResumedIs
     DEF Reverify, StillHeld, Mismatch, Fault, Goto, genVars, diskVars, memVars, envVars, PhaseInv,
        SnapInv, FreshInv, MediaInv, LoadInv, AgreeInv, SettledInv, BaseInv, LiveInv, ForwardInv,
        Settled, Coherent, LiveIs, Target, Gen
<1>6. CASE PlanFence
  BY <1>6, <1>t DEF End, Fail, Fence, Goto, NoWork, PlanFence, diskVars, envVars, genVars,
     memVars, PhaseInv, SnapInv, FreshInv, MediaInv, LoadInv, AgreeInv, SettledInv, BaseInv,
     LiveInv, ForwardInv, Settled, Coherent, LiveIs, Target, Gen
<1>7. CASE PlanProjections
  BY <1>7, <1>t, PlanIs
     DEF PlanProjections, Goto, Fail, End, SameInputs, genVars, diskVars, memVars, envVars,
        PhaseInv, SnapInv, FreshInv, MediaInv, LoadInv, AgreeInv, SettledInv, BaseInv, LiveInv,
        ForwardInv, Settled, Coherent, LiveIs, Target, Gen
<1>8. CASE OwnershipFence
  BY <1>8, <1>t DEF End, Fail, Fence, Goto, NoWork, OwnershipFence, diskVars, envVars, genVars,
     memVars, PhaseInv, SnapInv, FreshInv, MediaInv, LoadInv, AgreeInv, SettledInv, BaseInv,
     LiveInv, ForwardInv, Settled, Coherent, LiveIs, Target, Gen
<1>9. CASE WriteOwnership
  <2>1. CASE Interrupted
    <3>1. /\ journal'.phase = journal.phase /\ SameInputs(journal, journal')
        /\ journal'.before = journal.before /\ journal'.verified = journal.verified
        /\ journal'.published = {Gen}
      BY <2>1, <1>t, PublishedIs DEF Interrupted
    <3> QED
      BY <1>9, <1>t, <2>1, <3>1
         DEF WriteOwnership, Interrupted, End, SameInputs, genVars, diskVars, memVars, envVars,
            PhaseInv, SnapInv, FreshInv, MediaInv, LoadInv, AgreeInv, SettledInv, BaseInv, LiveInv,
            ForwardInv, Settled, Coherent, LiveIs, Target, Gen
  <2>2. CASE ~ Interrupted
    BY <1>9, <2>2, <1>t
       DEF WriteOwnership, Goto, genVars, diskVars, memVars, envVars, PhaseInv, SnapInv, FreshInv,
          MediaInv, LoadInv, AgreeInv, SettledInv, BaseInv, LiveInv, ForwardInv, Settled, Coherent,
          LiveIs, Target, Gen
  <2> QED
    BY <2>1, <2>2
<1>10. CASE PhaseOwnership
  <2>1. /\ journal'.phase = PlaylistOwnershipPublished /\ SameInputs(journal, journal')
        /\ journal'.before = journal.before /\ journal'.verified = journal.verified
        /\ journal'.published = journal.published
    BY <1>10, <1>t, PhaseIs DEF PhaseOwnership, SameRecords
  <2> QED
    BY <1>10, <1>t, <2>1
       DEF PhaseOwnership, Goto, SameInputs, genVars, diskVars, memVars, envVars, PhaseInv, SnapInv,
          FreshInv, MediaInv, LoadInv, AgreeInv, SettledInv, BaseInv, LiveInv, ForwardInv, Settled,
          Coherent, LiveIs, Target, Gen
<1>11. CASE RecordOwnership
  <2>1. /\ journal'.phase = journal.phase /\ SameInputs(journal, journal')
        /\ journal'.before = journal.before /\ journal'.verified = {Gen} /\ journal'.published = {}
    BY <1>11, <1>t, RecordIs DEF RecordOwnership
  <2> QED
    BY <1>11, <1>t, <2>1
       DEF RecordOwnership, Goto, SameInputs, genVars, diskVars, memVars, envVars, PhaseInv,
          SnapInv, FreshInv, MediaInv, LoadInv, AgreeInv, SettledInv, BaseInv, LiveInv, ForwardInv,
          Settled, Coherent, LiveIs, Target, Gen
<1>12. CASE ProjectionFence
  BY <1>12, <1>t DEF End, Fail, Fence, Goto, NoWork, ProjectionFence, diskVars, envVars,
     genVars, memVars, PhaseInv, SnapInv, FreshInv, MediaInv, LoadInv, AgreeInv, SettledInv,
     BaseInv, LiveInv, ForwardInv, Settled, Coherent, LiveIs, Target, Gen
<1>13. CASE WriteProjection
  <2>1. CASE Interrupted
    <3>1. /\ journal'.phase = journal.phase /\ SameInputs(journal, journal')
        /\ journal'.before = journal.before /\ journal'.verified = journal.verified
        /\ journal'.published = {Gen}
      BY <2>1, <1>t, PublishedIs DEF Interrupted
    <3> QED
      BY <1>13, <1>t, <2>1, <3>1
         DEF WriteProjection, Interrupted, End, SameInputs, genVars, diskVars, memVars, envVars,
            PhaseInv, SnapInv, FreshInv, MediaInv, LoadInv, AgreeInv, SettledInv, BaseInv, LiveInv,
            ForwardInv, Settled, Coherent, LiveIs, Target, Gen
  <2>2. CASE ~ Interrupted
    BY <1>13, <2>2, <1>t
       DEF WriteProjection, Goto, genVars, diskVars, memVars, envVars, PhaseInv, SnapInv, FreshInv,
          MediaInv, LoadInv, AgreeInv, SettledInv, BaseInv, LiveInv, ForwardInv, Settled, Coherent,
          LiveIs, Target, Gen
  <2> QED
    BY <2>1, <2>2
<1>14. CASE RemovePrevious
  <2>1. CASE Interrupted
    <3>1. /\ journal'.phase = journal.phase /\ SameInputs(journal, journal')
        /\ journal'.before = journal.before /\ journal'.verified = journal.verified
        /\ journal'.published = {Gen}
      BY <2>1, <1>t, PublishedIs DEF Interrupted
    <3> QED
      BY <1>14, <1>t, <2>1, <3>1
         DEF RemovePrevious, Interrupted, End, SameInputs, genVars, diskVars, memVars, envVars,
            PhaseInv, SnapInv, FreshInv, MediaInv, LoadInv, AgreeInv, SettledInv, BaseInv, LiveInv,
            ForwardInv, Settled, Coherent, LiveIs, Target, Gen
  <2>2. CASE ~ Interrupted
    BY <1>14, <2>2, <1>t
       DEF RemovePrevious, Goto, genVars, diskVars, memVars, envVars, PhaseInv, SnapInv, FreshInv,
          MediaInv, LoadInv, AgreeInv, SettledInv, BaseInv, LiveInv, ForwardInv, Settled, Coherent,
          LiveIs, Target, Gen
  <2> QED
    BY <2>1, <2>2
<1>15. CASE PhaseProjection
  <2>1. /\ journal'.phase = RockboxProjectionsPublished /\ SameInputs(journal, journal')
        /\ journal'.before = journal.before /\ journal'.verified = journal.verified
        /\ journal'.published = journal.published
    BY <1>15, <1>t, PhaseIs DEF PhaseProjection, SameRecords
  <2> QED
    BY <1>15, <1>t, <2>1
       DEF PhaseProjection, Goto, SameInputs, genVars, diskVars, memVars, envVars, PhaseInv,
          SnapInv, FreshInv, MediaInv, LoadInv, AgreeInv, SettledInv, BaseInv, LiveInv, ForwardInv,
          Settled, Coherent, LiveIs, Target, Gen
<1>16. CASE RecordProjection
  <2>1. /\ journal'.phase = journal.phase /\ SameInputs(journal, journal')
        /\ journal'.before = journal.before /\ journal'.verified = {Gen} /\ journal'.published = {}
    BY <1>16, <1>t, RecordIs DEF RecordProjection
  <2> QED
    BY <1>16, <1>t, <2>1
       DEF RecordProjection, Goto, SameInputs, genVars, diskVars, memVars, envVars, PhaseInv,
          SnapInv, FreshInv, MediaInv, LoadInv, AgreeInv, SettledInv, BaseInv, LiveInv, ForwardInv,
          Settled, Coherent, LiveIs, Target, Gen
<1>17. CASE AuthorityFence
  BY <1>17, <1>t DEF AuthorityFence, End, Fail, Fence, Goto, NoWork, diskVars, envVars, genVars,
     memVars, PhaseInv, SnapInv, FreshInv, MediaInv, LoadInv, AgreeInv, SettledInv, BaseInv,
     LiveInv, ForwardInv, Settled, Coherent, LiveIs, Target, Gen
<1>18. CASE WriteAuthority
  BY <1>18, <1>t DEF Goto, WriteAuthority, diskVars, envVars, memVars, PhaseInv, SnapInv,
     FreshInv, MediaInv, LoadInv, AgreeInv, SettledInv, BaseInv, LiveInv, ForwardInv, Settled,
     Coherent, LiveIs, Target, Gen
<1>19. CASE RecordAuthority
  <2>1. /\ journal'.phase = journal.phase /\ SameInputs(journal, journal')
        /\ journal'.before = journal.before /\ journal'.verified = {Gen} /\ journal'.published = {}
    BY <1>19, <1>t, RecordIs DEF RecordAuthority
  <2> QED
    BY <1>19, <1>t, <2>1
       DEF RecordAuthority, Goto, SameInputs, genVars, diskVars, memVars, envVars, PhaseInv,
          SnapInv, FreshInv, MediaInv, LoadInv, AgreeInv, SettledInv, BaseInv, LiveInv, ForwardInv,
          Settled, Coherent, LiveIs, Target, Gen
<1> QED
  BY <1>1, <1>2, <1>3, <1>4, <1>5, <1>6, <1>7, <1>8, <1>9, <1>10, <1>11, <1>12, <1>13, <1>14,
     <1>15, <1>16, <1>17, <1>18, <1>19 DEF Finalize

\* Removing what a closed journal leaves leaves a device without a working
\* journal in agreement.
LEMMA SettledCleanup == Typed /\ IInv /\ LoadInv /\ AgreeInv /\ Cleanup => SettledInv'
<1> SUFFICES ASSUME Typed, IInv, LoadInv, AgreeInv, Cleanup PROVE SettledInv'
  OBVIOUS
<1>t. journal \in Journals /\ snap \in Snapshots /\ pc \in Points
  BY DEF Typed
<1>1. CASE CleanStaged
  BY <1>1, <1>t DEF CleanStaged, Goto, Unreferenced, envVars, genVars, memVars, PhaseInv,
     SnapInv, FreshInv, MediaInv, LoadInv, AgreeInv, SettledInv, BaseInv, LiveInv, ForwardInv,
     Settled, Coherent, LiveIs, Target, Gen
<1>2. CASE RemoveObsolete
  BY <1>2, <1>t DEF Goto, RemoveObsolete, Unreferenced, envVars, genVars, memVars, PhaseInv,
     SnapInv, FreshInv, MediaInv, LoadInv, AgreeInv, SettledInv, BaseInv, LiveInv, ForwardInv,
     Settled, Coherent, LiveIs, Target, Gen
<1>3. CASE SaveCleanup
  <2>1. /\ journal'.phase = CleanupComplete /\ SameInputs(journal, journal')
        /\ journal'.before = journal.before /\ journal'.verified = journal.verified
        /\ journal'.published = journal.published
    BY <1>3, <1>t, PhaseIs DEF SaveCleanup, SameRecords
  <2> QED
    BY <1>3, <1>t, <2>1
       DEF SaveCleanup, Goto, SameInputs, genVars, diskVars, memVars, envVars, PhaseInv, SnapInv,
          FreshInv, MediaInv, LoadInv, AgreeInv, SettledInv, BaseInv, LiveInv, ForwardInv, Settled,
          Coherent, LiveIs, Target, Gen
<1>4. CASE RemoveStagedDir
  BY <1>4, <1>t DEF End, Fail, Goto, NoWork, RemoveStagedDir, diskVars, envVars, genVars,
     memVars, PhaseInv, SnapInv, FreshInv, MediaInv, LoadInv, AgreeInv, SettledInv, BaseInv,
     LiveInv, ForwardInv, Settled, Coherent, LiveIs, Target, Gen
<1>5. CASE RemoveSnapshot
  BY <1>5, <1>t DEF End, Fail, Goto, NoWork, RemoveSnapshot, diskVars, envVars, genVars,
     memVars, PhaseInv, SnapInv, FreshInv, MediaInv, LoadInv, AgreeInv, SettledInv, BaseInv,
     LiveInv, ForwardInv, Settled, Coherent, LiveIs, Target, Gen
<1>6. CASE EmptySnapshot
  BY <1>6, <1>t DEF EmptySnapshot, Goto, envVars, genVars, memVars, PhaseInv, SnapInv, FreshInv,
     MediaInv, LoadInv, AgreeInv, SettledInv, BaseInv, LiveInv, ForwardInv, Settled, Coherent,
     LiveIs, Target, Gen
<1>7. CASE RemoveJournal
  BY <1>7, <1>t DEF Goto, NoJournal, NoWork, RemoveJournal, diskVars, envVars, genVars,
     PhaseInv, SnapInv, FreshInv, MediaInv, LoadInv, AgreeInv, SettledInv, BaseInv, LiveInv,
     ForwardInv, Settled, Coherent, LiveIs, Target, Gen
<1> QED
  BY <1>1, <1>2, <1>3, <1>4, <1>5, <1>6, <1>7 DEF Cleanup

\* Restoring the snapshot leaves a device without a working journal in
\* agreement.
LEMMA SettledRollback == Typed /\ IInv /\ LoadInv /\ AgreeInv /\ Rollback => SettledInv'
<1> SUFFICES ASSUME Typed, IInv, LoadInv, AgreeInv, Rollback PROVE SettledInv'
  OBVIOUS
<1>t. journal \in Journals /\ snap \in Snapshots /\ pc \in Points
  BY DEF Typed
<1>1. CASE KnownRollback
  BY <1>1, <1>t DEF End, Fail, Goto, KnownRollback, NoWork, diskVars, envVars, genVars, memVars,
     PhaseInv, SnapInv, FreshInv, MediaInv, LoadInv, AgreeInv, SettledInv, BaseInv, LiveInv,
     ForwardInv, Settled, Coherent, LiveIs, Target, Gen
<1>2. CASE RestoreClear
  BY <1>2, <1>t DEF End, Fail, Goto, NoWork, RestoreClear, diskVars, envVars, genVars, memVars,
     PhaseInv, SnapInv, FreshInv, MediaInv, LoadInv, AgreeInv, SettledInv, BaseInv, LiveInv,
     ForwardInv, Settled, Coherent, LiveIs, Target, Gen
<1>3. CASE RestoreArtwork
  BY <1>3, <1>t DEF Goto, RestoreArtwork, diskVars, envVars, memVars, PhaseInv, SnapInv,
     FreshInv, MediaInv, LoadInv, AgreeInv, SettledInv, BaseInv, LiveInv, ForwardInv, Settled,
     Coherent, LiveIs, Target, Gen
<1>4. CASE RestoreDatabase
  BY <1>4, <1>t DEF Goto, RestoreDatabase, diskVars, envVars, memVars, PhaseInv, SnapInv,
     FreshInv, MediaInv, LoadInv, AgreeInv, SettledInv, BaseInv, LiveInv, ForwardInv, Settled,
     Coherent, LiveIs, Target, Gen
<1>5. CASE \E f \in Tracks : RestoreStaged(f)
  BY <1>5, <1>t DEF Goto, Moved, Preserving, RestoreStaged, Unreferenced, envVars, genVars,
     memVars, PhaseInv, SnapInv, FreshInv, MediaInv, LoadInv, AgreeInv, SettledInv, BaseInv,
     LiveInv, ForwardInv, Settled, Coherent, LiveIs, Target, Gen
<1>6. CASE ResumeRestored
  BY <1>6, <1>t DEF Goto, Moved, Reset, ResumeRestored, Unreferenced, diskVars, envVars,
     genVars, memVars, PhaseInv, SnapInv, FreshInv, MediaInv, LoadInv, AgreeInv, SettledInv,
     BaseInv, LiveInv, ForwardInv, Settled, Coherent, LiveIs, Target, Gen
<1>7. CASE UndoneRollback
  BY <1>7, <1>t DEF Goto, Moved, Reset, UndoneRollback, Unreferenced, diskVars, envVars,
     genVars, memVars, PhaseInv, SnapInv, FreshInv, MediaInv, LoadInv, AgreeInv, SettledInv,
     BaseInv, LiveInv, ForwardInv, Settled, Coherent, LiveIs, Target, Gen
<1>8. CASE MovedBack
  BY <1>8, <1>t DEF Goto, Moved, MovedBack, Unreferenced, diskVars, envVars, genVars, memVars,
     PhaseInv, SnapInv, FreshInv, MediaInv, LoadInv, AgreeInv, SettledInv, BaseInv, LiveInv,
     ForwardInv, Settled, Coherent, LiveIs, Target, Gen
<1>9. CASE DropStaged
  BY <1>9, <1>t DEF DropStaged, Goto, Preserving, Unreferenced, envVars, genVars, memVars,
     PhaseInv, SnapInv, FreshInv, MediaInv, LoadInv, AgreeInv, SettledInv, BaseInv, LiveInv,
     ForwardInv, Settled, Coherent, LiveIs, Target, Gen
<1>10. CASE RestoreManifest
  BY <1>10, <1>t DEF End, Fail, Goto, NoWork, RestoreManifest, diskVars, envVars, genVars,
     memVars, PhaseInv, SnapInv, FreshInv, MediaInv, LoadInv, AgreeInv, SettledInv, BaseInv,
     LiveInv, ForwardInv, Settled, Coherent, LiveIs, Target, Gen
<1>11. CASE FinishRollback
  <2>0. pc = "rbdone"
    BY <1>11 DEF FinishRollback
  <2>1. CASE journal' = journal
    BY <1>11, <1>t, <2>0, <2>1, FinishRecords
       DEF Restored, Closed, genVars, diskVars, memVars, envVars, PhaseInv, AgreeInv, SettledInv,
          Settled, Coherent, Gen
  <2>2. CASE journal' # journal
    <3>1. journal.before = {Gen} /\ pc = "rbdone" /\ UNCHANGED <<genVars, diskVars>>
      BY <1>11, <2>2, FinishRecords DEF FinishRollback
    <3>2. Coherent(Gen) /\ Gen.db.tracks \subseteq media /\ media \subseteq Gen.db.tracks
      BY <1>t, <3>1 DEF PhaseInv, AgreeInv, BaseInv
    <3>3. Settled'
      BY <3>1, <3>2 DEF Settled, Coherent, Gen, genVars, diskVars
    <3>4. pc' # "recover" /\ journal'.phase # Absent /\ pc' # "savecleanup"
      BY <1>11, <2>2, FinishRecords DEF Restored, Closed
    <3> QED
      BY <3>3, <3>4 DEF SettledInv
  <2> QED
    BY <2>1, <2>2
<1> QED
  BY <1>1, <1>2, <1>3, <1>4, <1>5, <1>6, <1>7, <1>8, <1>9, <1>10, <1>11 DEF Rollback

\* A step of the environment leaves a device without a working journal in
\* agreement.
LEMMA SettledEnvironment == Typed /\ IInv /\ LoadInv /\ AgreeInv /\ Environment => SettledInv'
<1> SUFFICES ASSUME Typed, IInv, LoadInv, AgreeInv, Environment PROVE SettledInv'
  OBVIOUS
<1>t. journal \in Journals /\ snap \in Snapshots /\ pc \in Points
  BY DEF Typed
<1>1. CASE ForeignWrite
  BY <1>1, <1>t, ForeignIs DEF diskVars, memVars, AgreeInv, SettledInv, Settled, Coherent, Gen
<1>2. CASE FirmwareNormalize
  BY <1>2, <1>t DEF Fault, FirmwareNormalize, diskVars, memVars, PhaseInv, SnapInv, FreshInv,
     MediaInv, LoadInv, AgreeInv, SettledInv, BaseInv, LiveInv, ForwardInv, Settled, Coherent,
     LiveIs, Target, Gen
<1>3. CASE LoseStaged
  BY <1>3, <1>t DEF Fault, LoseStaged, genVars, memVars, PhaseInv, SnapInv, FreshInv, MediaInv,
     LoadInv, AgreeInv, SettledInv, BaseInv, LiveInv, ForwardInv, Settled, Coherent, LiveIs,
     Target, Gen
<1>4. CASE Crash
  BY <1>4, <1>t DEF Crash, End, NoWork, genVars, PhaseInv, SnapInv, FreshInv, MediaInv, LoadInv,
     AgreeInv, SettledInv, BaseInv, LiveInv, ForwardInv, Settled, Coherent, LiveIs, Target, Gen
<1>5. CASE StopAdmission
  BY <1>5, <1>t DEF Goto, StopAdmission, diskVars, envVars, genVars, PhaseInv, SnapInv,
     FreshInv, MediaInv, LoadInv, AgreeInv, SettledInv, BaseInv, LiveInv, ForwardInv, Settled,
     Coherent, LiveIs, Target, Gen
<1>6. CASE EndSession
  BY <1>6, <1>t DEF End, EndSession, Fail, NoWork, diskVars, envVars, genVars, PhaseInv,
     SnapInv, FreshInv, MediaInv, LoadInv, AgreeInv, SettledInv, BaseInv, LiveInv, ForwardInv,
     Settled, Coherent, LiveIs, Target, Gen
<1>7. CASE \E w \in Works : BeginSync(w)
  BY <1>7, <1>t DEF BeginSync, diskVars, genVars, PhaseInv, SnapInv, FreshInv, MediaInv,
     LoadInv, AgreeInv, SettledInv, BaseInv, LiveInv, ForwardInv, Settled, Coherent, LiveIs,
     Target, Gen
<1> QED
  BY <1>1, <1>2, <1>3, <1>4, <1>5, <1>6, <1>7 DEF Environment

\* Acquiring the lease leaves a device without a working journal in agreement.
LEMMA SettledAcquire == Typed /\ IInv /\ LoadInv /\ AgreeInv /\ Acquire => SettledInv'
<1> SUFFICES ASSUME Typed, IInv, LoadInv, AgreeInv, Acquire PROVE SettledInv'
  OBVIOUS
<1>t. journal \in Journals /\ snap \in Snapshots /\ pc \in Points
  BY DEF Typed
<1>1. CASE Acquire
  BY <1>1, <1>t DEF Acquire, diskVars, envVars, genVars, PhaseInv, SnapInv, FreshInv, MediaInv,
     LoadInv, AgreeInv, SettledInv, BaseInv, LiveInv, ForwardInv, Settled, Coherent, LiveIs,
     Target, Gen
<1> QED
  BY <1>1

-----------------------------------------------------------------------------
(* What stays as the predecessor had it.                                     *)

\* Recovering the journal a session finds keeps what the predecessor had until
\* the manifest is published.
LEMMA BaseRecovery == Typed /\ IInv /\ LoadInv /\ AgreeInv /\ Recovery => BaseInv'
<1> SUFFICES ASSUME Typed, IInv, LoadInv, AgreeInv, Recovery PROVE BaseInv'
  OBVIOUS
<1>t. journal \in Journals /\ snap \in Snapshots /\ pc \in Points
  BY DEF Typed
<1>1. CASE RecoverUndone
  BY <1>1, <1>t DEF Goto, RecoverUndone, Undone, diskVars, envVars, genVars, memVars, PhaseInv,
     SnapInv, FreshInv, MediaInv, LoadInv, AgreeInv, SettledInv, BaseInv, LiveInv, WalkInv,
     Settled, Coherent, LiveIs, Target, Gen
<1>2. CASE RecoverStaging
  BY <1>2, <1>t DEF Goto, RecoverStaging, Unreferenced, envVars, genVars, memVars, PhaseInv,
     SnapInv, FreshInv, MediaInv, LoadInv, AgreeInv, SettledInv, BaseInv, LiveInv, WalkInv,
     Settled, Coherent, LiveIs, Target, Gen
<1>3. CASE SaveAbandoned
  BY <1>3, <1>t DEF Abandoned, End, Fail, Goto, NoWork, SaveAbandoned, diskVars, envVars,
     genVars, memVars, PhaseInv, SnapInv, FreshInv, MediaInv, LoadInv, AgreeInv, SettledInv,
     BaseInv, LiveInv, WalkInv, Settled, Coherent, LiveIs, Target, Gen
<1>4. CASE RemoveAbandonedDir
  BY <1>4, <1>t DEF Goto, RemoveAbandonedDir, envVars, genVars, memVars, PhaseInv, SnapInv,
     FreshInv, MediaInv, LoadInv, AgreeInv, SettledInv, BaseInv, LiveInv, WalkInv, Settled,
     Coherent, LiveIs, Target, Gen
<1>5. CASE RecoverFirmware
  BY <1>5, <1>t DEF Goto, RecoverFirmware, Undone, diskVars, envVars, genVars, memVars,
     PhaseInv, SnapInv, FreshInv, MediaInv, LoadInv, AgreeInv, SettledInv, BaseInv, LiveInv,
     WalkInv, Settled, Coherent, LiveIs, Target, Gen
<1>6. CASE RecoverLost
  BY <1>6, <1>t DEF End, Fail, Goto, Lost, NoWork, RecoverLost, diskVars, envVars, genVars,
     memVars, PhaseInv, SnapInv, FreshInv, MediaInv, LoadInv, AgreeInv, SettledInv, BaseInv,
     LiveInv, WalkInv, Settled, Coherent, LiveIs, Target, Gen
<1>7. CASE RecoverPublish
  BY <1>7, <1>t DEF Goto, Lost, RecoverPublish, Undone, diskVars, envVars, genVars, memVars,
     PhaseInv, SnapInv, FreshInv, MediaInv, LoadInv, AgreeInv, SettledInv, BaseInv, LiveInv,
     WalkInv, Settled, Coherent, LiveIs, Target, Gen
<1> QED
  BY <1>1, <1>2, <1>3, <1>4, <1>5, <1>6, <1>7 DEF Recovery

\* Staging and saving albums keeps what the predecessor had until the manifest
\* is published.
LEMMA BaseStaged == Typed /\ IInv /\ LoadInv /\ AgreeInv /\ Staged => BaseInv'
<1> SUFFICES ASSUME Typed, IInv, LoadInv, AgreeInv, Staged PROVE BaseInv'
  OBVIOUS
<1>t. journal \in Journals /\ snap \in Snapshots /\ pc \in Points
  BY DEF Typed
<1>1. CASE \E f \in Tracks : StageFile(f)
  BY <1>1, <1>t DEF Goto, StageFile, envVars, genVars, memVars, PhaseInv, SnapInv, FreshInv,
     MediaInv, LoadInv, AgreeInv, SettledInv, BaseInv, LiveInv, WalkInv, Settled, Coherent,
     LiveIs, Target, Gen
<1>2. CASE SaveAlbum
  BY <1>2, <1>t DEF Goto, NewJournal, NoJournal, SaveAlbum, diskVars, envVars, genVars, memVars,
     PhaseInv, SnapInv, FreshInv, MediaInv, LoadInv, AgreeInv, SettledInv, BaseInv, LiveInv,
     WalkInv, Settled, Coherent, LiveIs, Target, Gen
<1>3. CASE FinishStaging
  BY <1>3, <1>t DEF FinishStaging, Goto, diskVars, envVars, genVars, memVars, PhaseInv, SnapInv,
     FreshInv, MediaInv, LoadInv, AgreeInv, SettledInv, BaseInv, LiveInv, WalkInv, Settled,
     Coherent, LiveIs, Target, Gen
<1> QED
  BY <1>1, <1>2, <1>3 DEF Staged

\* Publication up to the verified database keeps what the predecessor had until
\* the manifest is published.
LEMMA BasePublish == Typed /\ IInv /\ LoadInv /\ AgreeInv /\ Publish => BaseInv'
<1> SUFFICES ASSUME Typed, IInv, LoadInv, AgreeInv, Publish PROVE BaseInv'
  OBVIOUS
<1>t. journal \in Journals /\ snap \in Snapshots /\ pc \in Points
  BY DEF Typed
<1>1. CASE PublishFence
  BY <1>1, <1>t DEF End, Fail, Fence, Goto, NoWork, PublishFence, diskVars, envVars, genVars,
     memVars, PhaseInv, SnapInv, FreshInv, MediaInv, LoadInv, AgreeInv, SettledInv, BaseInv,
     LiveInv, WalkInv, Settled, Coherent, LiveIs, Target, Gen
<1>2. CASE Prepare
  <2>1. CASE \E o \in Outcomes : Fail(o)
    BY <1>2, <1>t, <2>1
       DEF Prepare, Fail, End, genVars, diskVars, memVars, envVars, PhaseInv, AgreeInv, BaseInv
  <2>2. CASE ~ \E o \in Outcomes : Fail(o)
    <3>1. /\ UNCHANGED <<genVars, diskVars, memVars, exp, why, out, envVars>>
          /\ pc' \in {"artwork", "preimage"} /\ pc \in {"fence", "prepare"}
      BY <1>2, <2>2, PrepareIs DEF Prepare
    <3>2. CASE journal.phase = Absent
      <4>1. /\ journal'.phase = Staging /\ journal'.before = {Gen} /\ journal'.staged = pending
            /\ journal'.final = {} /\ journal'.pre = {} /\ journal'.cand = {}
            /\ journal'.obsolete \subseteq work.obsolete
        BY <1>2, <2>2, <3>2, PrepareIs, PrepareFirst
      <4>2. Settled /\ pending \subseteq work.staged /\ work.staged \cap work.obsolete = {}
        BY <3>1, <3>2 DEF AgreeInv, SettledInv, BaseInv
      <4> QED
        BY <3>1, <4>1, <4>2 DEF BaseInv, Settled, Coherent, Gen, genVars, diskVars, memVars
    <3>3. CASE journal.phase # Absent
      <4>1. /\ journal'.phase = journal.phase /\ SameInputs(journal, journal')
            /\ journal'.before = (IF journal.before = {} THEN {Gen} ELSE journal.before)
        BY <1>2, <2>2, <3>3, PrepareIs
      <4>2. CASE journal.before # {}
        BY <1>t, <3>1, <4>1, <4>2 DEF AgreeInv, BaseInv, SameInputs, genVars, diskVars, memVars,
           Coherent
      <4>3. CASE journal.before = {}
        <5>1. journal.phase \notin {ReadyToPublish, DatabaseVerified}
          BY <4>3 DEF LoadInv
        <5>2. journal.phase = Staging =>
                /\ Settled /\ journal.pre = {}
                /\ journal'.before = {Gen}
          BY <4>1, <4>3 DEF AgreeInv, SettledInv, BaseInv, FreshInv
        <5> QED
          BY <1>t, <3>1, <4>1, <5>1, <5>2
          DEF AgreeInv, BaseInv, SameInputs, genVars, diskVars, memVars, Settled, Coherent, Gen
      <4> QED
        BY <4>2, <4>3
    <3> QED
      BY <3>2, <3>3
  <2> QED
    BY <2>1, <2>2
<1>3. CASE PrepareArtwork
  BY <1>3, <1>t DEF End, Fault, Goto, NoWork, PrepareArtwork, diskVars, envVars, genVars,
     memVars, PhaseInv, SnapInv, FreshInv, MediaInv, LoadInv, AgreeInv, SettledInv, BaseInv,
     LiveInv, WalkInv, Settled, Coherent, LiveIs, Target, Gen
<1>4. CASE EnsurePreimage
  BY <1>4, <1>t DEF End, EnsurePreimage, Fail, Goto, NoWork, diskVars, envVars, genVars,
     memVars, PhaseInv, SnapInv, FreshInv, MediaInv, LoadInv, AgreeInv, SettledInv, BaseInv,
     LiveInv, WalkInv, Settled, Coherent, LiveIs, Target, Gen
<1>5. CASE EnsureSnapshot
  BY <1>5, <1>t DEF End, EnsureSnapshot, Fail, Goto, NoWork, diskVars, envVars, genVars,
     memVars, PhaseInv, SnapInv, FreshInv, MediaInv, LoadInv, AgreeInv, SettledInv, BaseInv,
     LiveInv, WalkInv, Settled, Coherent, LiveIs, Target, Gen
<1>6. CASE FillSnapshot
  BY <1>6, <1>t DEF FillSnapshot, Goto, envVars, genVars, memVars, PhaseInv, SnapInv, FreshInv,
     MediaInv, LoadInv, AgreeInv, SettledInv, BaseInv, LiveInv, WalkInv, Settled, Coherent,
     LiveIs, Target, Gen
<1>7. CASE Dispatch
  BY <1>7, <1>t DEF Dispatch, Goto, diskVars, envVars, genVars, memVars, PhaseInv, SnapInv,
     FreshInv, MediaInv, LoadInv, AgreeInv, SettledInv, BaseInv, LiveInv, WalkInv, Settled,
     Coherent, LiveIs, Target, Gen
<1>8. CASE ResumeCandidate
  BY <1>8, <1>t, ResumeIs, ResumeRecords
     DEF ResumeCandidate, SameInputs, genVars, diskVars, memVars, envVars, PhaseInv, SnapInv,
        FreshInv, MediaInv, LoadInv, AgreeInv, SettledInv, BaseInv, LiveInv, WalkInv, Settled,
        Coherent, LiveIs, Target, Gen
<1>9. CASE OpenDatabase
  BY <1>9, <1>t DEF Goto, OpenDatabase, diskVars, envVars, genVars, PhaseInv, SnapInv, FreshInv,
     MediaInv, LoadInv, AgreeInv, SettledInv, BaseInv, LiveInv, WalkInv, Settled, Coherent,
     LiveIs, Target, Gen
<1>10. CASE \E f \in Tracks : ReserveFinal(f)
  BY <1>10, <1>t DEF Goto, ReserveFinal, diskVars, envVars, genVars, PhaseInv, SnapInv,
     FreshInv, MediaInv, LoadInv, AgreeInv, SettledInv, BaseInv, LiveInv, WalkInv, Settled,
     Coherent, LiveIs, Target, Gen
<1>11. CASE MoveStaged
  BY <1>11, <1>t DEF Goto, MoveStaged, envVars, genVars, memVars, PhaseInv, SnapInv, FreshInv,
     MediaInv, LoadInv, AgreeInv, SettledInv, BaseInv, LiveInv, WalkInv, Settled, Coherent,
     LiveIs, Target, Gen
<1>12. CASE RecordAdded
  BY <1>12, <1>t DEF Goto, RecordAdded, diskVars, envVars, genVars, PhaseInv, SnapInv, FreshInv,
     MediaInv, LoadInv, AgreeInv, SettledInv, BaseInv, LiveInv, WalkInv, Settled, Coherent,
     LiveIs, Target, Gen
<1>13. CASE UpdateMetadata
  BY <1>13, <1>t DEF Goto, UpdateMetadata, diskVars, envVars, genVars, PhaseInv, SnapInv,
     FreshInv, MediaInv, LoadInv, AgreeInv, SettledInv, BaseInv, LiveInv, WalkInv, Settled,
     Coherent, LiveIs, Target, Gen
<1>14. CASE ReconcileCandidate
  BY <1>14, <1>t, ReconcileIs
     DEF ReconcileCandidate, SameRecords, genVars, diskVars, memVars, envVars, PhaseInv, SnapInv,
        FreshInv, MediaInv, LoadInv, AgreeInv, SettledInv, BaseInv, LiveInv, WalkInv, Settled,
        Coherent, LiveIs, Target, Gen
<1>15. CASE DatabaseFence
  BY <1>15, <1>t DEF DatabaseFence, End, Fail, Fence, Goto, NoWork, diskVars, envVars, genVars,
     memVars, PhaseInv, SnapInv, FreshInv, MediaInv, LoadInv, AgreeInv, SettledInv, BaseInv,
     LiveInv, WalkInv, Settled, Coherent, LiveIs, Target, Gen
<1>16. CASE ClearArtwork
  BY <1>16, <1>t DEF ClearArtwork, Goto, diskVars, envVars, memVars, PhaseInv, SnapInv,
     FreshInv, MediaInv, LoadInv, AgreeInv, SettledInv, BaseInv, LiveInv, WalkInv, Settled,
     Coherent, LiveIs, Target, Gen
<1>17. CASE WriteArtwork
  BY <1>17, <1>t DEF Fault, Goto, RecordPublished, WriteArtwork, WriteFault, diskVars, envVars,
     genVars, memVars, PhaseInv, SnapInv, FreshInv, MediaInv, LoadInv, AgreeInv, SettledInv,
     BaseInv, LiveInv, WalkInv, Settled, Coherent, LiveIs, Target, Gen
<1>18. CASE WriteDatabase
  BY <1>18, <1>t DEF Fault, Goto, RecordPublished, WriteDatabase, WriteFault, diskVars, envVars,
     genVars, memVars, PhaseInv, SnapInv, FreshInv, MediaInv, LoadInv, AgreeInv, SettledInv,
     BaseInv, LiveInv, WalkInv, Settled, Coherent, LiveIs, Target, Gen
<1>19. CASE RecordWritten
  BY <1>19, <1>t DEF Goto, RecordPublished, RecordWritten, diskVars, envVars, genVars, memVars,
     PhaseInv, SnapInv, FreshInv, MediaInv, LoadInv, AgreeInv, SettledInv, BaseInv, LiveInv,
     WalkInv, Settled, Coherent, LiveIs, Target, Gen
<1>20. CASE VerifyWritten
  BY <1>20, <1>t, VerifyIs, VerifyRecords
     DEF VerifyWritten, SameInputs, genVars, diskVars, memVars, envVars, PhaseInv, SnapInv,
        FreshInv, MediaInv, LoadInv, AgreeInv, SettledInv, BaseInv, LiveInv, WalkInv, Settled,
        Coherent, LiveIs, Target, Gen
<1> QED
  BY <1>1, <1>2, <1>3, <1>4, <1>5, <1>6, <1>7, <1>8, <1>9, <1>10, <1>11, <1>12, <1>13, <1>14,
     <1>15, <1>16, <1>17, <1>18, <1>19, <1>20 DEF Publish

\* Publication after the verified database keeps what the predecessor had until
\* the manifest is published.
LEMMA BaseFinalize == Typed /\ IInv /\ LoadInv /\ AgreeInv /\ Finalize => BaseInv'
<1> SUFFICES ASSUME Typed, IInv, LoadInv, AgreeInv, Finalize PROVE BaseInv'
  OBVIOUS
<1>t. journal \in Journals /\ snap \in Snapshots /\ pc \in Points
  BY DEF Typed
<1>1. CASE CheckVerified
  BY <1>1, <1>t DEF CheckVerified, Fault, Goto, Mismatch, diskVars, envVars, genVars, memVars,
     PhaseInv, SnapInv, FreshInv, MediaInv, LoadInv, AgreeInv, SettledInv, BaseInv, LiveInv,
     WalkInv, Settled, Coherent, LiveIs, Target, Gen
<1>2. CASE ManifestFence
  BY <1>2, <1>t DEF End, Fail, Fence, Goto, ManifestFence, NoWork, diskVars, envVars, genVars,
     memVars, PhaseInv, SnapInv, FreshInv, MediaInv, LoadInv, AgreeInv, SettledInv, BaseInv,
     LiveInv, WalkInv, Settled, Coherent, LiveIs, Target, Gen
<1>3. CASE WriteManifest
  BY <1>3, <1>t DEF Fault, Goto, WriteManifest, diskVars, envVars, genVars, memVars, PhaseInv,
     SnapInv, FreshInv, MediaInv, LoadInv, AgreeInv, SettledInv, BaseInv, LiveInv, WalkInv,
     Settled, Coherent, LiveIs, Target, Gen
<1>4. CASE RecordManifest
  <2>1. /\ journal'.phase = DeviceManifestPublished /\ SameInputs(journal, journal')
        /\ journal'.before = journal.before /\ journal'.verified = {Gen} /\ journal'.published = {}
    BY <1>4, <1>t, ManifestIs DEF RecordManifest
  <2> QED
    BY <1>4, <1>t, <2>1
       DEF RecordManifest, Goto, SameInputs, genVars, diskVars, memVars, envVars, PhaseInv, SnapInv,
          FreshInv, MediaInv, LoadInv, AgreeInv, SettledInv, BaseInv, LiveInv, WalkInv, Settled,
          Coherent, LiveIs, Target, Gen
<1>5. CASE Reverify
  BY <1>5, <1>t, ResumedIs
     DEF Reverify, StillHeld, Mismatch, Fault, Goto, genVars, diskVars, memVars, envVars, PhaseInv,
        SnapInv, FreshInv, MediaInv, LoadInv, AgreeInv, SettledInv, BaseInv, LiveInv, WalkInv,
        Settled, Coherent, LiveIs, Target, Gen
<1>6. CASE PlanFence
  BY <1>6, <1>t DEF End, Fail, Fence, Goto, NoWork, PlanFence, diskVars, envVars, genVars,
     memVars, PhaseInv, SnapInv, FreshInv, MediaInv, LoadInv, AgreeInv, SettledInv, BaseInv,
     LiveInv, WalkInv, Settled, Coherent, LiveIs, Target, Gen
<1>7. CASE PlanProjections
  BY <1>7, <1>t, PlanIs
     DEF PlanProjections, Goto, Fail, End, SameInputs, genVars, diskVars, memVars, envVars,
        PhaseInv, SnapInv, FreshInv, MediaInv, LoadInv, AgreeInv, SettledInv, BaseInv, LiveInv,
        WalkInv, Settled, Coherent, LiveIs, Target, Gen
<1>8. CASE OwnershipFence
  BY <1>8, <1>t DEF End, Fail, Fence, Goto, NoWork, OwnershipFence, diskVars, envVars, genVars,
     memVars, PhaseInv, SnapInv, FreshInv, MediaInv, LoadInv, AgreeInv, SettledInv, BaseInv,
     LiveInv, WalkInv, Settled, Coherent, LiveIs, Target, Gen
<1>9. CASE WriteOwnership
  <2>1. CASE Interrupted
    <3>1. /\ journal'.phase = journal.phase /\ SameInputs(journal, journal')
        /\ journal'.before = journal.before /\ journal'.verified = journal.verified
        /\ journal'.published = {Gen}
      BY <2>1, <1>t, PublishedIs DEF Interrupted
    <3> QED
      BY <1>9, <1>t, <2>1, <3>1
         DEF WriteOwnership, Interrupted, End, SameInputs, genVars, diskVars, memVars, envVars,
            PhaseInv, SnapInv, FreshInv, MediaInv, LoadInv, AgreeInv, SettledInv, BaseInv, LiveInv,
            WalkInv, Settled, Coherent, LiveIs, Target, Gen
  <2>2. CASE ~ Interrupted
    BY <1>9, <2>2, <1>t
       DEF WriteOwnership, Goto, genVars, diskVars, memVars, envVars, PhaseInv, SnapInv, FreshInv,
          MediaInv, LoadInv, AgreeInv, SettledInv, BaseInv, LiveInv, WalkInv, Settled, Coherent,
          LiveIs, Target, Gen
  <2> QED
    BY <2>1, <2>2
<1>10. CASE PhaseOwnership
  <2>1. /\ journal'.phase = PlaylistOwnershipPublished /\ SameInputs(journal, journal')
        /\ journal'.before = journal.before /\ journal'.verified = journal.verified
        /\ journal'.published = journal.published
    BY <1>10, <1>t, PhaseIs DEF PhaseOwnership, SameRecords
  <2> QED
    BY <1>10, <1>t, <2>1
       DEF PhaseOwnership, Goto, SameInputs, genVars, diskVars, memVars, envVars, PhaseInv, SnapInv,
          FreshInv, MediaInv, LoadInv, AgreeInv, SettledInv, BaseInv, LiveInv, WalkInv, Settled,
          Coherent, LiveIs, Target, Gen
<1>11. CASE RecordOwnership
  <2>1. /\ journal'.phase = journal.phase /\ SameInputs(journal, journal')
        /\ journal'.before = journal.before /\ journal'.verified = {Gen} /\ journal'.published = {}
    BY <1>11, <1>t, RecordIs DEF RecordOwnership
  <2> QED
    BY <1>11, <1>t, <2>1
       DEF RecordOwnership, Goto, SameInputs, genVars, diskVars, memVars, envVars, PhaseInv,
          SnapInv, FreshInv, MediaInv, LoadInv, AgreeInv, SettledInv, BaseInv, LiveInv, WalkInv,
          Settled, Coherent, LiveIs, Target, Gen
<1>12. CASE ProjectionFence
  BY <1>12, <1>t DEF End, Fail, Fence, Goto, NoWork, ProjectionFence, diskVars, envVars,
     genVars, memVars, PhaseInv, SnapInv, FreshInv, MediaInv, LoadInv, AgreeInv, SettledInv,
     BaseInv, LiveInv, WalkInv, Settled, Coherent, LiveIs, Target, Gen
<1>13. CASE WriteProjection
  <2>1. CASE Interrupted
    <3>1. /\ journal'.phase = journal.phase /\ SameInputs(journal, journal')
        /\ journal'.before = journal.before /\ journal'.verified = journal.verified
        /\ journal'.published = {Gen}
      BY <2>1, <1>t, PublishedIs DEF Interrupted
    <3> QED
      BY <1>13, <1>t, <2>1, <3>1
         DEF WriteProjection, Interrupted, End, SameInputs, genVars, diskVars, memVars, envVars,
            PhaseInv, SnapInv, FreshInv, MediaInv, LoadInv, AgreeInv, SettledInv, BaseInv, LiveInv,
            WalkInv, Settled, Coherent, LiveIs, Target, Gen
  <2>2. CASE ~ Interrupted
    BY <1>13, <2>2, <1>t
       DEF WriteProjection, Goto, genVars, diskVars, memVars, envVars, PhaseInv, SnapInv, FreshInv,
          MediaInv, LoadInv, AgreeInv, SettledInv, BaseInv, LiveInv, WalkInv, Settled, Coherent,
          LiveIs, Target, Gen
  <2> QED
    BY <2>1, <2>2
<1>14. CASE RemovePrevious
  <2>1. CASE Interrupted
    <3>1. /\ journal'.phase = journal.phase /\ SameInputs(journal, journal')
        /\ journal'.before = journal.before /\ journal'.verified = journal.verified
        /\ journal'.published = {Gen}
      BY <2>1, <1>t, PublishedIs DEF Interrupted
    <3> QED
      BY <1>14, <1>t, <2>1, <3>1
         DEF RemovePrevious, Interrupted, End, SameInputs, genVars, diskVars, memVars, envVars,
            PhaseInv, SnapInv, FreshInv, MediaInv, LoadInv, AgreeInv, SettledInv, BaseInv, LiveInv,
            WalkInv, Settled, Coherent, LiveIs, Target, Gen
  <2>2. CASE ~ Interrupted
    BY <1>14, <2>2, <1>t
       DEF RemovePrevious, Goto, genVars, diskVars, memVars, envVars, PhaseInv, SnapInv, FreshInv,
          MediaInv, LoadInv, AgreeInv, SettledInv, BaseInv, LiveInv, WalkInv, Settled, Coherent,
          LiveIs, Target, Gen
  <2> QED
    BY <2>1, <2>2
<1>15. CASE PhaseProjection
  <2>1. /\ journal'.phase = RockboxProjectionsPublished /\ SameInputs(journal, journal')
        /\ journal'.before = journal.before /\ journal'.verified = journal.verified
        /\ journal'.published = journal.published
    BY <1>15, <1>t, PhaseIs DEF PhaseProjection, SameRecords
  <2> QED
    BY <1>15, <1>t, <2>1
       DEF PhaseProjection, Goto, SameInputs, genVars, diskVars, memVars, envVars, PhaseInv,
          SnapInv, FreshInv, MediaInv, LoadInv, AgreeInv, SettledInv, BaseInv, LiveInv, WalkInv,
          Settled, Coherent, LiveIs, Target, Gen
<1>16. CASE RecordProjection
  <2>1. /\ journal'.phase = journal.phase /\ SameInputs(journal, journal')
        /\ journal'.before = journal.before /\ journal'.verified = {Gen} /\ journal'.published = {}
    BY <1>16, <1>t, RecordIs DEF RecordProjection
  <2> QED
    BY <1>16, <1>t, <2>1
       DEF RecordProjection, Goto, SameInputs, genVars, diskVars, memVars, envVars, PhaseInv,
          SnapInv, FreshInv, MediaInv, LoadInv, AgreeInv, SettledInv, BaseInv, LiveInv, WalkInv,
          Settled, Coherent, LiveIs, Target, Gen
<1>17. CASE AuthorityFence
  BY <1>17, <1>t DEF AuthorityFence, End, Fail, Fence, Goto, NoWork, diskVars, envVars, genVars,
     memVars, PhaseInv, SnapInv, FreshInv, MediaInv, LoadInv, AgreeInv, SettledInv, BaseInv,
     LiveInv, WalkInv, Settled, Coherent, LiveIs, Target, Gen
<1>18. CASE WriteAuthority
  BY <1>18, <1>t DEF Goto, WriteAuthority, diskVars, envVars, memVars, PhaseInv, SnapInv,
     FreshInv, MediaInv, LoadInv, AgreeInv, SettledInv, BaseInv, LiveInv, WalkInv, Settled,
     Coherent, LiveIs, Target, Gen
<1>19. CASE RecordAuthority
  <2>1. /\ journal'.phase = journal.phase /\ SameInputs(journal, journal')
        /\ journal'.before = journal.before /\ journal'.verified = {Gen} /\ journal'.published = {}
    BY <1>19, <1>t, RecordIs DEF RecordAuthority
  <2> QED
    BY <1>19, <1>t, <2>1
       DEF RecordAuthority, Goto, SameInputs, genVars, diskVars, memVars, envVars, PhaseInv,
          SnapInv, FreshInv, MediaInv, LoadInv, AgreeInv, SettledInv, BaseInv, LiveInv, WalkInv,
          Settled, Coherent, LiveIs, Target, Gen
<1> QED
  BY <1>1, <1>2, <1>3, <1>4, <1>5, <1>6, <1>7, <1>8, <1>9, <1>10, <1>11, <1>12, <1>13, <1>14,
     <1>15, <1>16, <1>17, <1>18, <1>19 DEF Finalize

\* Removing what a closed journal leaves keeps what the predecessor had until
\* the manifest is published.
LEMMA BaseCleanup == Typed /\ IInv /\ LoadInv /\ AgreeInv /\ Cleanup => BaseInv'
<1> SUFFICES ASSUME Typed, IInv, LoadInv, AgreeInv, Cleanup PROVE BaseInv'
  OBVIOUS
<1>t. journal \in Journals /\ snap \in Snapshots /\ pc \in Points
  BY DEF Typed
<1>1. CASE CleanStaged
  BY <1>1, <1>t DEF CleanStaged, Goto, Unreferenced, envVars, genVars, memVars, PhaseInv,
     SnapInv, FreshInv, MediaInv, LoadInv, AgreeInv, SettledInv, BaseInv, LiveInv, WalkInv,
     Settled, Coherent, LiveIs, Target, Gen
<1>2. CASE RemoveObsolete
  BY <1>2, <1>t DEF Goto, RemoveObsolete, Unreferenced, envVars, genVars, memVars, PhaseInv,
     SnapInv, FreshInv, MediaInv, LoadInv, AgreeInv, SettledInv, BaseInv, LiveInv, WalkInv,
     Settled, Coherent, LiveIs, Target, Gen
<1>3. CASE SaveCleanup
  <2>1. /\ journal'.phase = CleanupComplete /\ SameInputs(journal, journal')
        /\ journal'.before = journal.before /\ journal'.verified = journal.verified
        /\ journal'.published = journal.published
    BY <1>3, <1>t, PhaseIs DEF SaveCleanup, SameRecords
  <2> QED
    BY <1>3, <1>t, <2>1
       DEF SaveCleanup, Goto, SameInputs, genVars, diskVars, memVars, envVars, PhaseInv, SnapInv,
          FreshInv, MediaInv, LoadInv, AgreeInv, SettledInv, BaseInv, LiveInv, WalkInv, Settled,
          Coherent, LiveIs, Target, Gen
<1>4. CASE RemoveStagedDir
  BY <1>4, <1>t DEF End, Fail, Goto, NoWork, RemoveStagedDir, diskVars, envVars, genVars,
     memVars, PhaseInv, SnapInv, FreshInv, MediaInv, LoadInv, AgreeInv, SettledInv, BaseInv,
     LiveInv, WalkInv, Settled, Coherent, LiveIs, Target, Gen
<1>5. CASE RemoveSnapshot
  BY <1>5, <1>t DEF End, Fail, Goto, NoWork, RemoveSnapshot, diskVars, envVars, genVars,
     memVars, PhaseInv, SnapInv, FreshInv, MediaInv, LoadInv, AgreeInv, SettledInv, BaseInv,
     LiveInv, WalkInv, Settled, Coherent, LiveIs, Target, Gen
<1>6. CASE EmptySnapshot
  BY <1>6, <1>t DEF EmptySnapshot, Goto, envVars, genVars, memVars, PhaseInv, SnapInv, FreshInv,
     MediaInv, LoadInv, AgreeInv, SettledInv, BaseInv, LiveInv, WalkInv, Settled, Coherent,
     LiveIs, Target, Gen
<1>7. CASE RemoveJournal
  BY <1>7, <1>t DEF Goto, NoJournal, NoWork, RemoveJournal, diskVars, envVars, genVars,
     PhaseInv, SnapInv, FreshInv, MediaInv, LoadInv, AgreeInv, SettledInv, BaseInv, LiveInv,
     WalkInv, Settled, Coherent, LiveIs, Target, Gen
<1> QED
  BY <1>1, <1>2, <1>3, <1>4, <1>5, <1>6, <1>7 DEF Cleanup

\* Restoring the snapshot keeps what the predecessor had until the manifest is
\* published.
LEMMA BaseRollback == Typed /\ IInv /\ LoadInv /\ AgreeInv /\ Rollback => BaseInv'
<1> SUFFICES ASSUME Typed, IInv, LoadInv, AgreeInv, Rollback PROVE BaseInv'
  OBVIOUS
<1>t. journal \in Journals /\ snap \in Snapshots /\ pc \in Points
  BY DEF Typed
<1>1. CASE KnownRollback
  BY <1>1, <1>t DEF End, Fail, Goto, KnownRollback, NoWork, diskVars, envVars, genVars, memVars,
     PhaseInv, SnapInv, FreshInv, MediaInv, LoadInv, AgreeInv, SettledInv, BaseInv, LiveInv,
     WalkInv, Settled, Coherent, LiveIs, Target, Gen
<1>2. CASE RestoreClear
  BY <1>2, <1>t DEF End, Fail, Goto, NoWork, RestoreClear, diskVars, envVars, genVars, memVars,
     PhaseInv, SnapInv, FreshInv, MediaInv, LoadInv, AgreeInv, SettledInv, BaseInv, LiveInv,
     WalkInv, Settled, Coherent, LiveIs, Target, Gen
<1>3. CASE RestoreArtwork
  BY <1>3, <1>t DEF Goto, RestoreArtwork, diskVars, envVars, memVars, PhaseInv, SnapInv,
     FreshInv, MediaInv, LoadInv, AgreeInv, SettledInv, BaseInv, LiveInv, WalkInv, Settled,
     Coherent, LiveIs, Target, Gen
<1>4. CASE RestoreDatabase
  BY <1>4, <1>t DEF Goto, RestoreDatabase, diskVars, envVars, memVars, PhaseInv, SnapInv,
     FreshInv, MediaInv, LoadInv, AgreeInv, SettledInv, BaseInv, LiveInv, WalkInv, Settled,
     Coherent, LiveIs, Target, Gen
<1>5. CASE \E f \in Tracks : RestoreStaged(f)
  BY <1>5, <1>t DEF Goto, Moved, Preserving, RestoreStaged, Unreferenced, envVars, genVars,
     memVars, PhaseInv, SnapInv, FreshInv, MediaInv, LoadInv, AgreeInv, SettledInv, BaseInv,
     LiveInv, WalkInv, Settled, Coherent, LiveIs, Target, Gen
<1>6. CASE ResumeRestored
  BY <1>6, <1>t DEF Goto, Moved, Reset, ResumeRestored, Unreferenced, diskVars, envVars,
     genVars, memVars, PhaseInv, SnapInv, FreshInv, MediaInv, LoadInv, AgreeInv, SettledInv,
     BaseInv, LiveInv, WalkInv, Settled, Coherent, LiveIs, Target, Gen
<1>7. CASE UndoneRollback
  BY <1>7, <1>t DEF Goto, Moved, Reset, UndoneRollback, Unreferenced, diskVars, envVars,
     genVars, memVars, PhaseInv, SnapInv, FreshInv, MediaInv, LoadInv, AgreeInv, SettledInv,
     BaseInv, LiveInv, WalkInv, Settled, Coherent, LiveIs, Target, Gen
<1>8. CASE MovedBack
  BY <1>8, <1>t DEF Goto, Moved, MovedBack, Unreferenced, diskVars, envVars, genVars, memVars,
     PhaseInv, SnapInv, FreshInv, MediaInv, LoadInv, AgreeInv, SettledInv, BaseInv, LiveInv,
     WalkInv, Settled, Coherent, LiveIs, Target, Gen
<1>9. CASE DropStaged
  BY <1>9, <1>t DEF DropStaged, Goto, Preserving, Unreferenced, envVars, genVars, memVars,
     PhaseInv, SnapInv, FreshInv, MediaInv, LoadInv, AgreeInv, SettledInv, BaseInv, LiveInv,
     WalkInv, Settled, Coherent, LiveIs, Target, Gen
<1>10. CASE RestoreManifest
  BY <1>10, <1>t DEF End, Fail, Goto, NoWork, RestoreManifest, diskVars, envVars, genVars,
     memVars, PhaseInv, SnapInv, FreshInv, MediaInv, LoadInv, AgreeInv, SettledInv, BaseInv,
     LiveInv, WalkInv, Settled, Coherent, LiveIs, Target, Gen
<1>11. CASE FinishRollback
  BY <1>11, <1>t, FinishRecords
     DEF FinishRollback, Restored, Closed, SameInputs, genVars, diskVars, memVars, envVars,
        PhaseInv, SnapInv, FreshInv, MediaInv, LoadInv, AgreeInv, SettledInv, BaseInv, LiveInv,
        WalkInv, Settled, Coherent, LiveIs, Target, Gen
<1> QED
  BY <1>1, <1>2, <1>3, <1>4, <1>5, <1>6, <1>7, <1>8, <1>9, <1>10, <1>11 DEF Rollback

\* A step of the environment keeps what the predecessor had until the manifest
\* is published.
LEMMA BaseEnvironment == Typed /\ IInv /\ LoadInv /\ AgreeInv /\ Environment => BaseInv'
<1> SUFFICES ASSUME Typed, IInv, LoadInv, AgreeInv, Environment PROVE BaseInv'
  OBVIOUS
<1>t. journal \in Journals /\ snap \in Snapshots /\ pc \in Points
  BY DEF Typed
<1>1. CASE ForeignWrite
  BY <1>1, <1>t DEF ForeignWrite, diskVars, memVars, PhaseInv, SnapInv, FreshInv, MediaInv,
     LoadInv, AgreeInv, SettledInv, BaseInv, LiveInv, WalkInv, Settled, Coherent, LiveIs,
     Target, Gen
<1>2. CASE FirmwareNormalize
  BY <1>2, <1>t DEF Fault, FirmwareNormalize, diskVars, memVars, PhaseInv, SnapInv, FreshInv,
     MediaInv, LoadInv, AgreeInv, SettledInv, BaseInv, LiveInv, WalkInv, Settled, Coherent,
     LiveIs, Target, Gen
<1>3. CASE LoseStaged
  BY <1>3, <1>t DEF Fault, LoseStaged, genVars, memVars, PhaseInv, SnapInv, FreshInv, MediaInv,
     LoadInv, AgreeInv, SettledInv, BaseInv, LiveInv, WalkInv, Settled, Coherent, LiveIs,
     Target, Gen
<1>4. CASE Crash
  BY <1>4, <1>t DEF Crash, End, NoWork, genVars, PhaseInv, SnapInv, FreshInv, MediaInv, LoadInv,
     AgreeInv, SettledInv, BaseInv, LiveInv, WalkInv, Settled, Coherent, LiveIs, Target, Gen
<1>5. CASE StopAdmission
  BY <1>5, <1>t DEF Goto, StopAdmission, diskVars, envVars, genVars, PhaseInv, SnapInv,
     FreshInv, MediaInv, LoadInv, AgreeInv, SettledInv, BaseInv, LiveInv, WalkInv, Settled,
     Coherent, LiveIs, Target, Gen
<1>6. CASE EndSession
  BY <1>6, <1>t DEF End, EndSession, Fail, NoWork, diskVars, envVars, genVars, PhaseInv,
     SnapInv, FreshInv, MediaInv, LoadInv, AgreeInv, SettledInv, BaseInv, LiveInv, WalkInv,
     Settled, Coherent, LiveIs, Target, Gen
<1>7. CASE \E w \in Works : BeginSync(w)
  BY <1>7, <1>t DEF BeginSync, diskVars, genVars, PhaseInv, SnapInv, FreshInv, MediaInv,
     LoadInv, AgreeInv, SettledInv, BaseInv, LiveInv, WalkInv, Settled, Coherent, LiveIs,
     Target, Gen
<1> QED
  BY <1>1, <1>2, <1>3, <1>4, <1>5, <1>6, <1>7 DEF Environment

\* Acquiring the lease keeps what the predecessor had until the manifest is
\* published.
LEMMA BaseAcquire == Typed /\ IInv /\ LoadInv /\ AgreeInv /\ Acquire => BaseInv'
<1> SUFFICES ASSUME Typed, IInv, LoadInv, AgreeInv, Acquire PROVE BaseInv'
  OBVIOUS
<1>t. journal \in Journals /\ snap \in Snapshots /\ pc \in Points
  BY DEF Typed
<1>1. CASE Acquire
  BY <1>1, <1>t DEF Acquire, diskVars, envVars, genVars, PhaseInv, SnapInv, FreshInv, MediaInv,
     LoadInv, AgreeInv, SettledInv, BaseInv, LiveInv, WalkInv, Settled, Coherent, LiveIs,
     Target, Gen
<1> QED
  BY <1>1

-----------------------------------------------------------------------------
(* The database on the device.                                               *)

\* Recovering the journal a session finds keeps the database the predecessor or
\* the one the candidate describes.
LEMMA LiveRecovery == Typed /\ IInv /\ LoadInv /\ AgreeInv /\ Recovery => LiveInv'
<1> SUFFICES ASSUME Typed, IInv, LoadInv, AgreeInv, Recovery PROVE LiveInv'
  OBVIOUS
<1>t. journal \in Journals /\ snap \in Snapshots /\ pc \in Points
  BY DEF Typed
<1>1. CASE RecoverUndone
  BY <1>1, <1>t DEF Goto, RecoverUndone, Undone, diskVars, envVars, genVars, memVars, PhaseInv,
     SnapInv, FreshInv, MediaInv, LoadInv, AgreeInv, SettledInv, BaseInv, LiveInv, WalkInv,
     CandInv, Settled, Coherent, LiveIs, Target, Gen
<1>2. CASE RecoverStaging
  BY <1>2, <1>t DEF Goto, RecoverStaging, Unreferenced, envVars, genVars, memVars, PhaseInv,
     SnapInv, FreshInv, MediaInv, LoadInv, AgreeInv, SettledInv, BaseInv, LiveInv, WalkInv,
     CandInv, Settled, Coherent, LiveIs, Target, Gen
<1>3. CASE SaveAbandoned
  BY <1>3, <1>t DEF Abandoned, End, Fail, Goto, NoWork, SaveAbandoned, diskVars, envVars,
     genVars, memVars, PhaseInv, SnapInv, FreshInv, MediaInv, LoadInv, AgreeInv, SettledInv,
     BaseInv, LiveInv, WalkInv, CandInv, Settled, Coherent, LiveIs, Target, Gen
<1>4. CASE RemoveAbandonedDir
  BY <1>4, <1>t DEF Goto, RemoveAbandonedDir, envVars, genVars, memVars, PhaseInv, SnapInv,
     FreshInv, MediaInv, LoadInv, AgreeInv, SettledInv, BaseInv, LiveInv, WalkInv, CandInv,
     Settled, Coherent, LiveIs, Target, Gen
<1>5. CASE RecoverFirmware
  BY <1>5, <1>t DEF Goto, RecoverFirmware, Undone, diskVars, envVars, genVars, memVars,
     PhaseInv, SnapInv, FreshInv, MediaInv, LoadInv, AgreeInv, SettledInv, BaseInv, LiveInv,
     WalkInv, CandInv, Settled, Coherent, LiveIs, Target, Gen
<1>6. CASE RecoverLost
  BY <1>6, <1>t DEF End, Fail, Goto, Lost, NoWork, RecoverLost, diskVars, envVars, genVars,
     memVars, PhaseInv, SnapInv, FreshInv, MediaInv, LoadInv, AgreeInv, SettledInv, BaseInv,
     LiveInv, WalkInv, CandInv, Settled, Coherent, LiveIs, Target, Gen
<1>7. CASE RecoverPublish
  BY <1>7, <1>t DEF Goto, Lost, RecoverPublish, Undone, diskVars, envVars, genVars, memVars,
     PhaseInv, SnapInv, FreshInv, MediaInv, LoadInv, AgreeInv, SettledInv, BaseInv, LiveInv,
     WalkInv, CandInv, Settled, Coherent, LiveIs, Target, Gen
<1> QED
  BY <1>1, <1>2, <1>3, <1>4, <1>5, <1>6, <1>7 DEF Recovery

\* Staging and saving albums keeps the database the predecessor or the one the
\* candidate describes.
LEMMA LiveStaged == Typed /\ IInv /\ LoadInv /\ AgreeInv /\ Staged => LiveInv'
<1> SUFFICES ASSUME Typed, IInv, LoadInv, AgreeInv, Staged PROVE LiveInv'
  OBVIOUS
<1>t. journal \in Journals /\ snap \in Snapshots /\ pc \in Points
  BY DEF Typed
<1>1. CASE \E f \in Tracks : StageFile(f)
  BY <1>1, <1>t DEF Goto, StageFile, envVars, genVars, memVars, PhaseInv, SnapInv, FreshInv,
     MediaInv, LoadInv, AgreeInv, SettledInv, BaseInv, LiveInv, WalkInv, CandInv, Settled,
     Coherent, LiveIs, Target, Gen
<1>2. CASE SaveAlbum
  BY <1>2, <1>t DEF Goto, NewJournal, NoJournal, SaveAlbum, diskVars, envVars, genVars, memVars,
     PhaseInv, SnapInv, FreshInv, MediaInv, LoadInv, AgreeInv, SettledInv, BaseInv, LiveInv,
     WalkInv, CandInv, Settled, Coherent, LiveIs, Target, Gen
<1>3. CASE FinishStaging
  BY <1>3, <1>t DEF FinishStaging, Goto, diskVars, envVars, genVars, memVars, PhaseInv, SnapInv,
     FreshInv, MediaInv, LoadInv, AgreeInv, SettledInv, BaseInv, LiveInv, WalkInv, CandInv,
     Settled, Coherent, LiveIs, Target, Gen
<1> QED
  BY <1>1, <1>2, <1>3 DEF Staged

\* Publication up to the verified database keeps the database the predecessor or
\* the one the candidate describes.
LEMMA LivePublish == Typed /\ IInv /\ LoadInv /\ AgreeInv /\ Publish => LiveInv'
<1> SUFFICES ASSUME Typed, IInv, LoadInv, AgreeInv, Publish PROVE LiveInv'
  OBVIOUS
<1>t. journal \in Journals /\ snap \in Snapshots /\ pc \in Points
  BY DEF Typed
<1>1. CASE PublishFence
  BY <1>1, <1>t DEF End, Fail, Fence, Goto, NoWork, PublishFence, diskVars, envVars, genVars,
     memVars, PhaseInv, SnapInv, FreshInv, MediaInv, LoadInv, AgreeInv, SettledInv, BaseInv,
     LiveInv, WalkInv, CandInv, Settled, Coherent, LiveIs, Target, Gen
<1>2. CASE Prepare
  BY <1>2, <1>t, PrepareIs, PrepareFirst
     DEF Prepare, KnownLive, Fail, End, SameInputs, genVars, diskVars, memVars, envVars, PhaseInv,
        SnapInv, FreshInv, MediaInv, LoadInv, AgreeInv, SettledInv, BaseInv, LiveInv, WalkInv,
        CandInv, Settled, Coherent, LiveIs, Target, Gen
<1>3. CASE PrepareArtwork
  BY <1>3, <1>t DEF End, Fault, Goto, NoWork, PrepareArtwork, diskVars, envVars, genVars,
     memVars, PhaseInv, SnapInv, FreshInv, MediaInv, LoadInv, AgreeInv, SettledInv, BaseInv,
     LiveInv, WalkInv, CandInv, Settled, Coherent, LiveIs, Target, Gen
<1>4. CASE EnsurePreimage
  BY <1>4, <1>t DEF End, EnsurePreimage, Fail, Goto, NoWork, diskVars, envVars, genVars,
     memVars, PhaseInv, SnapInv, FreshInv, MediaInv, LoadInv, AgreeInv, SettledInv, BaseInv,
     LiveInv, WalkInv, CandInv, Settled, Coherent, LiveIs, Target, Gen
<1>5. CASE EnsureSnapshot
  BY <1>5, <1>t DEF End, EnsureSnapshot, Fail, Goto, NoWork, diskVars, envVars, genVars,
     memVars, PhaseInv, SnapInv, FreshInv, MediaInv, LoadInv, AgreeInv, SettledInv, BaseInv,
     LiveInv, WalkInv, CandInv, Settled, Coherent, LiveIs, Target, Gen
<1>6. CASE FillSnapshot
  BY <1>6, <1>t DEF FillSnapshot, Goto, envVars, genVars, memVars, PhaseInv, SnapInv, FreshInv,
     MediaInv, LoadInv, AgreeInv, SettledInv, BaseInv, LiveInv, WalkInv, CandInv, Settled,
     Coherent, LiveIs, Target, Gen
<1>7. CASE Dispatch
  BY <1>7, <1>t DEF Dispatch, Goto, diskVars, envVars, genVars, memVars, PhaseInv, SnapInv,
     FreshInv, MediaInv, LoadInv, AgreeInv, SettledInv, BaseInv, LiveInv, WalkInv, CandInv,
     Settled, Coherent, LiveIs, Target, Gen
<1>8. CASE ResumeCandidate
  BY <1>8, <1>t, ResumeIs, ResumeRecords
     DEF ResumeCandidate, SameInputs, genVars, diskVars, memVars, envVars, PhaseInv, SnapInv,
        FreshInv, MediaInv, LoadInv, AgreeInv, SettledInv, BaseInv, LiveInv, WalkInv, CandInv,
        Settled, Coherent, LiveIs, Target, Gen
<1>9. CASE OpenDatabase
  BY <1>9, <1>t DEF Goto, OpenDatabase, diskVars, envVars, genVars, PhaseInv, SnapInv, FreshInv,
     MediaInv, LoadInv, AgreeInv, SettledInv, BaseInv, LiveInv, WalkInv, CandInv, Settled,
     Coherent, LiveIs, Target, Gen
<1>10. CASE \E f \in Tracks : ReserveFinal(f)
  BY <1>10, <1>t DEF Goto, ReserveFinal, diskVars, envVars, genVars, PhaseInv, SnapInv,
     FreshInv, MediaInv, LoadInv, AgreeInv, SettledInv, BaseInv, LiveInv, WalkInv, CandInv,
     Settled, Coherent, LiveIs, Target, Gen
<1>11. CASE MoveStaged
  BY <1>11, <1>t DEF Goto, MoveStaged, envVars, genVars, memVars, PhaseInv, SnapInv, FreshInv,
     MediaInv, LoadInv, AgreeInv, SettledInv, BaseInv, LiveInv, WalkInv, CandInv, Settled,
     Coherent, LiveIs, Target, Gen
<1>12. CASE RecordAdded
  BY <1>12, <1>t DEF Goto, RecordAdded, diskVars, envVars, genVars, PhaseInv, SnapInv, FreshInv,
     MediaInv, LoadInv, AgreeInv, SettledInv, BaseInv, LiveInv, WalkInv, CandInv, Settled,
     Coherent, LiveIs, Target, Gen
<1>13. CASE UpdateMetadata
  BY <1>13, <1>t DEF Goto, UpdateMetadata, diskVars, envVars, genVars, PhaseInv, SnapInv,
     FreshInv, MediaInv, LoadInv, AgreeInv, SettledInv, BaseInv, LiveInv, WalkInv, CandInv,
     Settled, Coherent, LiveIs, Target, Gen
<1>14. CASE ReconcileCandidate
  BY <1>14, <1>t, ReconcileIs
     DEF ReconcileCandidate, SameRecords, genVars, diskVars, memVars, envVars, PhaseInv, SnapInv,
        FreshInv, MediaInv, LoadInv, AgreeInv, SettledInv, BaseInv, LiveInv, WalkInv, CandInv,
        Settled, Coherent, LiveIs, Target, Gen
<1>15. CASE DatabaseFence
  BY <1>15, <1>t DEF DatabaseFence, End, Fail, Fence, Goto, NoWork, diskVars, envVars, genVars,
     memVars, PhaseInv, SnapInv, FreshInv, MediaInv, LoadInv, AgreeInv, SettledInv, BaseInv,
     LiveInv, WalkInv, CandInv, Settled, Coherent, LiveIs, Target, Gen
<1>16. CASE ClearArtwork
  BY <1>16, <1>t DEF ClearArtwork, Goto, diskVars, envVars, memVars, PhaseInv, SnapInv,
     FreshInv, MediaInv, LoadInv, AgreeInv, SettledInv, BaseInv, LiveInv, WalkInv, CandInv,
     Settled, Coherent, LiveIs, Target, Gen
<1>17. CASE WriteArtwork
  BY <1>17, <1>t DEF Fault, Goto, RecordPublished, WriteArtwork, WriteFault, diskVars, envVars,
     genVars, memVars, PhaseInv, SnapInv, FreshInv, MediaInv, LoadInv, AgreeInv, SettledInv,
     BaseInv, LiveInv, WalkInv, CandInv, Settled, Coherent, LiveIs, Target, Gen
<1>18. CASE WriteDatabase
  BY <1>18, <1>t DEF Fault, Goto, RecordPublished, WriteDatabase, WriteFault, diskVars, envVars,
     genVars, memVars, PhaseInv, SnapInv, FreshInv, MediaInv, LoadInv, AgreeInv, SettledInv,
     BaseInv, LiveInv, WalkInv, CandInv, Settled, Coherent, LiveIs, Target, Gen
<1>19. CASE RecordWritten
  BY <1>19, <1>t DEF Goto, RecordPublished, RecordWritten, diskVars, envVars, genVars, memVars,
     PhaseInv, SnapInv, FreshInv, MediaInv, LoadInv, AgreeInv, SettledInv, BaseInv, LiveInv,
     WalkInv, CandInv, Settled, Coherent, LiveIs, Target, Gen
<1>20. CASE VerifyWritten
  BY <1>20, <1>t, VerifyIs, VerifyRecords
     DEF VerifyWritten, SameInputs, genVars, diskVars, memVars, envVars, PhaseInv, SnapInv,
        FreshInv, MediaInv, LoadInv, AgreeInv, SettledInv, BaseInv, LiveInv, WalkInv, CandInv,
        Settled, Coherent, LiveIs, Target, Gen
<1> QED
  BY <1>1, <1>2, <1>3, <1>4, <1>5, <1>6, <1>7, <1>8, <1>9, <1>10, <1>11, <1>12, <1>13, <1>14,
     <1>15, <1>16, <1>17, <1>18, <1>19, <1>20 DEF Publish

\* Publication after the verified database keeps the database the predecessor or
\* the one the candidate describes.
LEMMA LiveFinalize == Typed /\ IInv /\ LoadInv /\ AgreeInv /\ Finalize => LiveInv'
<1> SUFFICES ASSUME Typed, IInv, LoadInv, AgreeInv, Finalize PROVE LiveInv'
  OBVIOUS
<1>t. journal \in Journals /\ snap \in Snapshots /\ pc \in Points
  BY DEF Typed
<1>1. CASE CheckVerified
  BY <1>1, <1>t DEF CheckVerified, Fault, Goto, Mismatch, diskVars, envVars, genVars, memVars,
     PhaseInv, SnapInv, FreshInv, MediaInv, LoadInv, AgreeInv, SettledInv, BaseInv, LiveInv,
     WalkInv, CandInv, Settled, Coherent, LiveIs, Target, Gen
<1>2. CASE ManifestFence
  BY <1>2, <1>t DEF End, Fail, Fence, Goto, ManifestFence, NoWork, diskVars, envVars, genVars,
     memVars, PhaseInv, SnapInv, FreshInv, MediaInv, LoadInv, AgreeInv, SettledInv, BaseInv,
     LiveInv, WalkInv, CandInv, Settled, Coherent, LiveIs, Target, Gen
<1>3. CASE WriteManifest
  BY <1>3, <1>t DEF Fault, Goto, WriteManifest, diskVars, envVars, genVars, memVars, PhaseInv,
     SnapInv, FreshInv, MediaInv, LoadInv, AgreeInv, SettledInv, BaseInv, LiveInv, WalkInv,
     CandInv, Settled, Coherent, LiveIs, Target, Gen
<1>4. CASE RecordManifest
  <2>1. /\ journal'.phase = DeviceManifestPublished /\ SameInputs(journal, journal')
        /\ journal'.before = journal.before /\ journal'.verified = {Gen} /\ journal'.published = {}
    BY <1>4, <1>t, ManifestIs DEF RecordManifest
  <2> QED
    BY <1>4, <1>t, <2>1
       DEF RecordManifest, Goto, SameInputs, genVars, diskVars, memVars, envVars, PhaseInv, SnapInv,
          FreshInv, MediaInv, LoadInv, AgreeInv, SettledInv, BaseInv, LiveInv, WalkInv, CandInv,
          Settled, Coherent, LiveIs, Target, Gen
<1>5. CASE Reverify
  BY <1>5, <1>t, ResumedIs
     DEF Reverify, StillHeld, Mismatch, Fault, Goto, genVars, diskVars, memVars, envVars, PhaseInv,
        SnapInv, FreshInv, MediaInv, LoadInv, AgreeInv, SettledInv, BaseInv, LiveInv, WalkInv,
        CandInv, Settled, Coherent, LiveIs, Target, Gen
<1>6. CASE PlanFence
  BY <1>6, <1>t DEF End, Fail, Fence, Goto, NoWork, PlanFence, diskVars, envVars, genVars,
     memVars, PhaseInv, SnapInv, FreshInv, MediaInv, LoadInv, AgreeInv, SettledInv, BaseInv,
     LiveInv, WalkInv, CandInv, Settled, Coherent, LiveIs, Target, Gen
<1>7. CASE PlanProjections
  BY <1>7, <1>t, PlanIs
     DEF PlanProjections, Goto, Fail, End, SameInputs, genVars, diskVars, memVars, envVars,
        PhaseInv, SnapInv, FreshInv, MediaInv, LoadInv, AgreeInv, SettledInv, BaseInv, LiveInv,
        WalkInv, CandInv, Settled, Coherent, LiveIs, Target, Gen
<1>8. CASE OwnershipFence
  BY <1>8, <1>t DEF End, Fail, Fence, Goto, NoWork, OwnershipFence, diskVars, envVars, genVars,
     memVars, PhaseInv, SnapInv, FreshInv, MediaInv, LoadInv, AgreeInv, SettledInv, BaseInv,
     LiveInv, WalkInv, CandInv, Settled, Coherent, LiveIs, Target, Gen
<1>9. CASE WriteOwnership
  <2>1. CASE Interrupted
    <3>1. /\ journal'.phase = journal.phase /\ SameInputs(journal, journal')
        /\ journal'.before = journal.before /\ journal'.verified = journal.verified
        /\ journal'.published = {Gen}
      BY <2>1, <1>t, PublishedIs DEF Interrupted
    <3> QED
      BY <1>9, <1>t, <2>1, <3>1
         DEF WriteOwnership, Interrupted, End, SameInputs, genVars, diskVars, memVars, envVars,
            PhaseInv, SnapInv, FreshInv, MediaInv, LoadInv, AgreeInv, SettledInv, BaseInv, LiveInv,
            WalkInv, CandInv, Settled, Coherent, LiveIs, Target, Gen
  <2>2. CASE ~ Interrupted
    BY <1>9, <2>2, <1>t
       DEF WriteOwnership, Goto, genVars, diskVars, memVars, envVars, PhaseInv, SnapInv, FreshInv,
          MediaInv, LoadInv, AgreeInv, SettledInv, BaseInv, LiveInv, WalkInv, CandInv, Settled,
          Coherent, LiveIs, Target, Gen
  <2> QED
    BY <2>1, <2>2
<1>10. CASE PhaseOwnership
  <2>1. /\ journal'.phase = PlaylistOwnershipPublished /\ SameInputs(journal, journal')
        /\ journal'.before = journal.before /\ journal'.verified = journal.verified
        /\ journal'.published = journal.published
    BY <1>10, <1>t, PhaseIs DEF PhaseOwnership, SameRecords
  <2> QED
    BY <1>10, <1>t, <2>1
       DEF PhaseOwnership, Goto, SameInputs, genVars, diskVars, memVars, envVars, PhaseInv, SnapInv,
          FreshInv, MediaInv, LoadInv, AgreeInv, SettledInv, BaseInv, LiveInv, WalkInv, CandInv,
          Settled, Coherent, LiveIs, Target, Gen
<1>11. CASE RecordOwnership
  <2>1. /\ journal'.phase = journal.phase /\ SameInputs(journal, journal')
        /\ journal'.before = journal.before /\ journal'.verified = {Gen} /\ journal'.published = {}
    BY <1>11, <1>t, RecordIs DEF RecordOwnership
  <2> QED
    BY <1>11, <1>t, <2>1
       DEF RecordOwnership, Goto, SameInputs, genVars, diskVars, memVars, envVars, PhaseInv,
          SnapInv, FreshInv, MediaInv, LoadInv, AgreeInv, SettledInv, BaseInv, LiveInv, WalkInv,
          CandInv, Settled, Coherent, LiveIs, Target, Gen
<1>12. CASE ProjectionFence
  BY <1>12, <1>t DEF End, Fail, Fence, Goto, NoWork, ProjectionFence, diskVars, envVars,
     genVars, memVars, PhaseInv, SnapInv, FreshInv, MediaInv, LoadInv, AgreeInv, SettledInv,
     BaseInv, LiveInv, WalkInv, CandInv, Settled, Coherent, LiveIs, Target, Gen
<1>13. CASE WriteProjection
  <2>1. CASE Interrupted
    <3>1. /\ journal'.phase = journal.phase /\ SameInputs(journal, journal')
        /\ journal'.before = journal.before /\ journal'.verified = journal.verified
        /\ journal'.published = {Gen}
      BY <2>1, <1>t, PublishedIs DEF Interrupted
    <3> QED
      BY <1>13, <1>t, <2>1, <3>1
         DEF WriteProjection, Interrupted, End, SameInputs, genVars, diskVars, memVars, envVars,
            PhaseInv, SnapInv, FreshInv, MediaInv, LoadInv, AgreeInv, SettledInv, BaseInv, LiveInv,
            WalkInv, CandInv, Settled, Coherent, LiveIs, Target, Gen
  <2>2. CASE ~ Interrupted
    BY <1>13, <2>2, <1>t
       DEF WriteProjection, Goto, genVars, diskVars, memVars, envVars, PhaseInv, SnapInv, FreshInv,
          MediaInv, LoadInv, AgreeInv, SettledInv, BaseInv, LiveInv, WalkInv, CandInv, Settled,
          Coherent, LiveIs, Target, Gen
  <2> QED
    BY <2>1, <2>2
<1>14. CASE RemovePrevious
  <2>1. CASE Interrupted
    <3>1. /\ journal'.phase = journal.phase /\ SameInputs(journal, journal')
        /\ journal'.before = journal.before /\ journal'.verified = journal.verified
        /\ journal'.published = {Gen}
      BY <2>1, <1>t, PublishedIs DEF Interrupted
    <3> QED
      BY <1>14, <1>t, <2>1, <3>1
         DEF RemovePrevious, Interrupted, End, SameInputs, genVars, diskVars, memVars, envVars,
            PhaseInv, SnapInv, FreshInv, MediaInv, LoadInv, AgreeInv, SettledInv, BaseInv, LiveInv,
            WalkInv, CandInv, Settled, Coherent, LiveIs, Target, Gen
  <2>2. CASE ~ Interrupted
    BY <1>14, <2>2, <1>t
       DEF RemovePrevious, Goto, genVars, diskVars, memVars, envVars, PhaseInv, SnapInv, FreshInv,
          MediaInv, LoadInv, AgreeInv, SettledInv, BaseInv, LiveInv, WalkInv, CandInv, Settled,
          Coherent, LiveIs, Target, Gen
  <2> QED
    BY <2>1, <2>2
<1>15. CASE PhaseProjection
  <2>1. /\ journal'.phase = RockboxProjectionsPublished /\ SameInputs(journal, journal')
        /\ journal'.before = journal.before /\ journal'.verified = journal.verified
        /\ journal'.published = journal.published
    BY <1>15, <1>t, PhaseIs DEF PhaseProjection, SameRecords
  <2> QED
    BY <1>15, <1>t, <2>1
       DEF PhaseProjection, Goto, SameInputs, genVars, diskVars, memVars, envVars, PhaseInv,
          SnapInv, FreshInv, MediaInv, LoadInv, AgreeInv, SettledInv, BaseInv, LiveInv, WalkInv,
          CandInv, Settled, Coherent, LiveIs, Target, Gen
<1>16. CASE RecordProjection
  <2>1. /\ journal'.phase = journal.phase /\ SameInputs(journal, journal')
        /\ journal'.before = journal.before /\ journal'.verified = {Gen} /\ journal'.published = {}
    BY <1>16, <1>t, RecordIs DEF RecordProjection
  <2> QED
    BY <1>16, <1>t, <2>1
       DEF RecordProjection, Goto, SameInputs, genVars, diskVars, memVars, envVars, PhaseInv,
          SnapInv, FreshInv, MediaInv, LoadInv, AgreeInv, SettledInv, BaseInv, LiveInv, WalkInv,
          CandInv, Settled, Coherent, LiveIs, Target, Gen
<1>17. CASE AuthorityFence
  BY <1>17, <1>t DEF AuthorityFence, End, Fail, Fence, Goto, NoWork, diskVars, envVars, genVars,
     memVars, PhaseInv, SnapInv, FreshInv, MediaInv, LoadInv, AgreeInv, SettledInv, BaseInv,
     LiveInv, WalkInv, CandInv, Settled, Coherent, LiveIs, Target, Gen
<1>18. CASE WriteAuthority
  BY <1>18, <1>t DEF Goto, WriteAuthority, diskVars, envVars, memVars, PhaseInv, SnapInv,
     FreshInv, MediaInv, LoadInv, AgreeInv, SettledInv, BaseInv, LiveInv, WalkInv, CandInv,
     Settled, Coherent, LiveIs, Target, Gen
<1>19. CASE RecordAuthority
  <2>1. /\ journal'.phase = journal.phase /\ SameInputs(journal, journal')
        /\ journal'.before = journal.before /\ journal'.verified = {Gen} /\ journal'.published = {}
    BY <1>19, <1>t, RecordIs DEF RecordAuthority
  <2> QED
    BY <1>19, <1>t, <2>1
       DEF RecordAuthority, Goto, SameInputs, genVars, diskVars, memVars, envVars, PhaseInv,
          SnapInv, FreshInv, MediaInv, LoadInv, AgreeInv, SettledInv, BaseInv, LiveInv, WalkInv,
          CandInv, Settled, Coherent, LiveIs, Target, Gen
<1> QED
  BY <1>1, <1>2, <1>3, <1>4, <1>5, <1>6, <1>7, <1>8, <1>9, <1>10, <1>11, <1>12, <1>13, <1>14,
     <1>15, <1>16, <1>17, <1>18, <1>19 DEF Finalize

\* Removing what a closed journal leaves keeps the database the predecessor or
\* the one the candidate describes.
LEMMA LiveCleanup == Typed /\ IInv /\ LoadInv /\ AgreeInv /\ Cleanup => LiveInv'
<1> SUFFICES ASSUME Typed, IInv, LoadInv, AgreeInv, Cleanup PROVE LiveInv'
  OBVIOUS
<1>t. journal \in Journals /\ snap \in Snapshots /\ pc \in Points
  BY DEF Typed
<1>1. CASE CleanStaged
  BY <1>1, <1>t DEF CleanStaged, Goto, Unreferenced, envVars, genVars, memVars, PhaseInv,
     SnapInv, FreshInv, MediaInv, LoadInv, AgreeInv, SettledInv, BaseInv, LiveInv, WalkInv,
     CandInv, Settled, Coherent, LiveIs, Target, Gen
<1>2. CASE RemoveObsolete
  BY <1>2, <1>t DEF Goto, RemoveObsolete, Unreferenced, envVars, genVars, memVars, PhaseInv,
     SnapInv, FreshInv, MediaInv, LoadInv, AgreeInv, SettledInv, BaseInv, LiveInv, WalkInv,
     CandInv, Settled, Coherent, LiveIs, Target, Gen
<1>3. CASE SaveCleanup
  <2>1. /\ journal'.phase = CleanupComplete /\ SameInputs(journal, journal')
        /\ journal'.before = journal.before /\ journal'.verified = journal.verified
        /\ journal'.published = journal.published
    BY <1>3, <1>t, PhaseIs DEF SaveCleanup, SameRecords
  <2> QED
    BY <1>3, <1>t, <2>1
       DEF SaveCleanup, Goto, SameInputs, genVars, diskVars, memVars, envVars, PhaseInv, SnapInv,
          FreshInv, MediaInv, LoadInv, AgreeInv, SettledInv, BaseInv, LiveInv, WalkInv, CandInv,
          Settled, Coherent, LiveIs, Target, Gen
<1>4. CASE RemoveStagedDir
  BY <1>4, <1>t DEF End, Fail, Goto, NoWork, RemoveStagedDir, diskVars, envVars, genVars,
     memVars, PhaseInv, SnapInv, FreshInv, MediaInv, LoadInv, AgreeInv, SettledInv, BaseInv,
     LiveInv, WalkInv, CandInv, Settled, Coherent, LiveIs, Target, Gen
<1>5. CASE RemoveSnapshot
  BY <1>5, <1>t DEF End, Fail, Goto, NoWork, RemoveSnapshot, diskVars, envVars, genVars,
     memVars, PhaseInv, SnapInv, FreshInv, MediaInv, LoadInv, AgreeInv, SettledInv, BaseInv,
     LiveInv, WalkInv, CandInv, Settled, Coherent, LiveIs, Target, Gen
<1>6. CASE EmptySnapshot
  BY <1>6, <1>t DEF EmptySnapshot, Goto, envVars, genVars, memVars, PhaseInv, SnapInv, FreshInv,
     MediaInv, LoadInv, AgreeInv, SettledInv, BaseInv, LiveInv, WalkInv, CandInv, Settled,
     Coherent, LiveIs, Target, Gen
<1>7. CASE RemoveJournal
  BY <1>7, <1>t DEF Goto, NoJournal, NoWork, RemoveJournal, diskVars, envVars, genVars,
     PhaseInv, SnapInv, FreshInv, MediaInv, LoadInv, AgreeInv, SettledInv, BaseInv, LiveInv,
     WalkInv, CandInv, Settled, Coherent, LiveIs, Target, Gen
<1> QED
  BY <1>1, <1>2, <1>3, <1>4, <1>5, <1>6, <1>7 DEF Cleanup

\* Restoring the snapshot keeps the database the predecessor or the one the
\* candidate describes.
LEMMA LiveRollback == Typed /\ IInv /\ LoadInv /\ AgreeInv /\ Rollback => LiveInv'
<1> SUFFICES ASSUME Typed, IInv, LoadInv, AgreeInv, Rollback PROVE LiveInv'
  OBVIOUS
<1>t. journal \in Journals /\ snap \in Snapshots /\ pc \in Points
  BY DEF Typed
<1>1. CASE KnownRollback
  BY <1>1, <1>t DEF End, Fail, Goto, KnownRollback, NoWork, diskVars, envVars, genVars, memVars,
     PhaseInv, SnapInv, FreshInv, MediaInv, LoadInv, AgreeInv, SettledInv, BaseInv, LiveInv,
     WalkInv, CandInv, Settled, Coherent, LiveIs, Target, Gen
<1>2. CASE RestoreClear
  BY <1>2, <1>t DEF End, Fail, Goto, NoWork, RestoreClear, diskVars, envVars, genVars, memVars,
     PhaseInv, SnapInv, FreshInv, MediaInv, LoadInv, AgreeInv, SettledInv, BaseInv, LiveInv,
     WalkInv, CandInv, Settled, Coherent, LiveIs, Target, Gen
<1>3. CASE RestoreArtwork
  BY <1>3, <1>t DEF Goto, RestoreArtwork, diskVars, envVars, memVars, PhaseInv, SnapInv,
     FreshInv, MediaInv, LoadInv, AgreeInv, SettledInv, BaseInv, LiveInv, WalkInv, CandInv,
     Settled, Coherent, LiveIs, Target, Gen
<1>4. CASE RestoreDatabase
  BY <1>4, <1>t DEF Goto, RestoreDatabase, diskVars, envVars, memVars, PhaseInv, SnapInv,
     FreshInv, MediaInv, LoadInv, AgreeInv, SettledInv, BaseInv, LiveInv, WalkInv, CandInv,
     Settled, Coherent, LiveIs, Target, Gen
<1>5. CASE \E f \in Tracks : RestoreStaged(f)
  BY <1>5, <1>t DEF Goto, Moved, Preserving, RestoreStaged, Unreferenced, envVars, genVars,
     memVars, PhaseInv, SnapInv, FreshInv, MediaInv, LoadInv, AgreeInv, SettledInv, BaseInv,
     LiveInv, WalkInv, CandInv, Settled, Coherent, LiveIs, Target, Gen
<1>6. CASE ResumeRestored
  BY <1>6, <1>t DEF Goto, Moved, Reset, ResumeRestored, Unreferenced, diskVars, envVars,
     genVars, memVars, PhaseInv, SnapInv, FreshInv, MediaInv, LoadInv, AgreeInv, SettledInv,
     BaseInv, LiveInv, WalkInv, CandInv, Settled, Coherent, LiveIs, Target, Gen
<1>7. CASE UndoneRollback
  BY <1>7, <1>t DEF Goto, Moved, Reset, UndoneRollback, Unreferenced, diskVars, envVars,
     genVars, memVars, PhaseInv, SnapInv, FreshInv, MediaInv, LoadInv, AgreeInv, SettledInv,
     BaseInv, LiveInv, WalkInv, CandInv, Settled, Coherent, LiveIs, Target, Gen
<1>8. CASE MovedBack
  BY <1>8, <1>t DEF Goto, Moved, MovedBack, Unreferenced, diskVars, envVars, genVars, memVars,
     PhaseInv, SnapInv, FreshInv, MediaInv, LoadInv, AgreeInv, SettledInv, BaseInv, LiveInv,
     WalkInv, CandInv, Settled, Coherent, LiveIs, Target, Gen
<1>9. CASE DropStaged
  BY <1>9, <1>t DEF DropStaged, Goto, Preserving, Unreferenced, envVars, genVars, memVars,
     PhaseInv, SnapInv, FreshInv, MediaInv, LoadInv, AgreeInv, SettledInv, BaseInv, LiveInv,
     WalkInv, CandInv, Settled, Coherent, LiveIs, Target, Gen
<1>10. CASE RestoreManifest
  BY <1>10, <1>t DEF End, Fail, Goto, NoWork, RestoreManifest, diskVars, envVars, genVars,
     memVars, PhaseInv, SnapInv, FreshInv, MediaInv, LoadInv, AgreeInv, SettledInv, BaseInv,
     LiveInv, WalkInv, CandInv, Settled, Coherent, LiveIs, Target, Gen
<1>11. CASE FinishRollback
  BY <1>11, <1>t, FinishRecords
     DEF FinishRollback, Restored, Closed, SameInputs, genVars, diskVars, memVars, envVars,
        PhaseInv, SnapInv, FreshInv, MediaInv, LoadInv, AgreeInv, SettledInv, BaseInv, LiveInv,
        WalkInv, CandInv, Settled, Coherent, LiveIs, Target, Gen
<1> QED
  BY <1>1, <1>2, <1>3, <1>4, <1>5, <1>6, <1>7, <1>8, <1>9, <1>10, <1>11 DEF Rollback

\* A step of the environment keeps the database the predecessor or the one the
\* candidate describes.
LEMMA LiveEnvironment == Typed /\ IInv /\ LoadInv /\ AgreeInv /\ Environment => LiveInv'
<1> SUFFICES ASSUME Typed, IInv, LoadInv, AgreeInv, Environment PROVE LiveInv'
  OBVIOUS
<1>t. journal \in Journals /\ snap \in Snapshots /\ pc \in Points
  BY DEF Typed
<1>1. CASE ForeignWrite
  BY <1>1, <1>t DEF ForeignWrite, diskVars, memVars, PhaseInv, SnapInv, FreshInv, MediaInv,
     LoadInv, AgreeInv, SettledInv, BaseInv, LiveInv, WalkInv, CandInv, Settled, Coherent,
     LiveIs, Target, Gen
<1>2. CASE FirmwareNormalize
  BY <1>2, <1>t DEF Fault, FirmwareNormalize, diskVars, memVars, PhaseInv, SnapInv, FreshInv,
     MediaInv, LoadInv, AgreeInv, SettledInv, BaseInv, LiveInv, WalkInv, CandInv, Settled,
     Coherent, LiveIs, Target, Gen
<1>3. CASE LoseStaged
  BY <1>3, <1>t DEF Fault, LoseStaged, genVars, memVars, PhaseInv, SnapInv, FreshInv, MediaInv,
     LoadInv, AgreeInv, SettledInv, BaseInv, LiveInv, WalkInv, CandInv, Settled, Coherent,
     LiveIs, Target, Gen
<1>4. CASE Crash
  BY <1>4, <1>t DEF Crash, End, NoWork, genVars, PhaseInv, SnapInv, FreshInv, MediaInv, LoadInv,
     AgreeInv, SettledInv, BaseInv, LiveInv, WalkInv, CandInv, Settled, Coherent, LiveIs,
     Target, Gen
<1>5. CASE StopAdmission
  BY <1>5, <1>t DEF Goto, StopAdmission, diskVars, envVars, genVars, PhaseInv, SnapInv,
     FreshInv, MediaInv, LoadInv, AgreeInv, SettledInv, BaseInv, LiveInv, WalkInv, CandInv,
     Settled, Coherent, LiveIs, Target, Gen
<1>6. CASE EndSession
  BY <1>6, <1>t DEF End, EndSession, Fail, NoWork, diskVars, envVars, genVars, PhaseInv,
     SnapInv, FreshInv, MediaInv, LoadInv, AgreeInv, SettledInv, BaseInv, LiveInv, WalkInv,
     CandInv, Settled, Coherent, LiveIs, Target, Gen
<1>7. CASE \E w \in Works : BeginSync(w)
  BY <1>7, <1>t DEF BeginSync, diskVars, genVars, PhaseInv, SnapInv, FreshInv, MediaInv,
     LoadInv, AgreeInv, SettledInv, BaseInv, LiveInv, WalkInv, CandInv, Settled, Coherent,
     LiveIs, Target, Gen
<1> QED
  BY <1>1, <1>2, <1>3, <1>4, <1>5, <1>6, <1>7 DEF Environment

\* Acquiring the lease keeps the database the predecessor or the one the
\* candidate describes.
LEMMA LiveAcquire == Typed /\ IInv /\ LoadInv /\ AgreeInv /\ Acquire => LiveInv'
<1> SUFFICES ASSUME Typed, IInv, LoadInv, AgreeInv, Acquire PROVE LiveInv'
  OBVIOUS
<1>t. journal \in Journals /\ snap \in Snapshots /\ pc \in Points
  BY DEF Typed
<1>1. CASE Acquire
  BY <1>1, <1>t DEF Acquire, diskVars, envVars, genVars, PhaseInv, SnapInv, FreshInv, MediaInv,
     LoadInv, AgreeInv, SettledInv, BaseInv, LiveInv, WalkInv, CandInv, Settled, Coherent,
     LiveIs, Target, Gen
<1> QED
  BY <1>1

-----------------------------------------------------------------------------
(* The candidate database in memory.                                         *)

\* Recovering the journal a session finds keeps the candidate database the
\* target.
LEMMA WalkRecovery == Typed /\ IInv /\ LoadInv /\ AgreeInv /\ Recovery => WalkInv'
<1> SUFFICES ASSUME Typed, IInv, LoadInv, AgreeInv, Recovery PROVE WalkInv'
  OBVIOUS
<1>t. journal \in Journals /\ snap \in Snapshots /\ pc \in Points
  BY DEF Typed
<1>1. CASE RecoverUndone
  BY <1>1, <1>t DEF Goto, RecoverUndone, Undone, diskVars, envVars, genVars, memVars, PhaseInv,
     SnapInv, FreshInv, MediaInv, LoadInv, AgreeInv, BaseInv, LiveInv, WalkInv, CandInv,
     Settled, Coherent, LiveIs, Target, Gen
<1>2. CASE RecoverStaging
  BY <1>2, <1>t DEF Goto, RecoverStaging, Unreferenced, envVars, genVars, memVars, PhaseInv,
     SnapInv, FreshInv, MediaInv, LoadInv, AgreeInv, BaseInv, LiveInv, WalkInv, CandInv,
     Settled, Coherent, LiveIs, Target, Gen
<1>3. CASE SaveAbandoned
  BY <1>3, <1>t DEF Abandoned, End, Fail, Goto, NoWork, SaveAbandoned, diskVars, envVars,
     genVars, memVars, PhaseInv, SnapInv, FreshInv, MediaInv, LoadInv, AgreeInv, BaseInv,
     LiveInv, WalkInv, CandInv, Settled, Coherent, LiveIs, Target, Gen
<1>4. CASE RemoveAbandonedDir
  BY <1>4, <1>t DEF Goto, RemoveAbandonedDir, envVars, genVars, memVars, PhaseInv, SnapInv,
     FreshInv, MediaInv, LoadInv, AgreeInv, BaseInv, LiveInv, WalkInv, CandInv, Settled,
     Coherent, LiveIs, Target, Gen
<1>5. CASE RecoverFirmware
  BY <1>5, <1>t DEF Goto, RecoverFirmware, Undone, diskVars, envVars, genVars, memVars,
     PhaseInv, SnapInv, FreshInv, MediaInv, LoadInv, AgreeInv, BaseInv, LiveInv, WalkInv,
     CandInv, Settled, Coherent, LiveIs, Target, Gen
<1>6. CASE RecoverLost
  BY <1>6, <1>t DEF End, Fail, Goto, Lost, NoWork, RecoverLost, diskVars, envVars, genVars,
     memVars, PhaseInv, SnapInv, FreshInv, MediaInv, LoadInv, AgreeInv, BaseInv, LiveInv,
     WalkInv, CandInv, Settled, Coherent, LiveIs, Target, Gen
<1>7. CASE RecoverPublish
  BY <1>7, <1>t DEF Goto, Lost, RecoverPublish, Undone, diskVars, envVars, genVars, memVars,
     PhaseInv, SnapInv, FreshInv, MediaInv, LoadInv, AgreeInv, BaseInv, LiveInv, WalkInv,
     CandInv, Settled, Coherent, LiveIs, Target, Gen
<1> QED
  BY <1>1, <1>2, <1>3, <1>4, <1>5, <1>6, <1>7 DEF Recovery

\* Staging and saving albums keeps the candidate database the target.
LEMMA WalkStaged == Typed /\ IInv /\ LoadInv /\ AgreeInv /\ Staged => WalkInv'
<1> SUFFICES ASSUME Typed, IInv, LoadInv, AgreeInv, Staged PROVE WalkInv'
  OBVIOUS
<1>t. journal \in Journals /\ snap \in Snapshots /\ pc \in Points
  BY DEF Typed
<1>1. CASE \E f \in Tracks : StageFile(f)
  BY <1>1, <1>t DEF Goto, StageFile, envVars, genVars, memVars, PhaseInv, SnapInv, FreshInv,
     MediaInv, LoadInv, AgreeInv, BaseInv, LiveInv, WalkInv, CandInv, Settled, Coherent, LiveIs,
     Target, Gen
<1>2. CASE SaveAlbum
  BY <1>2, <1>t DEF Goto, NewJournal, NoJournal, SaveAlbum, diskVars, envVars, genVars, memVars,
     PhaseInv, SnapInv, FreshInv, MediaInv, LoadInv, AgreeInv, BaseInv, LiveInv, WalkInv,
     CandInv, Settled, Coherent, LiveIs, Target, Gen
<1>3. CASE FinishStaging
  BY <1>3, <1>t DEF FinishStaging, Goto, diskVars, envVars, genVars, memVars, PhaseInv, SnapInv,
     FreshInv, MediaInv, LoadInv, AgreeInv, BaseInv, LiveInv, WalkInv, CandInv, Settled,
     Coherent, LiveIs, Target, Gen
<1> QED
  BY <1>1, <1>2, <1>3 DEF Staged

\* Publication up to the verified database keeps the candidate database the
\* target.
LEMMA WalkPublish == Typed /\ IInv /\ LoadInv /\ AgreeInv /\ Publish => WalkInv'
<1> SUFFICES ASSUME Typed, IInv, LoadInv, AgreeInv, Publish PROVE WalkInv'
  OBVIOUS
<1>t. journal \in Journals /\ snap \in Snapshots /\ pc \in Points
  BY DEF Typed
<1>1. CASE PublishFence
  BY <1>1, <1>t DEF End, Fail, Fence, Goto, NoWork, PublishFence, diskVars, envVars, genVars,
     memVars, PhaseInv, SnapInv, FreshInv, MediaInv, LoadInv, AgreeInv, BaseInv, LiveInv,
     WalkInv, CandInv, Settled, Coherent, LiveIs, Target, Gen
<1>2. CASE Prepare
  BY <1>2, <1>t, PrepareIs, PrepareFirst
     DEF Prepare, KnownLive, Fail, End, SameInputs, genVars, diskVars, memVars, envVars, PhaseInv,
        SnapInv, FreshInv, MediaInv, LoadInv, AgreeInv, BaseInv, LiveInv, WalkInv, CandInv, Settled,
        Coherent, LiveIs, Target, Gen
<1>3. CASE PrepareArtwork
  BY <1>3, <1>t DEF End, Fault, Goto, NoWork, PrepareArtwork, diskVars, envVars, genVars,
     memVars, PhaseInv, SnapInv, FreshInv, MediaInv, LoadInv, AgreeInv, BaseInv, LiveInv,
     WalkInv, CandInv, Settled, Coherent, LiveIs, Target, Gen
<1>4. CASE EnsurePreimage
  BY <1>4, <1>t DEF End, EnsurePreimage, Fail, Goto, NoWork, diskVars, envVars, genVars,
     memVars, PhaseInv, SnapInv, FreshInv, MediaInv, LoadInv, AgreeInv, BaseInv, LiveInv,
     WalkInv, CandInv, Settled, Coherent, LiveIs, Target, Gen
<1>5. CASE EnsureSnapshot
  BY <1>5, <1>t DEF End, EnsureSnapshot, Fail, Goto, NoWork, diskVars, envVars, genVars,
     memVars, PhaseInv, SnapInv, FreshInv, MediaInv, LoadInv, AgreeInv, BaseInv, LiveInv,
     WalkInv, CandInv, Settled, Coherent, LiveIs, Target, Gen
<1>6. CASE FillSnapshot
  BY <1>6, <1>t DEF FillSnapshot, Goto, envVars, genVars, memVars, PhaseInv, SnapInv, FreshInv,
     MediaInv, LoadInv, AgreeInv, BaseInv, LiveInv, WalkInv, CandInv, Settled, Coherent, LiveIs,
     Target, Gen
<1>7. CASE Dispatch
  BY <1>7, <1>t DEF Dispatch, Goto, diskVars, envVars, genVars, memVars, PhaseInv, SnapInv,
     FreshInv, MediaInv, LoadInv, AgreeInv, BaseInv, LiveInv, WalkInv, CandInv, Settled,
     Coherent, LiveIs, Target, Gen
<1>8. CASE ResumeCandidate
  BY <1>8, <1>t, ResumeIs, ResumeRecords
     DEF ResumeCandidate, SameInputs, genVars, diskVars, memVars, envVars, PhaseInv, SnapInv,
        FreshInv, MediaInv, LoadInv, AgreeInv, BaseInv, LiveInv, WalkInv, CandInv, Settled,
        Coherent, LiveIs, Target, Gen
<1>9. CASE OpenDatabase
  BY <1>9, <1>t DEF Goto, OpenDatabase, diskVars, envVars, genVars, PhaseInv, SnapInv, FreshInv,
     MediaInv, LoadInv, AgreeInv, BaseInv, LiveInv, WalkInv, CandInv, Settled, Coherent, LiveIs,
     Target, Gen
<1>10. CASE \E f \in Tracks : ReserveFinal(f)
  BY <1>10, <1>t DEF Goto, ReserveFinal, diskVars, envVars, genVars, PhaseInv, SnapInv,
     FreshInv, MediaInv, LoadInv, AgreeInv, BaseInv, LiveInv, WalkInv, CandInv, Settled,
     Coherent, LiveIs, Target, Gen
<1>11. CASE MoveStaged
  BY <1>11, <1>t DEF Goto, MoveStaged, envVars, genVars, memVars, PhaseInv, SnapInv, FreshInv,
     MediaInv, LoadInv, AgreeInv, BaseInv, LiveInv, WalkInv, CandInv, Settled, Coherent, LiveIs,
     Target, Gen
<1>12. CASE RecordAdded
  BY <1>12, <1>t DEF Goto, RecordAdded, diskVars, envVars, genVars, PhaseInv, SnapInv, FreshInv,
     MediaInv, LoadInv, AgreeInv, BaseInv, LiveInv, WalkInv, CandInv, Settled, Coherent, LiveIs,
     Target, Gen
<1>13. CASE UpdateMetadata
  BY <1>13, <1>t, UpdateIs DEF SameRecords, PhaseInv, AgreeInv, WalkInv, Target
<1>14. CASE ReconcileCandidate
  <2>1. CASE pc' = "known"
    BY <1>14, <2>1, ReconcileIs DEF PhaseInv, AgreeInv, WalkInv
  <2>2. CASE pc' # "known"
    <3>1. /\ pc' = "dbfence" /\ mdb'.tracks = mdb.tracks
          /\ mdb'.lists \in IF want = {} THEN {mdb.lists} ELSE want
          /\ SameRecords(journal, journal') /\ journal'.phase = journal.phase
          /\ journal'.staged = journal.staged /\ journal'.obsolete = journal.obsolete
          /\ journal'.own = want
      BY <1>14, <2>2, ReconcileIs
    <3>2. pc = "desire"
      BY <1>14 DEF ReconcileCandidate
    <3> QED
      BY <3>1, <3>2 DEF SameRecords, AgreeInv, WalkInv, Target
  <2> QED
    BY <2>1, <2>2
<1>15. CASE DatabaseFence
  BY <1>15, <1>t DEF DatabaseFence, End, Fail, Fence, Goto, NoWork, diskVars, envVars, genVars,
     memVars, PhaseInv, SnapInv, FreshInv, MediaInv, LoadInv, AgreeInv, BaseInv, LiveInv,
     WalkInv, CandInv, Settled, Coherent, LiveIs, Target, Gen
<1>16. CASE ClearArtwork
  BY <1>16, <1>t DEF ClearArtwork, Goto, diskVars, envVars, memVars, PhaseInv, SnapInv,
     FreshInv, MediaInv, LoadInv, AgreeInv, BaseInv, LiveInv, WalkInv, CandInv, Settled,
     Coherent, LiveIs, Target, Gen
<1>17. CASE WriteArtwork
  BY <1>17, <1>t DEF Fault, Goto, RecordPublished, WriteArtwork, WriteFault, diskVars, envVars,
     genVars, memVars, PhaseInv, SnapInv, FreshInv, MediaInv, LoadInv, AgreeInv, BaseInv,
     LiveInv, WalkInv, CandInv, Settled, Coherent, LiveIs, Target, Gen
<1>18. CASE WriteDatabase
  BY <1>18, <1>t DEF Fault, Goto, RecordPublished, WriteDatabase, WriteFault, diskVars, envVars,
     genVars, memVars, PhaseInv, SnapInv, FreshInv, MediaInv, LoadInv, AgreeInv, BaseInv,
     LiveInv, WalkInv, CandInv, Settled, Coherent, LiveIs, Target, Gen
<1>19. CASE RecordWritten
  BY <1>19, <1>t DEF Goto, RecordPublished, RecordWritten, diskVars, envVars, genVars, memVars,
     PhaseInv, SnapInv, FreshInv, MediaInv, LoadInv, AgreeInv, BaseInv, LiveInv, WalkInv,
     CandInv, Settled, Coherent, LiveIs, Target, Gen
<1>20. CASE VerifyWritten
  BY <1>20, <1>t, VerifyIs, VerifyRecords
     DEF VerifyWritten, SameInputs, genVars, diskVars, memVars, envVars, PhaseInv, SnapInv,
        FreshInv, MediaInv, LoadInv, AgreeInv, BaseInv, LiveInv, WalkInv, CandInv, Settled,
        Coherent, LiveIs, Target, Gen
<1> QED
  BY <1>1, <1>2, <1>3, <1>4, <1>5, <1>6, <1>7, <1>8, <1>9, <1>10, <1>11, <1>12, <1>13, <1>14,
     <1>15, <1>16, <1>17, <1>18, <1>19, <1>20 DEF Publish

\* Publication after the verified database keeps the candidate database the
\* target.
LEMMA WalkFinalize == Typed /\ IInv /\ LoadInv /\ AgreeInv /\ Finalize => WalkInv'
<1> SUFFICES ASSUME Typed, IInv, LoadInv, AgreeInv, Finalize PROVE WalkInv'
  OBVIOUS
<1>t. journal \in Journals /\ snap \in Snapshots /\ pc \in Points
  BY DEF Typed
<1>1. CASE CheckVerified
  BY <1>1, <1>t DEF CheckVerified, Fault, Goto, Mismatch, diskVars, envVars, genVars, memVars,
     PhaseInv, SnapInv, FreshInv, MediaInv, LoadInv, AgreeInv, BaseInv, LiveInv, WalkInv,
     CandInv, Settled, Coherent, LiveIs, Target, Gen
<1>2. CASE ManifestFence
  BY <1>2, <1>t DEF End, Fail, Fence, Goto, ManifestFence, NoWork, diskVars, envVars, genVars,
     memVars, PhaseInv, SnapInv, FreshInv, MediaInv, LoadInv, AgreeInv, BaseInv, LiveInv,
     WalkInv, CandInv, Settled, Coherent, LiveIs, Target, Gen
<1>3. CASE WriteManifest
  BY <1>3, <1>t DEF Fault, Goto, WriteManifest, diskVars, envVars, genVars, memVars, PhaseInv,
     SnapInv, FreshInv, MediaInv, LoadInv, AgreeInv, BaseInv, LiveInv, WalkInv, CandInv,
     Settled, Coherent, LiveIs, Target, Gen
<1>4. CASE RecordManifest
  <2>1. /\ journal'.phase = DeviceManifestPublished /\ SameInputs(journal, journal')
        /\ journal'.before = journal.before /\ journal'.verified = {Gen} /\ journal'.published = {}
    BY <1>4, <1>t, ManifestIs DEF RecordManifest
  <2> QED
    BY <1>4, <1>t, <2>1
       DEF RecordManifest, Goto, SameInputs, genVars, diskVars, memVars, envVars, PhaseInv, SnapInv,
          FreshInv, MediaInv, LoadInv, AgreeInv, BaseInv, LiveInv, WalkInv, CandInv, Settled,
          Coherent, LiveIs, Target, Gen
<1>5. CASE Reverify
  BY <1>5, <1>t, ResumedIs
     DEF Reverify, StillHeld, Mismatch, Fault, Goto, genVars, diskVars, memVars, envVars, PhaseInv,
        SnapInv, FreshInv, MediaInv, LoadInv, AgreeInv, BaseInv, LiveInv, WalkInv, CandInv, Settled,
        Coherent, LiveIs, Target, Gen
<1>6. CASE PlanFence
  BY <1>6, <1>t DEF End, Fail, Fence, Goto, NoWork, PlanFence, diskVars, envVars, genVars,
     memVars, PhaseInv, SnapInv, FreshInv, MediaInv, LoadInv, AgreeInv, BaseInv, LiveInv,
     WalkInv, CandInv, Settled, Coherent, LiveIs, Target, Gen
<1>7. CASE PlanProjections
  BY <1>7, <1>t, PlanIs
     DEF PlanProjections, Goto, Fail, End, SameInputs, genVars, diskVars, memVars, envVars,
        PhaseInv, SnapInv, FreshInv, MediaInv, LoadInv, AgreeInv, BaseInv, LiveInv, WalkInv,
        CandInv, Settled, Coherent, LiveIs, Target, Gen
<1>8. CASE OwnershipFence
  BY <1>8, <1>t DEF End, Fail, Fence, Goto, NoWork, OwnershipFence, diskVars, envVars, genVars,
     memVars, PhaseInv, SnapInv, FreshInv, MediaInv, LoadInv, AgreeInv, BaseInv, LiveInv,
     WalkInv, CandInv, Settled, Coherent, LiveIs, Target, Gen
<1>9. CASE WriteOwnership
  <2>1. CASE Interrupted
    <3>1. /\ journal'.phase = journal.phase /\ SameInputs(journal, journal')
        /\ journal'.before = journal.before /\ journal'.verified = journal.verified
        /\ journal'.published = {Gen}
      BY <2>1, <1>t, PublishedIs DEF Interrupted
    <3> QED
      BY <1>9, <1>t, <2>1, <3>1
         DEF WriteOwnership, Interrupted, End, SameInputs, genVars, diskVars, memVars, envVars,
            PhaseInv, SnapInv, FreshInv, MediaInv, LoadInv, AgreeInv, BaseInv, LiveInv, WalkInv,
            CandInv, Settled, Coherent, LiveIs, Target, Gen
  <2>2. CASE ~ Interrupted
    BY <1>9, <2>2, <1>t
       DEF WriteOwnership, Goto, genVars, diskVars, memVars, envVars, PhaseInv, SnapInv, FreshInv,
          MediaInv, LoadInv, AgreeInv, BaseInv, LiveInv, WalkInv, CandInv, Settled, Coherent,
          LiveIs, Target, Gen
  <2> QED
    BY <2>1, <2>2
<1>10. CASE PhaseOwnership
  <2>1. /\ journal'.phase = PlaylistOwnershipPublished /\ SameInputs(journal, journal')
        /\ journal'.before = journal.before /\ journal'.verified = journal.verified
        /\ journal'.published = journal.published
    BY <1>10, <1>t, PhaseIs DEF PhaseOwnership, SameRecords
  <2> QED
    BY <1>10, <1>t, <2>1
       DEF PhaseOwnership, Goto, SameInputs, genVars, diskVars, memVars, envVars, PhaseInv, SnapInv,
          FreshInv, MediaInv, LoadInv, AgreeInv, BaseInv, LiveInv, WalkInv, CandInv, Settled,
          Coherent, LiveIs, Target, Gen
<1>11. CASE RecordOwnership
  <2>1. /\ journal'.phase = journal.phase /\ SameInputs(journal, journal')
        /\ journal'.before = journal.before /\ journal'.verified = {Gen} /\ journal'.published = {}
    BY <1>11, <1>t, RecordIs DEF RecordOwnership
  <2> QED
    BY <1>11, <1>t, <2>1
       DEF RecordOwnership, Goto, SameInputs, genVars, diskVars, memVars, envVars, PhaseInv,
          SnapInv, FreshInv, MediaInv, LoadInv, AgreeInv, BaseInv, LiveInv, WalkInv, CandInv,
          Settled, Coherent, LiveIs, Target, Gen
<1>12. CASE ProjectionFence
  BY <1>12, <1>t DEF End, Fail, Fence, Goto, NoWork, ProjectionFence, diskVars, envVars,
     genVars, memVars, PhaseInv, SnapInv, FreshInv, MediaInv, LoadInv, AgreeInv, BaseInv,
     LiveInv, WalkInv, CandInv, Settled, Coherent, LiveIs, Target, Gen
<1>13. CASE WriteProjection
  <2>1. CASE Interrupted
    <3>1. /\ journal'.phase = journal.phase /\ SameInputs(journal, journal')
        /\ journal'.before = journal.before /\ journal'.verified = journal.verified
        /\ journal'.published = {Gen}
      BY <2>1, <1>t, PublishedIs DEF Interrupted
    <3> QED
      BY <1>13, <1>t, <2>1, <3>1
         DEF WriteProjection, Interrupted, End, SameInputs, genVars, diskVars, memVars, envVars,
            PhaseInv, SnapInv, FreshInv, MediaInv, LoadInv, AgreeInv, BaseInv, LiveInv, WalkInv,
            CandInv, Settled, Coherent, LiveIs, Target, Gen
  <2>2. CASE ~ Interrupted
    BY <1>13, <2>2, <1>t
       DEF WriteProjection, Goto, genVars, diskVars, memVars, envVars, PhaseInv, SnapInv, FreshInv,
          MediaInv, LoadInv, AgreeInv, BaseInv, LiveInv, WalkInv, CandInv, Settled, Coherent,
          LiveIs, Target, Gen
  <2> QED
    BY <2>1, <2>2
<1>14. CASE RemovePrevious
  <2>1. CASE Interrupted
    <3>1. /\ journal'.phase = journal.phase /\ SameInputs(journal, journal')
        /\ journal'.before = journal.before /\ journal'.verified = journal.verified
        /\ journal'.published = {Gen}
      BY <2>1, <1>t, PublishedIs DEF Interrupted
    <3> QED
      BY <1>14, <1>t, <2>1, <3>1
         DEF RemovePrevious, Interrupted, End, SameInputs, genVars, diskVars, memVars, envVars,
            PhaseInv, SnapInv, FreshInv, MediaInv, LoadInv, AgreeInv, BaseInv, LiveInv, WalkInv,
            CandInv, Settled, Coherent, LiveIs, Target, Gen
  <2>2. CASE ~ Interrupted
    BY <1>14, <2>2, <1>t
       DEF RemovePrevious, Goto, genVars, diskVars, memVars, envVars, PhaseInv, SnapInv, FreshInv,
          MediaInv, LoadInv, AgreeInv, BaseInv, LiveInv, WalkInv, CandInv, Settled, Coherent,
          LiveIs, Target, Gen
  <2> QED
    BY <2>1, <2>2
<1>15. CASE PhaseProjection
  <2>1. /\ journal'.phase = RockboxProjectionsPublished /\ SameInputs(journal, journal')
        /\ journal'.before = journal.before /\ journal'.verified = journal.verified
        /\ journal'.published = journal.published
    BY <1>15, <1>t, PhaseIs DEF PhaseProjection, SameRecords
  <2> QED
    BY <1>15, <1>t, <2>1
       DEF PhaseProjection, Goto, SameInputs, genVars, diskVars, memVars, envVars, PhaseInv,
          SnapInv, FreshInv, MediaInv, LoadInv, AgreeInv, BaseInv, LiveInv, WalkInv, CandInv,
          Settled, Coherent, LiveIs, Target, Gen
<1>16. CASE RecordProjection
  <2>1. /\ journal'.phase = journal.phase /\ SameInputs(journal, journal')
        /\ journal'.before = journal.before /\ journal'.verified = {Gen} /\ journal'.published = {}
    BY <1>16, <1>t, RecordIs DEF RecordProjection
  <2> QED
    BY <1>16, <1>t, <2>1
       DEF RecordProjection, Goto, SameInputs, genVars, diskVars, memVars, envVars, PhaseInv,
          SnapInv, FreshInv, MediaInv, LoadInv, AgreeInv, BaseInv, LiveInv, WalkInv, CandInv,
          Settled, Coherent, LiveIs, Target, Gen
<1>17. CASE AuthorityFence
  BY <1>17, <1>t DEF AuthorityFence, End, Fail, Fence, Goto, NoWork, diskVars, envVars, genVars,
     memVars, PhaseInv, SnapInv, FreshInv, MediaInv, LoadInv, AgreeInv, BaseInv, LiveInv,
     WalkInv, CandInv, Settled, Coherent, LiveIs, Target, Gen
<1>18. CASE WriteAuthority
  BY <1>18, <1>t DEF Goto, WriteAuthority, diskVars, envVars, memVars, PhaseInv, SnapInv,
     FreshInv, MediaInv, LoadInv, AgreeInv, BaseInv, LiveInv, WalkInv, CandInv, Settled,
     Coherent, LiveIs, Target, Gen
<1>19. CASE RecordAuthority
  <2>1. /\ journal'.phase = journal.phase /\ SameInputs(journal, journal')
        /\ journal'.before = journal.before /\ journal'.verified = {Gen} /\ journal'.published = {}
    BY <1>19, <1>t, RecordIs DEF RecordAuthority
  <2> QED
    BY <1>19, <1>t, <2>1
       DEF RecordAuthority, Goto, SameInputs, genVars, diskVars, memVars, envVars, PhaseInv,
          SnapInv, FreshInv, MediaInv, LoadInv, AgreeInv, BaseInv, LiveInv, WalkInv, CandInv,
          Settled, Coherent, LiveIs, Target, Gen
<1> QED
  BY <1>1, <1>2, <1>3, <1>4, <1>5, <1>6, <1>7, <1>8, <1>9, <1>10, <1>11, <1>12, <1>13, <1>14,
     <1>15, <1>16, <1>17, <1>18, <1>19 DEF Finalize

\* Removing what a closed journal leaves keeps the candidate database the
\* target.
LEMMA WalkCleanup == Typed /\ IInv /\ LoadInv /\ AgreeInv /\ Cleanup => WalkInv'
<1> SUFFICES ASSUME Typed, IInv, LoadInv, AgreeInv, Cleanup PROVE WalkInv'
  OBVIOUS
<1>t. journal \in Journals /\ snap \in Snapshots /\ pc \in Points
  BY DEF Typed
<1>1. CASE CleanStaged
  BY <1>1, <1>t DEF CleanStaged, Goto, Unreferenced, envVars, genVars, memVars, PhaseInv,
     SnapInv, FreshInv, MediaInv, LoadInv, AgreeInv, BaseInv, LiveInv, WalkInv, CandInv,
     Settled, Coherent, LiveIs, Target, Gen
<1>2. CASE RemoveObsolete
  BY <1>2, <1>t DEF Goto, RemoveObsolete, Unreferenced, envVars, genVars, memVars, PhaseInv,
     SnapInv, FreshInv, MediaInv, LoadInv, AgreeInv, BaseInv, LiveInv, WalkInv, CandInv,
     Settled, Coherent, LiveIs, Target, Gen
<1>3. CASE SaveCleanup
  <2>1. /\ journal'.phase = CleanupComplete /\ SameInputs(journal, journal')
        /\ journal'.before = journal.before /\ journal'.verified = journal.verified
        /\ journal'.published = journal.published
    BY <1>3, <1>t, PhaseIs DEF SaveCleanup, SameRecords
  <2> QED
    BY <1>3, <1>t, <2>1
       DEF SaveCleanup, Goto, SameInputs, genVars, diskVars, memVars, envVars, PhaseInv, SnapInv,
          FreshInv, MediaInv, LoadInv, AgreeInv, BaseInv, LiveInv, WalkInv, CandInv, Settled,
          Coherent, LiveIs, Target, Gen
<1>4. CASE RemoveStagedDir
  BY <1>4, <1>t DEF End, Fail, Goto, NoWork, RemoveStagedDir, diskVars, envVars, genVars,
     memVars, PhaseInv, SnapInv, FreshInv, MediaInv, LoadInv, AgreeInv, BaseInv, LiveInv,
     WalkInv, CandInv, Settled, Coherent, LiveIs, Target, Gen
<1>5. CASE RemoveSnapshot
  BY <1>5, <1>t DEF End, Fail, Goto, NoWork, RemoveSnapshot, diskVars, envVars, genVars,
     memVars, PhaseInv, SnapInv, FreshInv, MediaInv, LoadInv, AgreeInv, BaseInv, LiveInv,
     WalkInv, CandInv, Settled, Coherent, LiveIs, Target, Gen
<1>6. CASE EmptySnapshot
  BY <1>6, <1>t DEF EmptySnapshot, Goto, envVars, genVars, memVars, PhaseInv, SnapInv, FreshInv,
     MediaInv, LoadInv, AgreeInv, BaseInv, LiveInv, WalkInv, CandInv, Settled, Coherent, LiveIs,
     Target, Gen
<1>7. CASE RemoveJournal
  BY <1>7, <1>t DEF Goto, NoJournal, NoWork, RemoveJournal, diskVars, envVars, genVars,
     PhaseInv, SnapInv, FreshInv, MediaInv, LoadInv, AgreeInv, BaseInv, LiveInv, WalkInv,
     CandInv, Settled, Coherent, LiveIs, Target, Gen
<1> QED
  BY <1>1, <1>2, <1>3, <1>4, <1>5, <1>6, <1>7 DEF Cleanup

\* Restoring the snapshot keeps the candidate database the target.
LEMMA WalkRollback == Typed /\ IInv /\ LoadInv /\ AgreeInv /\ Rollback => WalkInv'
<1> SUFFICES ASSUME Typed, IInv, LoadInv, AgreeInv, Rollback PROVE WalkInv'
  OBVIOUS
<1>t. journal \in Journals /\ snap \in Snapshots /\ pc \in Points
  BY DEF Typed
<1>1. CASE KnownRollback
  BY <1>1, <1>t DEF End, Fail, Goto, KnownRollback, NoWork, diskVars, envVars, genVars, memVars,
     PhaseInv, SnapInv, FreshInv, MediaInv, LoadInv, AgreeInv, BaseInv, LiveInv, WalkInv,
     CandInv, Settled, Coherent, LiveIs, Target, Gen
<1>2. CASE RestoreClear
  BY <1>2, <1>t DEF End, Fail, Goto, NoWork, RestoreClear, diskVars, envVars, genVars, memVars,
     PhaseInv, SnapInv, FreshInv, MediaInv, LoadInv, AgreeInv, BaseInv, LiveInv, WalkInv,
     CandInv, Settled, Coherent, LiveIs, Target, Gen
<1>3. CASE RestoreArtwork
  BY <1>3, <1>t DEF Goto, RestoreArtwork, diskVars, envVars, memVars, PhaseInv, SnapInv,
     FreshInv, MediaInv, LoadInv, AgreeInv, BaseInv, LiveInv, WalkInv, CandInv, Settled,
     Coherent, LiveIs, Target, Gen
<1>4. CASE RestoreDatabase
  BY <1>4, <1>t DEF Goto, RestoreDatabase, diskVars, envVars, memVars, PhaseInv, SnapInv,
     FreshInv, MediaInv, LoadInv, AgreeInv, BaseInv, LiveInv, WalkInv, CandInv, Settled,
     Coherent, LiveIs, Target, Gen
<1>5. CASE \E f \in Tracks : RestoreStaged(f)
  BY <1>5, <1>t DEF Goto, Moved, Preserving, RestoreStaged, Unreferenced, envVars, genVars,
     memVars, PhaseInv, SnapInv, FreshInv, MediaInv, LoadInv, AgreeInv, BaseInv, LiveInv,
     WalkInv, CandInv, Settled, Coherent, LiveIs, Target, Gen
<1>6. CASE ResumeRestored
  BY <1>6, <1>t DEF Goto, Moved, Reset, ResumeRestored, Unreferenced, diskVars, envVars,
     genVars, memVars, PhaseInv, SnapInv, FreshInv, MediaInv, LoadInv, AgreeInv, BaseInv,
     LiveInv, WalkInv, CandInv, Settled, Coherent, LiveIs, Target, Gen
<1>7. CASE UndoneRollback
  BY <1>7, <1>t DEF Goto, Moved, Reset, UndoneRollback, Unreferenced, diskVars, envVars,
     genVars, memVars, PhaseInv, SnapInv, FreshInv, MediaInv, LoadInv, AgreeInv, BaseInv,
     LiveInv, WalkInv, CandInv, Settled, Coherent, LiveIs, Target, Gen
<1>8. CASE MovedBack
  BY <1>8, <1>t DEF Goto, Moved, MovedBack, Unreferenced, diskVars, envVars, genVars, memVars,
     PhaseInv, SnapInv, FreshInv, MediaInv, LoadInv, AgreeInv, BaseInv, LiveInv, WalkInv,
     CandInv, Settled, Coherent, LiveIs, Target, Gen
<1>9. CASE DropStaged
  BY <1>9, <1>t DEF DropStaged, Goto, Preserving, Unreferenced, envVars, genVars, memVars,
     PhaseInv, SnapInv, FreshInv, MediaInv, LoadInv, AgreeInv, BaseInv, LiveInv, WalkInv,
     CandInv, Settled, Coherent, LiveIs, Target, Gen
<1>10. CASE RestoreManifest
  BY <1>10, <1>t DEF End, Fail, Goto, NoWork, RestoreManifest, diskVars, envVars, genVars,
     memVars, PhaseInv, SnapInv, FreshInv, MediaInv, LoadInv, AgreeInv, BaseInv, LiveInv,
     WalkInv, CandInv, Settled, Coherent, LiveIs, Target, Gen
<1>11. CASE FinishRollback
  BY <1>11, <1>t, FinishRecords
     DEF FinishRollback, Restored, Closed, SameInputs, genVars, diskVars, memVars, envVars,
        PhaseInv, SnapInv, FreshInv, MediaInv, LoadInv, AgreeInv, BaseInv, LiveInv, WalkInv,
        CandInv, Settled, Coherent, LiveIs, Target, Gen
<1> QED
  BY <1>1, <1>2, <1>3, <1>4, <1>5, <1>6, <1>7, <1>8, <1>9, <1>10, <1>11 DEF Rollback

\* A step of the environment keeps the candidate database the target.
LEMMA WalkEnvironment == Typed /\ IInv /\ LoadInv /\ AgreeInv /\ Environment => WalkInv'
<1> SUFFICES ASSUME Typed, IInv, LoadInv, AgreeInv, Environment PROVE WalkInv'
  OBVIOUS
<1>t. journal \in Journals /\ snap \in Snapshots /\ pc \in Points
  BY DEF Typed
<1>1. CASE ForeignWrite
  BY <1>1, <1>t DEF ForeignWrite, diskVars, memVars, PhaseInv, SnapInv, FreshInv, MediaInv,
     LoadInv, AgreeInv, BaseInv, LiveInv, WalkInv, CandInv, Settled, Coherent, LiveIs, Target,
     Gen
<1>2. CASE FirmwareNormalize
  BY <1>2, <1>t DEF Fault, FirmwareNormalize, diskVars, memVars, PhaseInv, SnapInv, FreshInv,
     MediaInv, LoadInv, AgreeInv, BaseInv, LiveInv, WalkInv, CandInv, Settled, Coherent, LiveIs,
     Target, Gen
<1>3. CASE LoseStaged
  BY <1>3, <1>t DEF Fault, LoseStaged, genVars, memVars, PhaseInv, SnapInv, FreshInv, MediaInv,
     LoadInv, AgreeInv, BaseInv, LiveInv, WalkInv, CandInv, Settled, Coherent, LiveIs, Target,
     Gen
<1>4. CASE Crash
  BY <1>4, <1>t DEF Crash, End, NoWork, genVars, PhaseInv, SnapInv, FreshInv, MediaInv, LoadInv,
     AgreeInv, BaseInv, LiveInv, WalkInv, CandInv, Settled, Coherent, LiveIs, Target, Gen
<1>5. CASE StopAdmission
  BY <1>5, <1>t DEF Goto, StopAdmission, diskVars, envVars, genVars, PhaseInv, SnapInv,
     FreshInv, MediaInv, LoadInv, AgreeInv, BaseInv, LiveInv, WalkInv, CandInv, Settled,
     Coherent, LiveIs, Target, Gen
<1>6. CASE EndSession
  BY <1>6, <1>t DEF End, EndSession, Fail, NoWork, diskVars, envVars, genVars, PhaseInv,
     SnapInv, FreshInv, MediaInv, LoadInv, AgreeInv, BaseInv, LiveInv, WalkInv, CandInv,
     Settled, Coherent, LiveIs, Target, Gen
<1>7. CASE \E w \in Works : BeginSync(w)
  BY <1>7, <1>t DEF BeginSync, diskVars, genVars, PhaseInv, SnapInv, FreshInv, MediaInv,
     LoadInv, AgreeInv, BaseInv, LiveInv, WalkInv, CandInv, Settled, Coherent, LiveIs, Target,
     Gen
<1> QED
  BY <1>1, <1>2, <1>3, <1>4, <1>5, <1>6, <1>7 DEF Environment

\* Acquiring the lease keeps the candidate database the target.
LEMMA WalkAcquire == Typed /\ IInv /\ LoadInv /\ AgreeInv /\ Acquire => WalkInv'
<1> SUFFICES ASSUME Typed, IInv, LoadInv, AgreeInv, Acquire PROVE WalkInv'
  OBVIOUS
<1>t. journal \in Journals /\ snap \in Snapshots /\ pc \in Points
  BY DEF Typed
<1>1. CASE Acquire
  BY <1>1, <1>t DEF Acquire, diskVars, envVars, genVars, PhaseInv, SnapInv, FreshInv, MediaInv,
     LoadInv, AgreeInv, BaseInv, LiveInv, WalkInv, CandInv, Settled, Coherent, LiveIs, Target,
     Gen
<1> QED
  BY <1>1

-----------------------------------------------------------------------------
(* The candidate manifest in the journal.                                    *)

\* Recovering the journal a session finds keeps the candidate manifest what the
\* candidate database holds.
LEMMA CandRecovery == Typed /\ IInv /\ LoadInv /\ AgreeInv /\ Recovery => CandInv'
<1> SUFFICES ASSUME Typed, IInv, LoadInv, AgreeInv, Recovery PROVE CandInv'
  OBVIOUS
<1>t. journal \in Journals /\ snap \in Snapshots /\ pc \in Points
  BY DEF Typed
<1>1. CASE RecoverUndone
  BY <1>1, <1>t DEF Goto, RecoverUndone, Undone, diskVars, envVars, genVars, memVars, PhaseInv,
     SnapInv, FreshInv, MediaInv, LoadInv, AgreeInv, BaseInv, LiveInv, WalkInv, CandInv,
     Settled, Coherent, LiveIs, Target, Gen
<1>2. CASE RecoverStaging
  BY <1>2, <1>t DEF Goto, RecoverStaging, Unreferenced, envVars, genVars, memVars, PhaseInv,
     SnapInv, FreshInv, MediaInv, LoadInv, AgreeInv, BaseInv, LiveInv, WalkInv, CandInv,
     Settled, Coherent, LiveIs, Target, Gen
<1>3. CASE SaveAbandoned
  BY <1>3, <1>t DEF Abandoned, End, Fail, Goto, NoWork, SaveAbandoned, diskVars, envVars,
     genVars, memVars, PhaseInv, SnapInv, FreshInv, MediaInv, LoadInv, AgreeInv, BaseInv,
     LiveInv, WalkInv, CandInv, Settled, Coherent, LiveIs, Target, Gen
<1>4. CASE RemoveAbandonedDir
  BY <1>4, <1>t DEF Goto, RemoveAbandonedDir, envVars, genVars, memVars, PhaseInv, SnapInv,
     FreshInv, MediaInv, LoadInv, AgreeInv, BaseInv, LiveInv, WalkInv, CandInv, Settled,
     Coherent, LiveIs, Target, Gen
<1>5. CASE RecoverFirmware
  BY <1>5, <1>t DEF Goto, RecoverFirmware, Undone, diskVars, envVars, genVars, memVars,
     PhaseInv, SnapInv, FreshInv, MediaInv, LoadInv, AgreeInv, BaseInv, LiveInv, WalkInv,
     CandInv, Settled, Coherent, LiveIs, Target, Gen
<1>6. CASE RecoverLost
  BY <1>6, <1>t DEF End, Fail, Goto, Lost, NoWork, RecoverLost, diskVars, envVars, genVars,
     memVars, PhaseInv, SnapInv, FreshInv, MediaInv, LoadInv, AgreeInv, BaseInv, LiveInv,
     WalkInv, CandInv, Settled, Coherent, LiveIs, Target, Gen
<1>7. CASE RecoverPublish
  BY <1>7, <1>t DEF Goto, Lost, RecoverPublish, Undone, diskVars, envVars, genVars, memVars,
     PhaseInv, SnapInv, FreshInv, MediaInv, LoadInv, AgreeInv, BaseInv, LiveInv, WalkInv,
     CandInv, Settled, Coherent, LiveIs, Target, Gen
<1> QED
  BY <1>1, <1>2, <1>3, <1>4, <1>5, <1>6, <1>7 DEF Recovery

\* Staging and saving albums keeps the candidate manifest what the candidate
\* database holds.
LEMMA CandStaged == Typed /\ IInv /\ LoadInv /\ AgreeInv /\ Staged => CandInv'
<1> SUFFICES ASSUME Typed, IInv, LoadInv, AgreeInv, Staged PROVE CandInv'
  OBVIOUS
<1>t. journal \in Journals /\ snap \in Snapshots /\ pc \in Points
  BY DEF Typed
<1>1. CASE \E f \in Tracks : StageFile(f)
  BY <1>1, <1>t DEF Goto, StageFile, envVars, genVars, memVars, PhaseInv, SnapInv, FreshInv,
     MediaInv, LoadInv, AgreeInv, BaseInv, LiveInv, WalkInv, CandInv, Settled, Coherent, LiveIs,
     Target, Gen
<1>2. CASE SaveAlbum
  BY <1>2, <1>t DEF Goto, NewJournal, NoJournal, SaveAlbum, diskVars, envVars, genVars, memVars,
     PhaseInv, SnapInv, FreshInv, MediaInv, LoadInv, AgreeInv, BaseInv, LiveInv, WalkInv,
     CandInv, Settled, Coherent, LiveIs, Target, Gen
<1>3. CASE FinishStaging
  BY <1>3, <1>t DEF FinishStaging, Goto, diskVars, envVars, genVars, memVars, PhaseInv, SnapInv,
     FreshInv, MediaInv, LoadInv, AgreeInv, BaseInv, LiveInv, WalkInv, CandInv, Settled,
     Coherent, LiveIs, Target, Gen
<1> QED
  BY <1>1, <1>2, <1>3 DEF Staged

\* Publication up to the verified database keeps the candidate manifest what the
\* candidate database holds.
LEMMA CandPublish == Typed /\ IInv /\ LoadInv /\ AgreeInv /\ Publish => CandInv'
<1> SUFFICES ASSUME Typed, IInv, LoadInv, AgreeInv, Publish PROVE CandInv'
  OBVIOUS
<1>t. journal \in Journals /\ snap \in Snapshots /\ pc \in Points
  BY DEF Typed
<1>1. CASE PublishFence
  BY <1>1, <1>t DEF End, Fail, Fence, Goto, NoWork, PublishFence, diskVars, envVars, genVars,
     memVars, PhaseInv, SnapInv, FreshInv, MediaInv, LoadInv, AgreeInv, BaseInv, LiveInv,
     WalkInv, CandInv, Settled, Coherent, LiveIs, Target, Gen
<1>2. CASE Prepare
  BY <1>2, <1>t, PrepareIs, PrepareFirst
     DEF Prepare, KnownLive, Fail, End, SameInputs, genVars, diskVars, memVars, envVars, PhaseInv,
        SnapInv, FreshInv, MediaInv, LoadInv, AgreeInv, BaseInv, LiveInv, WalkInv, CandInv, Settled,
        Coherent, LiveIs, Target, Gen
<1>3. CASE PrepareArtwork
  <2>1. CASE journal' = journal
    BY <1>3, <1>t, <2>1 DEF PrepareArtwork, Goto, End, PhaseInv, AgreeInv, CandInv
  <2>2. CASE journal' # journal
    <3>1. /\ SameInputs(journal, journal') /\ SameRecords(journal, journal') /\ pc' = "preimage"
          /\ journal.phase = Staging /\ UNCHANGED <<genVars, diskVars, memVars>>
      BY <1>3, <1>t, <2>2, PhaseIs DEF PrepareArtwork, Goto, PhaseInv
    <3>2. /\ journal.cand = {} /\ journal.own = {}
          /\ \A b \in journal.before : db.tracks = b.db.tracks
      BY <3>1 DEF AgreeInv, BaseInv, LiveInv, LiveIs, HeldInv
    <3>3. journal'.phase = ReadyToPublish
      BY <1>3, <1>t, <2>2, PhaseIs DEF PrepareArtwork
    <3> QED
      BY <3>1, <3>2, <3>3 DEF CandInv, SameInputs, SameRecords, genVars
  <2> QED
    BY <2>1, <2>2
<1>4. CASE EnsurePreimage
  BY <1>4, <1>t DEF End, EnsurePreimage, Fail, Goto, NoWork, diskVars, envVars, genVars,
     memVars, PhaseInv, SnapInv, FreshInv, MediaInv, LoadInv, AgreeInv, BaseInv, LiveInv,
     WalkInv, CandInv, Settled, Coherent, LiveIs, Target, Gen
<1>5. CASE EnsureSnapshot
  BY <1>5, <1>t DEF End, EnsureSnapshot, Fail, Goto, NoWork, diskVars, envVars, genVars,
     memVars, PhaseInv, SnapInv, FreshInv, MediaInv, LoadInv, AgreeInv, BaseInv, LiveInv,
     WalkInv, CandInv, Settled, Coherent, LiveIs, Target, Gen
<1>6. CASE FillSnapshot
  BY <1>6, <1>t DEF FillSnapshot, Goto, envVars, genVars, memVars, PhaseInv, SnapInv, FreshInv,
     MediaInv, LoadInv, AgreeInv, BaseInv, LiveInv, WalkInv, CandInv, Settled, Coherent, LiveIs,
     Target, Gen
<1>7. CASE Dispatch
  BY <1>7, <1>t DEF Dispatch, Goto, diskVars, envVars, genVars, memVars, PhaseInv, SnapInv,
     FreshInv, MediaInv, LoadInv, AgreeInv, BaseInv, LiveInv, WalkInv, CandInv, Settled,
     Coherent, LiveIs, Target, Gen
<1>8. CASE ResumeCandidate
  <2>1. CASE pc' # "dbv"
    BY <1>8, <1>t, <2>1, ResumeIs DEF PhaseInv, AgreeInv, CandInv, Target, genVars
  <2>2. CASE pc' = "dbv"
    <3>1. /\ journal'.phase = DatabaseVerified /\ SameInputs(journal, journal')
          /\ journal'.before = journal.before /\ UNCHANGED genVars
      BY <1>8, <2>2, ResumeIs
    <3>2. journal.phase = ReadyToPublish /\ CandidateHeld /\ journal.cand # {}
      BY <1>8, <2>2, ResumeRecords DEF ResumeCandidate, PhaseInv
    <3>3. \A b \in journal.before : \A c \in journal.cand : c.tracks = Target(b)
      BY <3>2, HeldExact DEF AgreeInv
    <3> QED
      BY <2>2, <3>1, <3>2, <3>3 DEF AgreeInv, CandInv, SameInputs, Target
  <2> QED
    BY <2>1, <2>2
<1>9. CASE OpenDatabase
  BY <1>9, <1>t DEF Goto, OpenDatabase, diskVars, envVars, genVars, PhaseInv, SnapInv, FreshInv,
     MediaInv, LoadInv, AgreeInv, BaseInv, LiveInv, WalkInv, CandInv, Settled, Coherent, LiveIs,
     Target, Gen
<1>10. CASE \E f \in Tracks : ReserveFinal(f)
  BY <1>10, <1>t DEF Goto, ReserveFinal, diskVars, envVars, genVars, PhaseInv, SnapInv,
     FreshInv, MediaInv, LoadInv, AgreeInv, BaseInv, LiveInv, WalkInv, CandInv, Settled,
     Coherent, LiveIs, Target, Gen
<1>11. CASE MoveStaged
  BY <1>11, <1>t DEF Goto, MoveStaged, envVars, genVars, memVars, PhaseInv, SnapInv, FreshInv,
     MediaInv, LoadInv, AgreeInv, BaseInv, LiveInv, WalkInv, CandInv, Settled, Coherent, LiveIs,
     Target, Gen
<1>12. CASE RecordAdded
  <2>1. /\ SameRecords(journal, journal') /\ journal'.phase = journal.phase
        /\ journal'.staged = journal.staged /\ journal'.obsolete = journal.obsolete
        /\ pc = "record" /\ pc' = "add" /\ UNCHANGED genVars
    BY <1>12, AddedIs
  <2>2. PICK c : /\ journal'.cand = {c}
                 /\ c.tracks = (manifest.tracks \ journal.obsolete)
                                 \cup ((mdb.tracks \cap journal.staged) \cup cur)
    BY <1>12, AddedIs, CandidateIs
  <2>3. journal.phase = ReadyToPublish /\ cur # {} /\ cur \subseteq journal.staged
    <3>1. journal.phase = ReadyToPublish /\ journal.before # {}
      BY <2>1 DEF PhaseInv, LoadInv
    <3> QED
      BY <2>1, <3>1 DEF AgreeInv, WalkInv, FreshInv
  <2>4. \A b \in journal.before :
          /\ manifest.tracks = b.db.tracks /\ db.tracks = b.db.tracks
          /\ b.db.tracks \cap journal.staged = {}
    BY <2>1, <2>3 DEF AgreeInv, BaseInv, Coherent, LiveInv, LiveIs, FreshInv
  <2> QED
    BY <2>1, <2>2, <2>3, <2>4 DEF CandInv, SameRecords, genVars
<1>13. CASE UpdateMetadata
  <2>1. /\ SameRecords(journal, journal') /\ journal'.phase = journal.phase
        /\ journal'.staged = journal.staged /\ journal'.obsolete = journal.obsolete
        /\ journal'.own = journal.own
        /\ pc = "add" /\ pc' = "desire" /\ UNCHANGED genVars
    BY <1>13, UpdateIs
  <2>2. CASE journal'.cand = journal.cand
    BY <2>1, <2>2 DEF PhaseInv, AgreeInv, CandInv, SameRecords, genVars, Target
  <2>3. CASE journal'.cand # journal.cand
    <3>1. PICK c : /\ journal'.cand = {c}
                   /\ c.tracks = (manifest.tracks \ journal.obsolete) \cup journal.staged
      BY <1>13, <2>3, UpdateIs, CandidateIs
    <3>2. journal.phase = ReadyToPublish /\ journal.staged \cap journal.obsolete = {}
      BY <2>1 DEF PhaseInv, AgreeInv, BaseInv
    <3>3. \A b \in journal.before :
            /\ manifest.tracks = b.db.tracks /\ db.tracks = b.db.tracks
            /\ b.db.tracks \cap journal.staged = {}
      BY <2>1, <3>2 DEF AgreeInv, BaseInv, Coherent, LiveInv, LiveIs, FreshInv
    <3> QED
      BY <2>1, <3>1, <3>2, <3>3 DEF CandInv, SameRecords, genVars, Target
  <2> QED
    BY <2>2, <2>3
<1>14. CASE ReconcileCandidate
  <2>1. CASE pc' = "known"
    BY <1>14, <2>1, <1>t, ReconcileIs
       DEF ReconcileCandidate, PhaseInv, AgreeInv, CandInv, genVars, Target
  <2>2. CASE pc' # "known"
    <3>0. /\ SameRecords(journal, journal') /\ journal'.phase = journal.phase
          /\ journal'.staged = journal.staged /\ journal'.obsolete = journal.obsolete
          /\ pc = "desire" /\ pc' = "dbfence" /\ UNCHANGED genVars
      BY <1>14, <2>2, ReconcileIs DEF ReconcileCandidate
    <3>1. PICK c : /\ journal'.cand = {c}
                   /\ c.tracks = (manifest.tracks \ journal.obsolete) \cup journal.staged
      BY <1>14, <2>2, ReconcileIs, CandidateIs
    <3>2. journal.phase = ReadyToPublish /\ journal.staged \cap journal.obsolete = {}
      BY <3>0 DEF PhaseInv, AgreeInv, BaseInv
    <3>3. \A b \in journal.before :
            /\ manifest.tracks = b.db.tracks /\ db.tracks = b.db.tracks
            /\ b.db.tracks \cap journal.staged = {}
      BY <3>0, <3>2 DEF AgreeInv, BaseInv, Coherent, LiveInv, LiveIs, FreshInv
    <3> QED
      BY <3>0, <3>1, <3>2, <3>3 DEF CandInv, SameRecords, genVars, Target
  <2> QED
    BY <2>1, <2>2
<1>15. CASE DatabaseFence
  BY <1>15, <1>t DEF DatabaseFence, End, Fail, Fence, Goto, NoWork, diskVars, envVars, genVars,
     memVars, PhaseInv, SnapInv, FreshInv, MediaInv, LoadInv, AgreeInv, BaseInv, LiveInv,
     WalkInv, CandInv, Settled, Coherent, LiveIs, Target, Gen
<1>16. CASE ClearArtwork
  BY <1>16, <1>t DEF ClearArtwork, Goto, diskVars, envVars, memVars, PhaseInv, SnapInv,
     FreshInv, MediaInv, LoadInv, AgreeInv, BaseInv, LiveInv, WalkInv, CandInv, Settled,
     Coherent, LiveIs, Target, Gen
<1>17. CASE WriteArtwork
  BY <1>17, <1>t DEF Fault, Goto, RecordPublished, WriteArtwork, WriteFault, diskVars, envVars,
     genVars, memVars, PhaseInv, SnapInv, FreshInv, MediaInv, LoadInv, AgreeInv, BaseInv,
     LiveInv, WalkInv, CandInv, Settled, Coherent, LiveIs, Target, Gen
<1>18. CASE WriteDatabase
  BY <1>18, <1>t DEF Fault, Goto, RecordPublished, WriteDatabase, WriteFault, diskVars, envVars,
     genVars, memVars, PhaseInv, SnapInv, FreshInv, MediaInv, LoadInv, AgreeInv, BaseInv,
     LiveInv, WalkInv, CandInv, Settled, Coherent, LiveIs, Target, Gen
<1>19. CASE RecordWritten
  BY <1>19, <1>t DEF Goto, RecordPublished, RecordWritten, diskVars, envVars, genVars, memVars,
     PhaseInv, SnapInv, FreshInv, MediaInv, LoadInv, AgreeInv, BaseInv, LiveInv, WalkInv,
     CandInv, Settled, Coherent, LiveIs, Target, Gen
<1>20. CASE VerifyWritten
  BY <1>20, <1>t, VerifyIs, VerifyRecords
     DEF VerifyWritten, SameInputs, genVars, diskVars, memVars, envVars, PhaseInv, SnapInv,
        FreshInv, MediaInv, LoadInv, AgreeInv, BaseInv, LiveInv, WalkInv, CandInv, Settled,
        Coherent, LiveIs, Target, Gen
<1> QED
  BY <1>1, <1>2, <1>3, <1>4, <1>5, <1>6, <1>7, <1>8, <1>9, <1>10, <1>11, <1>12, <1>13, <1>14,
     <1>15, <1>16, <1>17, <1>18, <1>19, <1>20 DEF Publish

\* Publication after the verified database keeps the candidate manifest what the
\* candidate database holds.
LEMMA CandFinalize == Typed /\ IInv /\ LoadInv /\ AgreeInv /\ Finalize => CandInv'
<1> SUFFICES ASSUME Typed, IInv, LoadInv, AgreeInv, Finalize PROVE CandInv'
  OBVIOUS
<1>t. journal \in Journals /\ snap \in Snapshots /\ pc \in Points
  BY DEF Typed
<1>1. CASE CheckVerified
  BY <1>1, <1>t DEF CheckVerified, Fault, Goto, Mismatch, diskVars, envVars, genVars, memVars,
     PhaseInv, SnapInv, FreshInv, MediaInv, LoadInv, AgreeInv, BaseInv, LiveInv, WalkInv,
     CandInv, Settled, Coherent, LiveIs, Target, Gen
<1>2. CASE ManifestFence
  BY <1>2, <1>t DEF End, Fail, Fence, Goto, ManifestFence, NoWork, diskVars, envVars, genVars,
     memVars, PhaseInv, SnapInv, FreshInv, MediaInv, LoadInv, AgreeInv, BaseInv, LiveInv,
     WalkInv, CandInv, Settled, Coherent, LiveIs, Target, Gen
<1>3. CASE WriteManifest
  <2>1. CASE pc' = "known"
    BY <1>3, <1>t, <2>1 DEF WriteManifest, Fault, Goto, PhaseInv, AgreeInv, CandInv, genVars, Target
  <2>2. CASE pc' # "known"
    <3>1. /\ pc = "manwrite" /\ manifest' \in journal.cand /\ pc' = "manrecord"
          /\ UNCHANGED <<db, journal>>
      BY <1>3, <2>2 DEF WriteManifest, Goto
    <3>2. journal.phase = DatabaseVerified /\ CandidateHeld /\ journal.before # {}
      BY <3>1, LiveIsHeld DEF PhaseInv, HeldInv, FreshInv
    <3>3. PICK b \in journal.before : TRUE
      BY <3>2
    <3>4. manifest'.tracks = Target(b) /\ db.tracks = Target(b)
      BY <3>1, <3>2, HeldExact DEF AgreeInv
    <3> QED
      BY <3>1, <3>2, <3>4 DEF AgreeInv, CandInv, Target
  <2> QED
    BY <2>1, <2>2
<1>4. CASE RecordManifest
  <2>1. /\ journal'.phase = DeviceManifestPublished /\ SameInputs(journal, journal')
        /\ journal'.before = journal.before /\ journal'.verified = {Gen} /\ journal'.published = {}
    BY <1>4, <1>t, ManifestIs DEF RecordManifest
  <2> QED
    BY <1>4, <1>t, <2>1
       DEF RecordManifest, Goto, SameInputs, genVars, diskVars, memVars, envVars, PhaseInv, SnapInv,
          FreshInv, MediaInv, LoadInv, AgreeInv, BaseInv, LiveInv, WalkInv, CandInv, Settled,
          Coherent, LiveIs, Target, Gen
<1>5. CASE Reverify
  BY <1>5, <1>t, ResumedIs
     DEF Reverify, StillHeld, Mismatch, Fault, Goto, genVars, diskVars, memVars, envVars, PhaseInv,
        SnapInv, FreshInv, MediaInv, LoadInv, AgreeInv, BaseInv, LiveInv, WalkInv, CandInv, Settled,
        Coherent, LiveIs, Target, Gen
<1>6. CASE PlanFence
  BY <1>6, <1>t DEF End, Fail, Fence, Goto, NoWork, PlanFence, diskVars, envVars, genVars,
     memVars, PhaseInv, SnapInv, FreshInv, MediaInv, LoadInv, AgreeInv, BaseInv, LiveInv,
     WalkInv, CandInv, Settled, Coherent, LiveIs, Target, Gen
<1>7. CASE PlanProjections
  BY <1>7, <1>t, PlanIs
     DEF PlanProjections, Goto, Fail, End, SameInputs, genVars, diskVars, memVars, envVars,
        PhaseInv, SnapInv, FreshInv, MediaInv, LoadInv, AgreeInv, BaseInv, LiveInv, WalkInv,
        CandInv, Settled, Coherent, LiveIs, Target, Gen
<1>8. CASE OwnershipFence
  BY <1>8, <1>t DEF End, Fail, Fence, Goto, NoWork, OwnershipFence, diskVars, envVars, genVars,
     memVars, PhaseInv, SnapInv, FreshInv, MediaInv, LoadInv, AgreeInv, BaseInv, LiveInv,
     WalkInv, CandInv, Settled, Coherent, LiveIs, Target, Gen
<1>9. CASE WriteOwnership
  <2>1. CASE Interrupted
    <3>1. /\ journal'.phase = journal.phase /\ SameInputs(journal, journal')
        /\ journal'.before = journal.before /\ journal'.verified = journal.verified
        /\ journal'.published = {Gen}
      BY <2>1, <1>t, PublishedIs DEF Interrupted
    <3> QED
      BY <1>9, <1>t, <2>1, <3>1
         DEF WriteOwnership, Interrupted, End, SameInputs, genVars, diskVars, memVars, envVars,
            PhaseInv, SnapInv, FreshInv, MediaInv, LoadInv, AgreeInv, BaseInv, LiveInv, WalkInv,
            CandInv, Settled, Coherent, LiveIs, Target, Gen
  <2>2. CASE ~ Interrupted
    BY <1>9, <2>2, <1>t
       DEF WriteOwnership, Goto, genVars, diskVars, memVars, envVars, PhaseInv, SnapInv, FreshInv,
          MediaInv, LoadInv, AgreeInv, BaseInv, LiveInv, WalkInv, CandInv, Settled, Coherent,
          LiveIs, Target, Gen
  <2> QED
    BY <2>1, <2>2
<1>10. CASE PhaseOwnership
  <2>1. /\ journal'.phase = PlaylistOwnershipPublished /\ SameInputs(journal, journal')
        /\ journal'.before = journal.before /\ journal'.verified = journal.verified
        /\ journal'.published = journal.published
    BY <1>10, <1>t, PhaseIs DEF PhaseOwnership, SameRecords
  <2> QED
    BY <1>10, <1>t, <2>1
       DEF PhaseOwnership, Goto, SameInputs, genVars, diskVars, memVars, envVars, PhaseInv, SnapInv,
          FreshInv, MediaInv, LoadInv, AgreeInv, BaseInv, LiveInv, WalkInv, CandInv, Settled,
          Coherent, LiveIs, Target, Gen
<1>11. CASE RecordOwnership
  <2>1. /\ journal'.phase = journal.phase /\ SameInputs(journal, journal')
        /\ journal'.before = journal.before /\ journal'.verified = {Gen} /\ journal'.published = {}
    BY <1>11, <1>t, RecordIs DEF RecordOwnership
  <2> QED
    BY <1>11, <1>t, <2>1
       DEF RecordOwnership, Goto, SameInputs, genVars, diskVars, memVars, envVars, PhaseInv,
          SnapInv, FreshInv, MediaInv, LoadInv, AgreeInv, BaseInv, LiveInv, WalkInv, CandInv,
          Settled, Coherent, LiveIs, Target, Gen
<1>12. CASE ProjectionFence
  BY <1>12, <1>t DEF End, Fail, Fence, Goto, NoWork, ProjectionFence, diskVars, envVars,
     genVars, memVars, PhaseInv, SnapInv, FreshInv, MediaInv, LoadInv, AgreeInv, BaseInv,
     LiveInv, WalkInv, CandInv, Settled, Coherent, LiveIs, Target, Gen
<1>13. CASE WriteProjection
  <2>1. CASE Interrupted
    <3>1. /\ journal'.phase = journal.phase /\ SameInputs(journal, journal')
        /\ journal'.before = journal.before /\ journal'.verified = journal.verified
        /\ journal'.published = {Gen}
      BY <2>1, <1>t, PublishedIs DEF Interrupted
    <3> QED
      BY <1>13, <1>t, <2>1, <3>1
         DEF WriteProjection, Interrupted, End, SameInputs, genVars, diskVars, memVars, envVars,
            PhaseInv, SnapInv, FreshInv, MediaInv, LoadInv, AgreeInv, BaseInv, LiveInv, WalkInv,
            CandInv, Settled, Coherent, LiveIs, Target, Gen
  <2>2. CASE ~ Interrupted
    BY <1>13, <2>2, <1>t
       DEF WriteProjection, Goto, genVars, diskVars, memVars, envVars, PhaseInv, SnapInv, FreshInv,
          MediaInv, LoadInv, AgreeInv, BaseInv, LiveInv, WalkInv, CandInv, Settled, Coherent,
          LiveIs, Target, Gen
  <2> QED
    BY <2>1, <2>2
<1>14. CASE RemovePrevious
  <2>1. CASE Interrupted
    <3>1. /\ journal'.phase = journal.phase /\ SameInputs(journal, journal')
        /\ journal'.before = journal.before /\ journal'.verified = journal.verified
        /\ journal'.published = {Gen}
      BY <2>1, <1>t, PublishedIs DEF Interrupted
    <3> QED
      BY <1>14, <1>t, <2>1, <3>1
         DEF RemovePrevious, Interrupted, End, SameInputs, genVars, diskVars, memVars, envVars,
            PhaseInv, SnapInv, FreshInv, MediaInv, LoadInv, AgreeInv, BaseInv, LiveInv, WalkInv,
            CandInv, Settled, Coherent, LiveIs, Target, Gen
  <2>2. CASE ~ Interrupted
    BY <1>14, <2>2, <1>t
       DEF RemovePrevious, Goto, genVars, diskVars, memVars, envVars, PhaseInv, SnapInv, FreshInv,
          MediaInv, LoadInv, AgreeInv, BaseInv, LiveInv, WalkInv, CandInv, Settled, Coherent,
          LiveIs, Target, Gen
  <2> QED
    BY <2>1, <2>2
<1>15. CASE PhaseProjection
  <2>1. /\ journal'.phase = RockboxProjectionsPublished /\ SameInputs(journal, journal')
        /\ journal'.before = journal.before /\ journal'.verified = journal.verified
        /\ journal'.published = journal.published
    BY <1>15, <1>t, PhaseIs DEF PhaseProjection, SameRecords
  <2> QED
    BY <1>15, <1>t, <2>1
       DEF PhaseProjection, Goto, SameInputs, genVars, diskVars, memVars, envVars, PhaseInv,
          SnapInv, FreshInv, MediaInv, LoadInv, AgreeInv, BaseInv, LiveInv, WalkInv, CandInv,
          Settled, Coherent, LiveIs, Target, Gen
<1>16. CASE RecordProjection
  <2>1. /\ journal'.phase = journal.phase /\ SameInputs(journal, journal')
        /\ journal'.before = journal.before /\ journal'.verified = {Gen} /\ journal'.published = {}
    BY <1>16, <1>t, RecordIs DEF RecordProjection
  <2> QED
    BY <1>16, <1>t, <2>1
       DEF RecordProjection, Goto, SameInputs, genVars, diskVars, memVars, envVars, PhaseInv,
          SnapInv, FreshInv, MediaInv, LoadInv, AgreeInv, BaseInv, LiveInv, WalkInv, CandInv,
          Settled, Coherent, LiveIs, Target, Gen
<1>17. CASE AuthorityFence
  BY <1>17, <1>t DEF AuthorityFence, End, Fail, Fence, Goto, NoWork, diskVars, envVars, genVars,
     memVars, PhaseInv, SnapInv, FreshInv, MediaInv, LoadInv, AgreeInv, BaseInv, LiveInv,
     WalkInv, CandInv, Settled, Coherent, LiveIs, Target, Gen
<1>18. CASE WriteAuthority
  BY <1>18, <1>t DEF Goto, WriteAuthority, diskVars, envVars, memVars, PhaseInv, SnapInv,
     FreshInv, MediaInv, LoadInv, AgreeInv, BaseInv, LiveInv, WalkInv, CandInv, Settled,
     Coherent, LiveIs, Target, Gen
<1>19. CASE RecordAuthority
  <2>1. /\ journal'.phase = journal.phase /\ SameInputs(journal, journal')
        /\ journal'.before = journal.before /\ journal'.verified = {Gen} /\ journal'.published = {}
    BY <1>19, <1>t, RecordIs DEF RecordAuthority
  <2> QED
    BY <1>19, <1>t, <2>1
       DEF RecordAuthority, Goto, SameInputs, genVars, diskVars, memVars, envVars, PhaseInv,
          SnapInv, FreshInv, MediaInv, LoadInv, AgreeInv, BaseInv, LiveInv, WalkInv, CandInv,
          Settled, Coherent, LiveIs, Target, Gen
<1> QED
  BY <1>1, <1>2, <1>3, <1>4, <1>5, <1>6, <1>7, <1>8, <1>9, <1>10, <1>11, <1>12, <1>13, <1>14,
     <1>15, <1>16, <1>17, <1>18, <1>19 DEF Finalize

\* Removing what a closed journal leaves keeps the candidate manifest what the
\* candidate database holds.
LEMMA CandCleanup == Typed /\ IInv /\ LoadInv /\ AgreeInv /\ Cleanup => CandInv'
<1> SUFFICES ASSUME Typed, IInv, LoadInv, AgreeInv, Cleanup PROVE CandInv'
  OBVIOUS
<1>t. journal \in Journals /\ snap \in Snapshots /\ pc \in Points
  BY DEF Typed
<1>1. CASE CleanStaged
  BY <1>1, <1>t DEF CleanStaged, Goto, Unreferenced, envVars, genVars, memVars, PhaseInv,
     SnapInv, FreshInv, MediaInv, LoadInv, AgreeInv, BaseInv, LiveInv, WalkInv, CandInv,
     Settled, Coherent, LiveIs, Target, Gen
<1>2. CASE RemoveObsolete
  BY <1>2, <1>t DEF Goto, RemoveObsolete, Unreferenced, envVars, genVars, memVars, PhaseInv,
     SnapInv, FreshInv, MediaInv, LoadInv, AgreeInv, BaseInv, LiveInv, WalkInv, CandInv,
     Settled, Coherent, LiveIs, Target, Gen
<1>3. CASE SaveCleanup
  <2>1. /\ journal'.phase = CleanupComplete /\ SameInputs(journal, journal')
        /\ journal'.before = journal.before /\ journal'.verified = journal.verified
        /\ journal'.published = journal.published
    BY <1>3, <1>t, PhaseIs DEF SaveCleanup, SameRecords
  <2> QED
    BY <1>3, <1>t, <2>1
       DEF SaveCleanup, Goto, SameInputs, genVars, diskVars, memVars, envVars, PhaseInv, SnapInv,
          FreshInv, MediaInv, LoadInv, AgreeInv, BaseInv, LiveInv, WalkInv, CandInv, Settled,
          Coherent, LiveIs, Target, Gen
<1>4. CASE RemoveStagedDir
  BY <1>4, <1>t DEF End, Fail, Goto, NoWork, RemoveStagedDir, diskVars, envVars, genVars,
     memVars, PhaseInv, SnapInv, FreshInv, MediaInv, LoadInv, AgreeInv, BaseInv, LiveInv,
     WalkInv, CandInv, Settled, Coherent, LiveIs, Target, Gen
<1>5. CASE RemoveSnapshot
  BY <1>5, <1>t DEF End, Fail, Goto, NoWork, RemoveSnapshot, diskVars, envVars, genVars,
     memVars, PhaseInv, SnapInv, FreshInv, MediaInv, LoadInv, AgreeInv, BaseInv, LiveInv,
     WalkInv, CandInv, Settled, Coherent, LiveIs, Target, Gen
<1>6. CASE EmptySnapshot
  BY <1>6, <1>t DEF EmptySnapshot, Goto, envVars, genVars, memVars, PhaseInv, SnapInv, FreshInv,
     MediaInv, LoadInv, AgreeInv, BaseInv, LiveInv, WalkInv, CandInv, Settled, Coherent, LiveIs,
     Target, Gen
<1>7. CASE RemoveJournal
  BY <1>7, <1>t DEF Goto, NoJournal, NoWork, RemoveJournal, diskVars, envVars, genVars,
     PhaseInv, SnapInv, FreshInv, MediaInv, LoadInv, AgreeInv, BaseInv, LiveInv, WalkInv,
     CandInv, Settled, Coherent, LiveIs, Target, Gen
<1> QED
  BY <1>1, <1>2, <1>3, <1>4, <1>5, <1>6, <1>7 DEF Cleanup

\* Restoring the snapshot keeps the candidate manifest what the candidate
\* database holds.
LEMMA CandRollback == Typed /\ IInv /\ LoadInv /\ AgreeInv /\ Rollback => CandInv'
<1> SUFFICES ASSUME Typed, IInv, LoadInv, AgreeInv, Rollback PROVE CandInv'
  OBVIOUS
<1>t. journal \in Journals /\ snap \in Snapshots /\ pc \in Points
  BY DEF Typed
<1>1. CASE KnownRollback
  BY <1>1, <1>t DEF End, Fail, Goto, KnownRollback, NoWork, diskVars, envVars, genVars, memVars,
     PhaseInv, SnapInv, FreshInv, MediaInv, LoadInv, AgreeInv, BaseInv, LiveInv, WalkInv,
     CandInv, Settled, Coherent, LiveIs, Target, Gen
<1>2. CASE RestoreClear
  BY <1>2, <1>t DEF End, Fail, Goto, NoWork, RestoreClear, diskVars, envVars, genVars, memVars,
     PhaseInv, SnapInv, FreshInv, MediaInv, LoadInv, AgreeInv, BaseInv, LiveInv, WalkInv,
     CandInv, Settled, Coherent, LiveIs, Target, Gen
<1>3. CASE RestoreArtwork
  BY <1>3, <1>t DEF Goto, RestoreArtwork, diskVars, envVars, memVars, PhaseInv, SnapInv,
     FreshInv, MediaInv, LoadInv, AgreeInv, BaseInv, LiveInv, WalkInv, CandInv, Settled,
     Coherent, LiveIs, Target, Gen
<1>4. CASE RestoreDatabase
  BY <1>4, <1>t DEF Goto, RestoreDatabase, diskVars, envVars, memVars, PhaseInv, SnapInv,
     FreshInv, MediaInv, LoadInv, AgreeInv, BaseInv, LiveInv, WalkInv, CandInv, Settled,
     Coherent, LiveIs, Target, Gen
<1>5. CASE \E f \in Tracks : RestoreStaged(f)
  BY <1>5, <1>t DEF Goto, Moved, Preserving, RestoreStaged, Unreferenced, envVars, genVars,
     memVars, PhaseInv, SnapInv, FreshInv, MediaInv, LoadInv, AgreeInv, BaseInv, LiveInv,
     WalkInv, CandInv, Settled, Coherent, LiveIs, Target, Gen
<1>6. CASE ResumeRestored
  BY <1>6, <1>t DEF Goto, Moved, Reset, ResumeRestored, Unreferenced, diskVars, envVars,
     genVars, memVars, PhaseInv, SnapInv, FreshInv, MediaInv, LoadInv, AgreeInv, BaseInv,
     LiveInv, WalkInv, CandInv, Settled, Coherent, LiveIs, Target, Gen
<1>7. CASE UndoneRollback
  BY <1>7, <1>t DEF Goto, Moved, Reset, UndoneRollback, Unreferenced, diskVars, envVars,
     genVars, memVars, PhaseInv, SnapInv, FreshInv, MediaInv, LoadInv, AgreeInv, BaseInv,
     LiveInv, WalkInv, CandInv, Settled, Coherent, LiveIs, Target, Gen
<1>8. CASE MovedBack
  BY <1>8, <1>t DEF Goto, Moved, MovedBack, Unreferenced, diskVars, envVars, genVars, memVars,
     PhaseInv, SnapInv, FreshInv, MediaInv, LoadInv, AgreeInv, BaseInv, LiveInv, WalkInv,
     CandInv, Settled, Coherent, LiveIs, Target, Gen
<1>9. CASE DropStaged
  BY <1>9, <1>t DEF DropStaged, Goto, Preserving, Unreferenced, envVars, genVars, memVars,
     PhaseInv, SnapInv, FreshInv, MediaInv, LoadInv, AgreeInv, BaseInv, LiveInv, WalkInv,
     CandInv, Settled, Coherent, LiveIs, Target, Gen
<1>10. CASE RestoreManifest
  BY <1>10, <1>t DEF End, Fail, Goto, NoWork, RestoreManifest, diskVars, envVars, genVars,
     memVars, PhaseInv, SnapInv, FreshInv, MediaInv, LoadInv, AgreeInv, BaseInv, LiveInv,
     WalkInv, CandInv, Settled, Coherent, LiveIs, Target, Gen
<1>11. CASE FinishRollback
  BY <1>11, <1>t, FinishRecords
     DEF FinishRollback, Restored, Closed, SameInputs, genVars, diskVars, memVars, envVars,
        PhaseInv, SnapInv, FreshInv, MediaInv, LoadInv, AgreeInv, BaseInv, LiveInv, WalkInv,
        CandInv, Settled, Coherent, LiveIs, Target, Gen
<1> QED
  BY <1>1, <1>2, <1>3, <1>4, <1>5, <1>6, <1>7, <1>8, <1>9, <1>10, <1>11 DEF Rollback

\* A step of the environment keeps the candidate manifest what the candidate
\* database holds.
LEMMA CandEnvironment == Typed /\ IInv /\ LoadInv /\ AgreeInv /\ Environment => CandInv'
<1> SUFFICES ASSUME Typed, IInv, LoadInv, AgreeInv, Environment PROVE CandInv'
  OBVIOUS
<1>t. journal \in Journals /\ snap \in Snapshots /\ pc \in Points
  BY DEF Typed
<1>1. CASE ForeignWrite
  BY <1>1, <1>t DEF ForeignWrite, diskVars, memVars, PhaseInv, SnapInv, FreshInv, MediaInv,
     LoadInv, AgreeInv, BaseInv, LiveInv, WalkInv, CandInv, Settled, Coherent, LiveIs, Target,
     Gen
<1>2. CASE FirmwareNormalize
  BY <1>2, <1>t DEF Fault, FirmwareNormalize, diskVars, memVars, PhaseInv, SnapInv, FreshInv,
     MediaInv, LoadInv, AgreeInv, BaseInv, LiveInv, WalkInv, CandInv, Settled, Coherent, LiveIs,
     Target, Gen
<1>3. CASE LoseStaged
  BY <1>3, <1>t DEF Fault, LoseStaged, genVars, memVars, PhaseInv, SnapInv, FreshInv, MediaInv,
     LoadInv, AgreeInv, BaseInv, LiveInv, WalkInv, CandInv, Settled, Coherent, LiveIs, Target,
     Gen
<1>4. CASE Crash
  BY <1>4, <1>t DEF Crash, End, NoWork, genVars, PhaseInv, SnapInv, FreshInv, MediaInv, LoadInv,
     AgreeInv, BaseInv, LiveInv, WalkInv, CandInv, Settled, Coherent, LiveIs, Target, Gen
<1>5. CASE StopAdmission
  BY <1>5, <1>t DEF Goto, StopAdmission, diskVars, envVars, genVars, PhaseInv, SnapInv,
     FreshInv, MediaInv, LoadInv, AgreeInv, BaseInv, LiveInv, WalkInv, CandInv, Settled,
     Coherent, LiveIs, Target, Gen
<1>6. CASE EndSession
  BY <1>6, <1>t DEF End, EndSession, Fail, NoWork, diskVars, envVars, genVars, PhaseInv,
     SnapInv, FreshInv, MediaInv, LoadInv, AgreeInv, BaseInv, LiveInv, WalkInv, CandInv,
     Settled, Coherent, LiveIs, Target, Gen
<1>7. CASE \E w \in Works : BeginSync(w)
  BY <1>7, <1>t DEF BeginSync, diskVars, genVars, PhaseInv, SnapInv, FreshInv, MediaInv,
     LoadInv, AgreeInv, BaseInv, LiveInv, WalkInv, CandInv, Settled, Coherent, LiveIs, Target,
     Gen
<1> QED
  BY <1>1, <1>2, <1>3, <1>4, <1>5, <1>6, <1>7 DEF Environment

\* Acquiring the lease keeps the candidate manifest what the candidate database
\* holds.
LEMMA CandAcquire == Typed /\ IInv /\ LoadInv /\ AgreeInv /\ Acquire => CandInv'
<1> SUFFICES ASSUME Typed, IInv, LoadInv, AgreeInv, Acquire PROVE CandInv'
  OBVIOUS
<1>t. journal \in Journals /\ snap \in Snapshots /\ pc \in Points
  BY DEF Typed
<1>1. CASE Acquire
  BY <1>1, <1>t DEF Acquire, diskVars, envVars, genVars, PhaseInv, SnapInv, FreshInv, MediaInv,
     LoadInv, AgreeInv, BaseInv, LiveInv, WalkInv, CandInv, Settled, Coherent, LiveIs, Target,
     Gen
<1> QED
  BY <1>1

-----------------------------------------------------------------------------
(* From the manifest to the cleanup.                                         *)

\* Recovering the journal a session finds keeps what was published after the
\* manifest agreeing with the database.
LEMMA ForwardRecovery == Typed /\ IInv /\ LoadInv /\ AgreeInv /\ Recovery => ForwardInv'
<1> SUFFICES ASSUME Typed, IInv, LoadInv, AgreeInv, Recovery PROVE ForwardInv'
  OBVIOUS
<1>t. journal \in Journals /\ snap \in Snapshots /\ pc \in Points
  BY DEF Typed
<1>1. CASE RecoverUndone
  BY <1>1, <1>t DEF Goto, RecoverUndone, Undone, diskVars, envVars, genVars, memVars, PhaseInv,
     SnapInv, FreshInv, MediaInv, HeldInv, LoadInv, AgreeInv, SettledInv, BaseInv, LiveInv,
     CandInv, ForwardInv, Settled, Coherent, LiveIs, Target, Gen
<1>2. CASE RecoverStaging
  BY <1>2, <1>t DEF Goto, RecoverStaging, Unreferenced, envVars, genVars, memVars, PhaseInv,
     SnapInv, FreshInv, MediaInv, HeldInv, LoadInv, AgreeInv, SettledInv, BaseInv, LiveInv,
     CandInv, ForwardInv, Settled, Coherent, LiveIs, Target, Gen
<1>3. CASE SaveAbandoned
  BY <1>3, <1>t DEF Abandoned, End, Fail, Goto, NoWork, SaveAbandoned, diskVars, envVars,
     genVars, memVars, PhaseInv, SnapInv, FreshInv, MediaInv, HeldInv, LoadInv, AgreeInv,
     SettledInv, BaseInv, LiveInv, CandInv, ForwardInv, Settled, Coherent, LiveIs, Target, Gen
<1>4. CASE RemoveAbandonedDir
  BY <1>4, <1>t DEF Goto, RemoveAbandonedDir, envVars, genVars, memVars, PhaseInv, SnapInv,
     FreshInv, MediaInv, HeldInv, LoadInv, AgreeInv, SettledInv, BaseInv, LiveInv, CandInv,
     ForwardInv, Settled, Coherent, LiveIs, Target, Gen
<1>5. CASE RecoverFirmware
  BY <1>5, <1>t DEF Goto, RecoverFirmware, Undone, diskVars, envVars, genVars, memVars,
     PhaseInv, SnapInv, FreshInv, MediaInv, HeldInv, LoadInv, AgreeInv, SettledInv, BaseInv,
     LiveInv, CandInv, ForwardInv, Settled, Coherent, LiveIs, Target, Gen
<1>6. CASE RecoverLost
  BY <1>6, <1>t DEF End, Fail, Goto, Lost, NoWork, RecoverLost, diskVars, envVars, genVars,
     memVars, PhaseInv, SnapInv, FreshInv, MediaInv, HeldInv, LoadInv, AgreeInv, SettledInv,
     BaseInv, LiveInv, CandInv, ForwardInv, Settled, Coherent, LiveIs, Target, Gen
<1>7. CASE RecoverPublish
  BY <1>7, <1>t DEF Goto, Lost, RecoverPublish, Undone, diskVars, envVars, genVars, memVars,
     PhaseInv, SnapInv, FreshInv, MediaInv, HeldInv, LoadInv, AgreeInv, SettledInv, BaseInv,
     LiveInv, CandInv, ForwardInv, Settled, Coherent, LiveIs, Target, Gen
<1> QED
  BY <1>1, <1>2, <1>3, <1>4, <1>5, <1>6, <1>7 DEF Recovery

\* Staging and saving albums keeps what was published after the manifest
\* agreeing with the database.
LEMMA ForwardStaged == Typed /\ IInv /\ LoadInv /\ AgreeInv /\ Staged => ForwardInv'
<1> SUFFICES ASSUME Typed, IInv, LoadInv, AgreeInv, Staged PROVE ForwardInv'
  OBVIOUS
<1>t. journal \in Journals /\ snap \in Snapshots /\ pc \in Points
  BY DEF Typed
<1>1. CASE \E f \in Tracks : StageFile(f)
  BY <1>1, <1>t DEF Goto, StageFile, envVars, genVars, memVars, PhaseInv, SnapInv, FreshInv,
     MediaInv, HeldInv, LoadInv, AgreeInv, SettledInv, BaseInv, LiveInv, CandInv, ForwardInv,
     Settled, Coherent, LiveIs, Target, Gen
<1>2. CASE SaveAlbum
  BY <1>2, <1>t DEF Goto, NewJournal, NoJournal, SaveAlbum, diskVars, envVars, genVars, memVars,
     PhaseInv, SnapInv, FreshInv, MediaInv, HeldInv, LoadInv, AgreeInv, SettledInv, BaseInv,
     LiveInv, CandInv, ForwardInv, Settled, Coherent, LiveIs, Target, Gen
<1>3. CASE FinishStaging
  BY <1>3, <1>t DEF FinishStaging, Goto, diskVars, envVars, genVars, memVars, PhaseInv, SnapInv,
     FreshInv, MediaInv, HeldInv, LoadInv, AgreeInv, SettledInv, BaseInv, LiveInv, CandInv,
     ForwardInv, Settled, Coherent, LiveIs, Target, Gen
<1> QED
  BY <1>1, <1>2, <1>3 DEF Staged

\* Publication up to the verified database keeps what was published after the
\* manifest agreeing with the database.
LEMMA ForwardPublish == Typed /\ IInv /\ LoadInv /\ AgreeInv /\ Publish => ForwardInv'
<1> SUFFICES ASSUME Typed, IInv, LoadInv, AgreeInv, Publish PROVE ForwardInv'
  OBVIOUS
<1>t. journal \in Journals /\ snap \in Snapshots /\ pc \in Points
  BY DEF Typed
<1>1. CASE PublishFence
  BY <1>1, <1>t DEF End, Fail, Fence, Goto, NoWork, PublishFence, diskVars, envVars, genVars,
     memVars, PhaseInv, SnapInv, FreshInv, MediaInv, HeldInv, LoadInv, AgreeInv, SettledInv,
     BaseInv, LiveInv, CandInv, ForwardInv, Settled, Coherent, LiveIs, Target, Gen
<1>2. CASE Prepare
  BY <1>2, <1>t, PrepareIs, PrepareFirst
     DEF Prepare, KnownLive, Fail, End, SameInputs, genVars, diskVars, memVars, envVars, PhaseInv,
        SnapInv, FreshInv, MediaInv, HeldInv, LoadInv, AgreeInv, SettledInv, BaseInv, LiveInv,
        CandInv, ForwardInv, Settled, Coherent, LiveIs, Target, Gen
<1>3. CASE PrepareArtwork
  BY <1>3, <1>t DEF End, Fault, Goto, NoWork, PrepareArtwork, diskVars, envVars, genVars,
     memVars, PhaseInv, SnapInv, FreshInv, MediaInv, HeldInv, LoadInv, AgreeInv, SettledInv,
     BaseInv, LiveInv, CandInv, ForwardInv, Settled, Coherent, LiveIs, Target, Gen
<1>4. CASE EnsurePreimage
  BY <1>4, <1>t DEF End, EnsurePreimage, Fail, Goto, NoWork, diskVars, envVars, genVars,
     memVars, PhaseInv, SnapInv, FreshInv, MediaInv, HeldInv, LoadInv, AgreeInv, SettledInv,
     BaseInv, LiveInv, CandInv, ForwardInv, Settled, Coherent, LiveIs, Target, Gen
<1>5. CASE EnsureSnapshot
  BY <1>5, <1>t DEF End, EnsureSnapshot, Fail, Goto, NoWork, diskVars, envVars, genVars,
     memVars, PhaseInv, SnapInv, FreshInv, MediaInv, HeldInv, LoadInv, AgreeInv, SettledInv,
     BaseInv, LiveInv, CandInv, ForwardInv, Settled, Coherent, LiveIs, Target, Gen
<1>6. CASE FillSnapshot
  BY <1>6, <1>t DEF FillSnapshot, Goto, envVars, genVars, memVars, PhaseInv, SnapInv, FreshInv,
     MediaInv, HeldInv, LoadInv, AgreeInv, SettledInv, BaseInv, LiveInv, CandInv, ForwardInv,
     Settled, Coherent, LiveIs, Target, Gen
<1>7. CASE Dispatch
  BY <1>7, <1>t DEF Dispatch, Goto, diskVars, envVars, genVars, memVars, PhaseInv, SnapInv,
     FreshInv, MediaInv, HeldInv, LoadInv, AgreeInv, SettledInv, BaseInv, LiveInv, CandInv,
     ForwardInv, Settled, Coherent, LiveIs, Target, Gen
<1>8. CASE ResumeCandidate
  BY <1>8, <1>t, ResumeIs, ResumeRecords
     DEF ResumeCandidate, SameInputs, genVars, diskVars, memVars, envVars, PhaseInv, SnapInv,
        FreshInv, MediaInv, HeldInv, LoadInv, AgreeInv, SettledInv, BaseInv, LiveInv, CandInv,
        ForwardInv, Settled, Coherent, LiveIs, Target, Gen
<1>9. CASE OpenDatabase
  BY <1>9, <1>t DEF Goto, OpenDatabase, diskVars, envVars, genVars, PhaseInv, SnapInv, FreshInv,
     MediaInv, HeldInv, LoadInv, AgreeInv, SettledInv, BaseInv, LiveInv, CandInv, ForwardInv,
     Settled, Coherent, LiveIs, Target, Gen
<1>10. CASE \E f \in Tracks : ReserveFinal(f)
  BY <1>10, <1>t DEF Goto, ReserveFinal, diskVars, envVars, genVars, PhaseInv, SnapInv,
     FreshInv, MediaInv, HeldInv, LoadInv, AgreeInv, SettledInv, BaseInv, LiveInv, CandInv,
     ForwardInv, Settled, Coherent, LiveIs, Target, Gen
<1>11. CASE MoveStaged
  BY <1>11, <1>t DEF Goto, MoveStaged, envVars, genVars, memVars, PhaseInv, SnapInv, FreshInv,
     MediaInv, HeldInv, LoadInv, AgreeInv, SettledInv, BaseInv, LiveInv, CandInv, ForwardInv,
     Settled, Coherent, LiveIs, Target, Gen
<1>12. CASE RecordAdded
  BY <1>12, <1>t DEF Goto, RecordAdded, diskVars, envVars, genVars, PhaseInv, SnapInv, FreshInv,
     MediaInv, HeldInv, LoadInv, AgreeInv, SettledInv, BaseInv, LiveInv, CandInv, ForwardInv,
     Settled, Coherent, LiveIs, Target, Gen
<1>13. CASE UpdateMetadata
  BY <1>13, <1>t DEF Goto, UpdateMetadata, diskVars, envVars, genVars, PhaseInv, SnapInv,
     FreshInv, MediaInv, HeldInv, LoadInv, AgreeInv, SettledInv, BaseInv, LiveInv, CandInv,
     ForwardInv, Settled, Coherent, LiveIs, Target, Gen
<1>14. CASE ReconcileCandidate
  BY <1>14, <1>t, ReconcileIs
     DEF ReconcileCandidate, SameRecords, genVars, diskVars, memVars, envVars, PhaseInv, SnapInv,
        FreshInv, MediaInv, HeldInv, LoadInv, AgreeInv, SettledInv, BaseInv, LiveInv, CandInv,
        ForwardInv, Settled, Coherent, LiveIs, Target, Gen
<1>15. CASE DatabaseFence
  BY <1>15, <1>t DEF DatabaseFence, End, Fail, Fence, Goto, NoWork, diskVars, envVars, genVars,
     memVars, PhaseInv, SnapInv, FreshInv, MediaInv, HeldInv, LoadInv, AgreeInv, SettledInv,
     BaseInv, LiveInv, CandInv, ForwardInv, Settled, Coherent, LiveIs, Target, Gen
<1>16. CASE ClearArtwork
  BY <1>16, <1>t DEF ClearArtwork, Goto, diskVars, envVars, memVars, PhaseInv, SnapInv,
     FreshInv, MediaInv, HeldInv, LoadInv, AgreeInv, SettledInv, BaseInv, LiveInv, CandInv,
     ForwardInv, Settled, Coherent, LiveIs, Target, Gen
<1>17. CASE WriteArtwork
  BY <1>17, <1>t DEF Fault, Goto, RecordPublished, WriteArtwork, WriteFault, diskVars, envVars,
     genVars, memVars, PhaseInv, SnapInv, FreshInv, MediaInv, HeldInv, LoadInv, AgreeInv,
     SettledInv, BaseInv, LiveInv, CandInv, ForwardInv, Settled, Coherent, LiveIs, Target, Gen
<1>18. CASE WriteDatabase
  BY <1>18, <1>t DEF Fault, Goto, RecordPublished, WriteDatabase, WriteFault, diskVars, envVars,
     genVars, memVars, PhaseInv, SnapInv, FreshInv, MediaInv, HeldInv, LoadInv, AgreeInv,
     SettledInv, BaseInv, LiveInv, CandInv, ForwardInv, Settled, Coherent, LiveIs, Target, Gen
<1>19. CASE RecordWritten
  BY <1>19, <1>t DEF Goto, RecordPublished, RecordWritten, diskVars, envVars, genVars, memVars,
     PhaseInv, SnapInv, FreshInv, MediaInv, HeldInv, LoadInv, AgreeInv, SettledInv, BaseInv,
     LiveInv, CandInv, ForwardInv, Settled, Coherent, LiveIs, Target, Gen
<1>20. CASE VerifyWritten
  BY <1>20, <1>t, VerifyIs, VerifyRecords
     DEF VerifyWritten, SameInputs, genVars, diskVars, memVars, envVars, PhaseInv, SnapInv,
        FreshInv, MediaInv, HeldInv, LoadInv, AgreeInv, SettledInv, BaseInv, LiveInv, CandInv,
        ForwardInv, Settled, Coherent, LiveIs, Target, Gen
<1> QED
  BY <1>1, <1>2, <1>3, <1>4, <1>5, <1>6, <1>7, <1>8, <1>9, <1>10, <1>11, <1>12, <1>13, <1>14,
     <1>15, <1>16, <1>17, <1>18, <1>19, <1>20 DEF Publish

\* Publication after the verified database keeps what was published after the
\* manifest agreeing with the database.
LEMMA ForwardFinalize == Typed /\ IInv /\ LoadInv /\ AgreeInv /\ Finalize => ForwardInv'
<1> SUFFICES ASSUME Typed, IInv, LoadInv, AgreeInv, Finalize PROVE ForwardInv'
  OBVIOUS
<1>t. journal \in Journals /\ snap \in Snapshots /\ pc \in Points
  BY DEF Typed
<1>1. CASE CheckVerified
  BY <1>1, <1>t DEF CheckVerified, Fault, Goto, Mismatch, diskVars, envVars, genVars, memVars,
     PhaseInv, SnapInv, FreshInv, MediaInv, HeldInv, LoadInv, AgreeInv, SettledInv, BaseInv,
     LiveInv, CandInv, ForwardInv, Settled, Coherent, LiveIs, Target, Gen
<1>2. CASE ManifestFence
  BY <1>2, <1>t DEF End, Fail, Fence, Goto, ManifestFence, NoWork, diskVars, envVars, genVars,
     memVars, PhaseInv, SnapInv, FreshInv, MediaInv, HeldInv, LoadInv, AgreeInv, SettledInv,
     BaseInv, LiveInv, CandInv, ForwardInv, Settled, Coherent, LiveIs, Target, Gen
<1>3. CASE WriteManifest
  BY <1>3, <1>t DEF Fault, Goto, WriteManifest, diskVars, envVars, genVars, memVars, PhaseInv,
     SnapInv, FreshInv, MediaInv, HeldInv, LoadInv, AgreeInv, SettledInv, BaseInv, LiveInv,
     CandInv, ForwardInv, Settled, Coherent, LiveIs, Target, Gen
<1>4. CASE RecordManifest
  <2>1. /\ journal'.phase = DeviceManifestPublished /\ SameInputs(journal, journal')
        /\ pc = "manrecord" /\ pc' = (IF journal.own = {} THEN "authfence" ELSE "planfence")
        /\ UNCHANGED <<genVars, diskVars>>
    BY <1>4, <1>t, ManifestIs DEF RecordManifest, Goto
  <2>2. journal.phase = DatabaseVerified /\ journal.before # {} /\ manifest.tracks = db.tracks
    BY <2>1 DEF PhaseInv, FreshInv, AgreeInv, CandInv
  <2>3. CandidateHeld /\ PlaylistsHeld
    BY <2>1, LiveIsHeld DEF HeldInv
  <2>4. PICK b \in journal.before : TRUE
    BY <2>2
  <2>5. /\ db.tracks = Target(b) /\ Coherent(b) /\ owner = b.own /\ boxes = b.box
        /\ media \subseteq b.db.tracks \cup journal.final
        /\ db.lists \in {b.db.lists} \cup journal.own
        /\ journal.final \subseteq journal.staged
    BY <2>2, <2>3, HeldExact DEF AgreeInv, BaseInv, LiveInv, CandInv, FreshInv
  <2>6. media \subseteq db.tracks \cup journal.obsolete
    BY <2>5 DEF Target
  <2>7. journal.own = {} => owner = db.lists /\ boxes = Projection(owner)
    BY <2>5 DEF Coherent
  <2> QED
    BY <2>1, <2>2, <2>3, <2>6, <2>7 DEF ForwardInv, SameInputs, PlaylistsHeld, genVars, diskVars
<1>5. CASE Reverify
  BY <1>5, <1>t, ResumedIs
     DEF Reverify, StillHeld, Mismatch, Fault, Goto, genVars, diskVars, memVars, envVars, PhaseInv,
        SnapInv, FreshInv, MediaInv, HeldInv, LoadInv, AgreeInv, SettledInv, BaseInv, LiveInv,
        CandInv, ForwardInv, Settled, Coherent, LiveIs, Target, Gen
<1>6. CASE PlanFence
  BY <1>6, <1>t DEF End, Fail, Fence, Goto, NoWork, PlanFence, diskVars, envVars, genVars,
     memVars, PhaseInv, SnapInv, FreshInv, MediaInv, HeldInv, LoadInv, AgreeInv, SettledInv,
     BaseInv, LiveInv, CandInv, ForwardInv, Settled, Coherent, LiveIs, Target, Gen
<1>7. CASE PlanProjections
  BY <1>7, <1>t, PlanIs
     DEF PlanProjections, Goto, Fail, End, SameInputs, genVars, diskVars, memVars, envVars,
        PhaseInv, SnapInv, FreshInv, MediaInv, HeldInv, LoadInv, AgreeInv, SettledInv, BaseInv,
        LiveInv, CandInv, ForwardInv, Settled, Coherent, LiveIs, Target, Gen
<1>8. CASE OwnershipFence
  BY <1>8, <1>t DEF End, Fail, Fence, Goto, NoWork, OwnershipFence, diskVars, envVars, genVars,
     memVars, PhaseInv, SnapInv, FreshInv, MediaInv, HeldInv, LoadInv, AgreeInv, SettledInv,
     BaseInv, LiveInv, CandInv, ForwardInv, Settled, Coherent, LiveIs, Target, Gen
<1>9. CASE WriteOwnership
  <2>1. CASE Interrupted
    <3>1. /\ journal'.phase = journal.phase /\ SameInputs(journal, journal')
        /\ journal'.before = journal.before /\ journal'.verified = journal.verified
        /\ journal'.published = {Gen}
      BY <2>1, <1>t, PublishedIs DEF Interrupted
    <3> QED
      BY <1>9, <1>t, <2>1, <3>1
         DEF WriteOwnership, Interrupted, End, SameInputs, genVars, diskVars, memVars, envVars,
            PhaseInv, SnapInv, FreshInv, MediaInv, HeldInv, LoadInv, AgreeInv, SettledInv, BaseInv,
            LiveInv, CandInv, ForwardInv, Settled, Coherent, LiveIs, Target, Gen
  <2>2. CASE ~ Interrupted
    BY <1>9, <2>2, <1>t
       DEF WriteOwnership, Goto, genVars, diskVars, memVars, envVars, PhaseInv, SnapInv, FreshInv,
          MediaInv, HeldInv, LoadInv, AgreeInv, SettledInv, BaseInv, LiveInv, CandInv, ForwardInv,
          Settled, Coherent, LiveIs, Target, Gen
  <2> QED
    BY <2>1, <2>2
<1>10. CASE PhaseOwnership
  <2>1. /\ journal'.phase = PlaylistOwnershipPublished /\ SameInputs(journal, journal')
        /\ journal'.before = journal.before /\ journal'.verified = journal.verified
        /\ journal'.published = journal.published
    BY <1>10, <1>t, PhaseIs DEF PhaseOwnership, SameRecords
  <2> QED
    BY <1>10, <1>t, <2>1
       DEF PhaseOwnership, Goto, SameInputs, genVars, diskVars, memVars, envVars, PhaseInv, SnapInv,
          FreshInv, MediaInv, HeldInv, LoadInv, AgreeInv, SettledInv, BaseInv, LiveInv, CandInv,
          ForwardInv, Settled, Coherent, LiveIs, Target, Gen
<1>11. CASE RecordOwnership
  <2>1. /\ journal'.phase = journal.phase /\ SameInputs(journal, journal')
        /\ journal'.before = journal.before /\ journal'.verified = {Gen} /\ journal'.published = {}
    BY <1>11, <1>t, RecordIs DEF RecordOwnership
  <2> QED
    BY <1>11, <1>t, <2>1
       DEF RecordOwnership, Goto, SameInputs, genVars, diskVars, memVars, envVars, PhaseInv,
          SnapInv, FreshInv, MediaInv, HeldInv, LoadInv, AgreeInv, SettledInv, BaseInv, LiveInv,
          CandInv, ForwardInv, Settled, Coherent, LiveIs, Target, Gen
<1>12. CASE ProjectionFence
  BY <1>12, <1>t DEF End, Fail, Fence, Goto, NoWork, ProjectionFence, diskVars, envVars,
     genVars, memVars, PhaseInv, SnapInv, FreshInv, MediaInv, HeldInv, LoadInv, AgreeInv,
     SettledInv, BaseInv, LiveInv, CandInv, ForwardInv, Settled, Coherent, LiveIs, Target, Gen
<1>13. CASE WriteProjection
  <2>1. CASE Interrupted
    <3>1. /\ journal'.phase = journal.phase /\ SameInputs(journal, journal')
      BY <2>1, <1>t, PublishedIs DEF Interrupted
    <3> QED
      BY <1>13, <2>1, <3>1
         DEF WriteProjection, Interrupted, End, SameInputs, genVars, diskVars, memVars, envVars,
            AgreeInv, ForwardInv
  <2>2. CASE ~ Interrupted
    <3>1. /\ pc = "boxwrite" /\ journal.phase \in ForwardPhases
          /\ journal.own = {db.lists} /\ owner = db.lists
          /\ UNION {Projection(v) : v \in journal.own} = Projection(owner)
      BY <1>13 DEF WriteProjection, AgreeInv, ForwardInv, LoadInv, PhaseInv
    <3> QED
      BY <1>13, <2>2, <3>1
         DEF WriteProjection, Goto, genVars, diskVars, memVars, envVars, AgreeInv, ForwardInv
  <2> QED
    BY <2>1, <2>2
<1>14. CASE RemovePrevious
  <2>1. CASE Interrupted
    <3>1. /\ journal'.phase = journal.phase /\ SameInputs(journal, journal')
      BY <2>1, <1>t, PublishedIs DEF Interrupted
    <3> QED
      BY <1>14, <2>1, <3>1
         DEF RemovePrevious, Interrupted, End, SameInputs, genVars, diskVars, memVars, envVars,
            AgreeInv, ForwardInv
  <2>2. CASE ~ Interrupted
    <3>1. /\ pc = "boxremove" /\ journal.phase \in ForwardPhases
          /\ journal.own = {db.lists} /\ owner = db.lists
          /\ UNION {Projection(v) : v \in journal.own} = Projection(owner)
      BY <1>14 DEF RemovePrevious, AgreeInv, ForwardInv, LoadInv, PhaseInv
    <3> QED
      BY <1>14, <2>2, <3>1
         DEF RemovePrevious, Goto, genVars, diskVars, memVars, envVars, AgreeInv, ForwardInv
  <2> QED
    BY <2>1, <2>2
<1>15. CASE PhaseProjection
  <2>1. /\ journal'.phase = RockboxProjectionsPublished /\ SameInputs(journal, journal')
        /\ journal'.before = journal.before /\ journal'.verified = journal.verified
        /\ journal'.published = journal.published
    BY <1>15, <1>t, PhaseIs DEF PhaseProjection, SameRecords
  <2> QED
    BY <1>15, <1>t, <2>1
       DEF PhaseProjection, Goto, SameInputs, genVars, diskVars, memVars, envVars, PhaseInv,
          SnapInv, FreshInv, MediaInv, HeldInv, LoadInv, AgreeInv, SettledInv, BaseInv, LiveInv,
          CandInv, ForwardInv, Settled, Coherent, LiveIs, Target, Gen
<1>16. CASE RecordProjection
  <2>1. /\ journal'.phase = journal.phase /\ SameInputs(journal, journal')
        /\ journal'.before = journal.before /\ journal'.verified = {Gen} /\ journal'.published = {}
    BY <1>16, <1>t, RecordIs DEF RecordProjection
  <2> QED
    BY <1>16, <1>t, <2>1
       DEF RecordProjection, Goto, SameInputs, genVars, diskVars, memVars, envVars, PhaseInv,
          SnapInv, FreshInv, MediaInv, HeldInv, LoadInv, AgreeInv, SettledInv, BaseInv, LiveInv,
          CandInv, ForwardInv, Settled, Coherent, LiveIs, Target, Gen
<1>17. CASE AuthorityFence
  BY <1>17, <1>t DEF AuthorityFence, End, Fail, Fence, Goto, NoWork, diskVars, envVars, genVars,
     memVars, PhaseInv, SnapInv, FreshInv, MediaInv, HeldInv, LoadInv, AgreeInv, SettledInv,
     BaseInv, LiveInv, CandInv, ForwardInv, Settled, Coherent, LiveIs, Target, Gen
<1>18. CASE WriteAuthority
  BY <1>18, <1>t DEF Goto, WriteAuthority, diskVars, envVars, memVars, PhaseInv, SnapInv,
     FreshInv, MediaInv, HeldInv, LoadInv, AgreeInv, SettledInv, BaseInv, LiveInv, CandInv,
     ForwardInv, Settled, Coherent, LiveIs, Target, Gen
<1>19. CASE RecordAuthority
  <2>1. /\ journal'.phase = journal.phase /\ SameInputs(journal, journal')
        /\ journal'.before = journal.before /\ journal'.verified = {Gen} /\ journal'.published = {}
    BY <1>19, <1>t, RecordIs DEF RecordAuthority
  <2> QED
    BY <1>19, <1>t, <2>1
       DEF RecordAuthority, Goto, SameInputs, genVars, diskVars, memVars, envVars, PhaseInv,
          SnapInv, FreshInv, MediaInv, HeldInv, LoadInv, AgreeInv, SettledInv, BaseInv, LiveInv,
          CandInv, ForwardInv, Settled, Coherent, LiveIs, Target, Gen
<1> QED
  BY <1>1, <1>2, <1>3, <1>4, <1>5, <1>6, <1>7, <1>8, <1>9, <1>10, <1>11, <1>12, <1>13, <1>14,
     <1>15, <1>16, <1>17, <1>18, <1>19 DEF Finalize

\* Removing what a closed journal leaves keeps what was published after the
\* manifest agreeing with the database.
LEMMA ForwardCleanup == Typed /\ IInv /\ LoadInv /\ AgreeInv /\ Cleanup => ForwardInv'
<1> SUFFICES ASSUME Typed, IInv, LoadInv, AgreeInv, Cleanup PROVE ForwardInv'
  OBVIOUS
<1>t. journal \in Journals /\ snap \in Snapshots /\ pc \in Points
  BY DEF Typed
<1>1. CASE CleanStaged
  BY <1>1, <1>t DEF CleanStaged, Goto, Unreferenced, envVars, genVars, memVars, PhaseInv,
     SnapInv, FreshInv, MediaInv, HeldInv, LoadInv, AgreeInv, SettledInv, BaseInv, LiveInv,
     CandInv, ForwardInv, Settled, Coherent, LiveIs, Target, Gen
<1>2. CASE RemoveObsolete
  BY <1>2, <1>t DEF Goto, RemoveObsolete, Unreferenced, envVars, genVars, memVars, PhaseInv,
     SnapInv, FreshInv, MediaInv, HeldInv, LoadInv, AgreeInv, SettledInv, BaseInv, LiveInv,
     CandInv, ForwardInv, Settled, Coherent, LiveIs, Target, Gen
<1>3. CASE SaveCleanup
  <2>1. /\ journal'.phase = CleanupComplete /\ SameInputs(journal, journal')
        /\ journal'.before = journal.before /\ journal'.verified = journal.verified
        /\ journal'.published = journal.published
    BY <1>3, <1>t, PhaseIs DEF SaveCleanup, SameRecords
  <2> QED
    BY <1>3, <1>t, <2>1
       DEF SaveCleanup, Goto, SameInputs, genVars, diskVars, memVars, envVars, PhaseInv, SnapInv,
          FreshInv, MediaInv, HeldInv, LoadInv, AgreeInv, SettledInv, BaseInv, LiveInv, CandInv,
          ForwardInv, Settled, Coherent, LiveIs, Target, Gen
<1>4. CASE RemoveStagedDir
  BY <1>4, <1>t DEF End, Fail, Goto, NoWork, RemoveStagedDir, diskVars, envVars, genVars,
     memVars, PhaseInv, SnapInv, FreshInv, MediaInv, HeldInv, LoadInv, AgreeInv, SettledInv,
     BaseInv, LiveInv, CandInv, ForwardInv, Settled, Coherent, LiveIs, Target, Gen
<1>5. CASE RemoveSnapshot
  BY <1>5, <1>t DEF End, Fail, Goto, NoWork, RemoveSnapshot, diskVars, envVars, genVars,
     memVars, PhaseInv, SnapInv, FreshInv, MediaInv, HeldInv, LoadInv, AgreeInv, SettledInv,
     BaseInv, LiveInv, CandInv, ForwardInv, Settled, Coherent, LiveIs, Target, Gen
<1>6. CASE EmptySnapshot
  BY <1>6, <1>t DEF EmptySnapshot, Goto, envVars, genVars, memVars, PhaseInv, SnapInv, FreshInv,
     MediaInv, HeldInv, LoadInv, AgreeInv, SettledInv, BaseInv, LiveInv, CandInv, ForwardInv,
     Settled, Coherent, LiveIs, Target, Gen
<1>7. CASE RemoveJournal
  BY <1>7, <1>t DEF Goto, NoJournal, NoWork, RemoveJournal, diskVars, envVars, genVars,
     PhaseInv, SnapInv, FreshInv, MediaInv, HeldInv, LoadInv, AgreeInv, SettledInv, BaseInv,
     LiveInv, CandInv, ForwardInv, Settled, Coherent, LiveIs, Target, Gen
<1> QED
  BY <1>1, <1>2, <1>3, <1>4, <1>5, <1>6, <1>7 DEF Cleanup

\* Restoring the snapshot keeps what was published after the manifest agreeing
\* with the database.
LEMMA ForwardRollback == Typed /\ IInv /\ LoadInv /\ AgreeInv /\ Rollback => ForwardInv'
<1> SUFFICES ASSUME Typed, IInv, LoadInv, AgreeInv, Rollback PROVE ForwardInv'
  OBVIOUS
<1>t. journal \in Journals /\ snap \in Snapshots /\ pc \in Points
  BY DEF Typed
<1>1. CASE KnownRollback
  BY <1>1, <1>t DEF End, Fail, Goto, KnownRollback, NoWork, diskVars, envVars, genVars, memVars,
     PhaseInv, SnapInv, FreshInv, MediaInv, HeldInv, LoadInv, AgreeInv, SettledInv, BaseInv,
     LiveInv, CandInv, ForwardInv, Settled, Coherent, LiveIs, Target, Gen
<1>2. CASE RestoreClear
  BY <1>2, <1>t DEF End, Fail, Goto, NoWork, RestoreClear, diskVars, envVars, genVars, memVars,
     PhaseInv, SnapInv, FreshInv, MediaInv, HeldInv, LoadInv, AgreeInv, SettledInv, BaseInv,
     LiveInv, CandInv, ForwardInv, Settled, Coherent, LiveIs, Target, Gen
<1>3. CASE RestoreArtwork
  BY <1>3, <1>t DEF Goto, RestoreArtwork, diskVars, envVars, memVars, PhaseInv, SnapInv,
     FreshInv, MediaInv, HeldInv, LoadInv, AgreeInv, SettledInv, BaseInv, LiveInv, CandInv,
     ForwardInv, Settled, Coherent, LiveIs, Target, Gen
<1>4. CASE RestoreDatabase
  BY <1>4, <1>t DEF Goto, RestoreDatabase, diskVars, envVars, memVars, PhaseInv, SnapInv,
     FreshInv, MediaInv, HeldInv, LoadInv, AgreeInv, SettledInv, BaseInv, LiveInv, CandInv,
     ForwardInv, Settled, Coherent, LiveIs, Target, Gen
<1>5. CASE \E f \in Tracks : RestoreStaged(f)
  BY <1>5, <1>t DEF Goto, Moved, Preserving, RestoreStaged, Unreferenced, envVars, genVars,
     memVars, PhaseInv, SnapInv, FreshInv, MediaInv, HeldInv, LoadInv, AgreeInv, SettledInv,
     BaseInv, LiveInv, CandInv, ForwardInv, Settled, Coherent, LiveIs, Target, Gen
<1>6. CASE ResumeRestored
  BY <1>6, <1>t DEF Goto, Moved, Reset, ResumeRestored, Unreferenced, diskVars, envVars,
     genVars, memVars, PhaseInv, SnapInv, FreshInv, MediaInv, HeldInv, LoadInv, AgreeInv,
     SettledInv, BaseInv, LiveInv, CandInv, ForwardInv, Settled, Coherent, LiveIs, Target, Gen
<1>7. CASE UndoneRollback
  BY <1>7, <1>t DEF Goto, Moved, Reset, UndoneRollback, Unreferenced, diskVars, envVars,
     genVars, memVars, PhaseInv, SnapInv, FreshInv, MediaInv, HeldInv, LoadInv, AgreeInv,
     SettledInv, BaseInv, LiveInv, CandInv, ForwardInv, Settled, Coherent, LiveIs, Target, Gen
<1>8. CASE MovedBack
  BY <1>8, <1>t DEF Goto, Moved, MovedBack, Unreferenced, diskVars, envVars, genVars, memVars,
     PhaseInv, SnapInv, FreshInv, MediaInv, HeldInv, LoadInv, AgreeInv, SettledInv, BaseInv,
     LiveInv, CandInv, ForwardInv, Settled, Coherent, LiveIs, Target, Gen
<1>9. CASE DropStaged
  BY <1>9, <1>t DEF DropStaged, Goto, Preserving, Unreferenced, envVars, genVars, memVars,
     PhaseInv, SnapInv, FreshInv, MediaInv, HeldInv, LoadInv, AgreeInv, SettledInv, BaseInv,
     LiveInv, CandInv, ForwardInv, Settled, Coherent, LiveIs, Target, Gen
<1>10. CASE RestoreManifest
  BY <1>10, <1>t DEF End, Fail, Goto, NoWork, RestoreManifest, diskVars, envVars, genVars,
     memVars, PhaseInv, SnapInv, FreshInv, MediaInv, HeldInv, LoadInv, AgreeInv, SettledInv,
     BaseInv, LiveInv, CandInv, ForwardInv, Settled, Coherent, LiveIs, Target, Gen
<1>11. CASE FinishRollback
  BY <1>11, <1>t, FinishRecords
     DEF FinishRollback, Restored, Closed, SameInputs, genVars, diskVars, memVars, envVars,
        PhaseInv, SnapInv, FreshInv, MediaInv, HeldInv, LoadInv, AgreeInv, SettledInv, BaseInv,
        LiveInv, CandInv, ForwardInv, Settled, Coherent, LiveIs, Target, Gen
<1> QED
  BY <1>1, <1>2, <1>3, <1>4, <1>5, <1>6, <1>7, <1>8, <1>9, <1>10, <1>11 DEF Rollback

\* A step of the environment keeps what was published after the manifest
\* agreeing with the database.
LEMMA ForwardEnvironment == Typed /\ IInv /\ LoadInv /\ AgreeInv /\ Environment => ForwardInv'
<1> SUFFICES ASSUME Typed, IInv, LoadInv, AgreeInv, Environment PROVE ForwardInv'
  OBVIOUS
<1>t. journal \in Journals /\ snap \in Snapshots /\ pc \in Points
  BY DEF Typed
<1>1. CASE ForeignWrite
  BY <1>1, <1>t DEF ForeignWrite, diskVars, memVars, PhaseInv, SnapInv, FreshInv, MediaInv,
     HeldInv, LoadInv, AgreeInv, SettledInv, BaseInv, LiveInv, CandInv, ForwardInv, Settled,
     Coherent, LiveIs, Target, Gen
<1>2. CASE FirmwareNormalize
  BY <1>2, <1>t DEF Fault, FirmwareNormalize, diskVars, memVars, PhaseInv, SnapInv, FreshInv,
     MediaInv, HeldInv, LoadInv, AgreeInv, SettledInv, BaseInv, LiveInv, CandInv, ForwardInv,
     Settled, Coherent, LiveIs, Target, Gen
<1>3. CASE LoseStaged
  BY <1>3, <1>t DEF Fault, LoseStaged, genVars, memVars, PhaseInv, SnapInv, FreshInv, MediaInv,
     HeldInv, LoadInv, AgreeInv, SettledInv, BaseInv, LiveInv, CandInv, ForwardInv, Settled,
     Coherent, LiveIs, Target, Gen
<1>4. CASE Crash
  BY <1>4, <1>t DEF Crash, End, NoWork, genVars, PhaseInv, SnapInv, FreshInv, MediaInv, HeldInv,
     LoadInv, AgreeInv, SettledInv, BaseInv, LiveInv, CandInv, ForwardInv, Settled, Coherent,
     LiveIs, Target, Gen
<1>5. CASE StopAdmission
  BY <1>5, <1>t DEF Goto, StopAdmission, diskVars, envVars, genVars, PhaseInv, SnapInv,
     FreshInv, MediaInv, HeldInv, LoadInv, AgreeInv, SettledInv, BaseInv, LiveInv, CandInv,
     ForwardInv, Settled, Coherent, LiveIs, Target, Gen
<1>6. CASE EndSession
  BY <1>6, <1>t DEF End, EndSession, Fail, NoWork, diskVars, envVars, genVars, PhaseInv,
     SnapInv, FreshInv, MediaInv, HeldInv, LoadInv, AgreeInv, SettledInv, BaseInv, LiveInv,
     CandInv, ForwardInv, Settled, Coherent, LiveIs, Target, Gen
<1>7. CASE \E w \in Works : BeginSync(w)
  BY <1>7, <1>t DEF BeginSync, diskVars, genVars, PhaseInv, SnapInv, FreshInv, MediaInv,
     HeldInv, LoadInv, AgreeInv, SettledInv, BaseInv, LiveInv, CandInv, ForwardInv, Settled,
     Coherent, LiveIs, Target, Gen
<1> QED
  BY <1>1, <1>2, <1>3, <1>4, <1>5, <1>6, <1>7 DEF Environment

\* Acquiring the lease keeps what was published after the manifest agreeing with
\* the database.
LEMMA ForwardAcquire == Typed /\ IInv /\ LoadInv /\ AgreeInv /\ Acquire => ForwardInv'
<1> SUFFICES ASSUME Typed, IInv, LoadInv, AgreeInv, Acquire PROVE ForwardInv'
  OBVIOUS
<1>t. journal \in Journals /\ snap \in Snapshots /\ pc \in Points
  BY DEF Typed
<1>1. CASE Acquire
  BY <1>1, <1>t DEF Acquire, diskVars, envVars, genVars, PhaseInv, SnapInv, FreshInv, MediaInv,
     HeldInv, LoadInv, AgreeInv, SettledInv, BaseInv, LiveInv, CandInv, ForwardInv, Settled,
     Coherent, LiveIs, Target, Gen
<1> QED
  BY <1>1

-----------------------------------------------------------------------------
(* The invariants from the start, and what follows from them.                *)

\* What the device and its first session start from.
LEMMA StartIs ==
  ASSUME Init
  PROVE  /\ journal.phase = Absent /\ pc = "off" /\ pending = {} /\ snap.state = "none"
         /\ media = db.tracks /\ manifest.tracks = db.tracks /\ art = db.tracks
         /\ owner = db.lists /\ boxes = Projection(owner)
         /\ journal.before = {} /\ journal.published = {} /\ journal.verified = {}
         /\ journal.staged = {} /\ journal.obsolete = {} /\ journal.own = {}
         /\ journal.seen = {} /\ ~ journal.plan
  BY DEF Init, NoJournal, Projection

\* A device at rest is settled, and its absent journal would load.
LEMMA AgreeInit == Init => LoadInv /\ AgreeInv
<1> SUFFICES ASSUME Init PROVE LoadInv /\ AgreeInv
  OBVIOUS
<1>1. LoadInv
  BY StartIs DEF LoadInv, Valid
<1>2. SettledInv
  BY StartIs DEF SettledInv, Settled, Coherent, Gen
<1>3. BaseInv /\ LiveInv /\ WalkInv /\ CandInv /\ ForwardInv
  BY StartIs DEF BaseInv, LiveInv, WalkInv, CandInv, ForwardInv
<1> QED
  BY <1>1, <1>2, <1>3 DEF AgreeInv

\* The agreement depends on nothing but the variables.
LEMMA AgreeFrame == LoadInv /\ AgreeInv /\ UNCHANGED vars => LoadInv' /\ AgreeInv'
<1> SUFFICES ASSUME LoadInv, AgreeInv, UNCHANGED vars PROVE LoadInv' /\ AgreeInv'
  OBVIOUS
<1>1. /\ UNCHANGED <<db, art, manifest, owner, boxes, profile>>
      /\ UNCHANGED <<media, pending, snap, journal, mdb, work, want, cur, pc, why>>
  BY DEF vars, genVars, diskVars, memVars
<1>2. LoadInv'
  BY <1>1 DEF LoadInv, Valid
<1>3. SettledInv' /\ ForwardInv'
  BY <1>1 DEF AgreeInv, SettledInv, ForwardInv, Settled, Coherent, Gen
<1>4. BaseInv'
  BY <1>1 DEF AgreeInv, BaseInv, Coherent
<1>5. LiveInv'
  BY <1>1 DEF AgreeInv, LiveInv, LiveIs, Target
<1>6. WalkInv'
  BY <1>1 DEF AgreeInv, WalkInv, Target
<1>7. CandInv'
  BY <1>1 DEF AgreeInv, CandInv, Target
<1> QED
  BY <1>2, <1>3, <1>4, <1>5, <1>6, <1>7 DEF AgreeInv

\* Every step keeps the agreement: the lemmas above, one per group of actions
\* and conjunct.
LEMMA AgreeStep ==
  ASSUME Typed, IInv, LoadInv, AgreeInv, [Next]_vars
  PROVE  LoadInv' /\ AgreeInv'
<1>1. CASE UNCHANGED vars
  BY <1>1, AgreeFrame
<1>2. CASE Next
  <2>1. LoadInv'
    BY <1>2, LoadRecovery, LoadStaged, LoadPublish, LoadFinalize, LoadCleanup, LoadRollback,
       LoadEnvironment, LoadAcquire DEF Next, Session
  <2>2. SettledInv'
    BY <1>2, SettledRecovery, SettledStaged, SettledPublish, SettledFinalize, SettledCleanup,
       SettledRollback, SettledEnvironment, SettledAcquire DEF Next, Session
  <2>3. BaseInv'
    BY <1>2, BaseRecovery, BaseStaged, BasePublish, BaseFinalize, BaseCleanup, BaseRollback,
       BaseEnvironment, BaseAcquire DEF Next, Session
  <2>4. LiveInv'
    BY <1>2, LiveRecovery, LiveStaged, LivePublish, LiveFinalize, LiveCleanup, LiveRollback,
       LiveEnvironment, LiveAcquire DEF Next, Session
  <2>5. WalkInv'
    BY <1>2, WalkRecovery, WalkStaged, WalkPublish, WalkFinalize, WalkCleanup, WalkRollback,
       WalkEnvironment, WalkAcquire DEF Next, Session
  <2>6. CandInv'
    BY <1>2, CandRecovery, CandStaged, CandPublish, CandFinalize, CandCleanup, CandRollback,
       CandEnvironment, CandAcquire DEF Next, Session
  <2>7. ForwardInv'
    BY <1>2, ForwardRecovery, ForwardStaged, ForwardPublish, ForwardFinalize, ForwardCleanup,
       ForwardRollback, ForwardEnvironment, ForwardAcquire DEF Next, Session
  <2> QED
    BY <2>1, <2>2, <2>3, <2>4, <2>5, <2>6, <2>7 DEF AgreeInv
<1> QED
  BY <1>1, <1>2

\* At every step of a publication, a rollback and a recovery, the database,
\* manifest, playlists, Rockbox files and audio are those of the journal's
\* predecessor or those its candidate describes, in the combinations the order
\* of publish_unfenced's writes allows, and the journal is one validate accepts.
THEOREM AgreementHolds == ASSUME CacheWhole PROVE Spec => [](LoadInv /\ AgreeInv)
<1>1. Init => LoadInv /\ AgreeInv
  BY AgreeInit
<1>2. Typed /\ IInv /\ LoadInv /\ AgreeInv /\ [Next]_vars => (LoadInv /\ AgreeInv)'
  BY AgreeStep
<1> QED
  BY <1>1, <1>2, TypedAlways, InvariantHolds, PTL DEF Spec

\* No session saves a journal that validate would refuse, so none leaves one
\* that no later session can discover.
THEOREM JournalLoadsSafe == ASSUME CacheWhole PROVE Spec => []JournalLoads
<1>1. LoadInv => JournalLoads
  BY DEF LoadInv, JournalLoads
<1> QED
  BY <1>1, AgreementHolds, PTL

-----------------------------------------------------------------------------
(* Thumbnails.                                                               *)

\* Recovering the journal a session finds keeps the thumbnails those of the
\* tracks the database names.
LEMMA ArtRecovery ==
  ArtworkKept /\ Typed /\ IInv /\ LoadInv /\ AgreeInv /\ ArtInv /\ Recovery => ArtInv'
<1> SUFFICES ASSUME ArtworkKept, Typed, IInv, LoadInv, AgreeInv, ArtInv, Recovery
             PROVE ArtInv'
  OBVIOUS
<1>t. journal \in Journals /\ snap \in Snapshots /\ pc \in Points
  BY DEF Typed
<1>1. CASE RecoverUndone
  BY <1>1, <1>t DEF Goto, RecoverUndone, Undone, diskVars, envVars, genVars, memVars, PhaseInv,
     SnapInv, FreshInv, AgreeInv, LiveInv, WalkInv, ArtInv, Settled, Coherent, LiveIs, Target,
     Gen
<1>2. CASE RecoverStaging
  BY <1>2, <1>t DEF Goto, RecoverStaging, Unreferenced, envVars, genVars, memVars, PhaseInv,
     SnapInv, FreshInv, AgreeInv, LiveInv, WalkInv, ArtInv, Settled, Coherent, LiveIs, Target,
     Gen
<1>3. CASE SaveAbandoned
  BY <1>3, <1>t DEF Abandoned, End, Fail, Goto, NoWork, SaveAbandoned, diskVars, envVars,
     genVars, memVars, PhaseInv, SnapInv, FreshInv, AgreeInv, LiveInv, WalkInv, ArtInv, Settled,
     Coherent, LiveIs, Target, Gen
<1>4. CASE RemoveAbandonedDir
  BY <1>4, <1>t DEF Goto, RemoveAbandonedDir, envVars, genVars, memVars, PhaseInv, SnapInv,
     FreshInv, AgreeInv, LiveInv, WalkInv, ArtInv, Settled, Coherent, LiveIs, Target, Gen
<1>5. CASE RecoverFirmware
  BY <1>5, <1>t DEF Goto, RecoverFirmware, Undone, diskVars, envVars, genVars, memVars,
     PhaseInv, SnapInv, FreshInv, AgreeInv, LiveInv, WalkInv, ArtInv, Settled, Coherent, LiveIs,
     Target, Gen
<1>6. CASE RecoverLost
  BY <1>6, <1>t DEF End, Fail, Goto, Lost, NoWork, RecoverLost, diskVars, envVars, genVars,
     memVars, PhaseInv, SnapInv, FreshInv, AgreeInv, LiveInv, WalkInv, ArtInv, Settled,
     Coherent, LiveIs, Target, Gen
<1>7. CASE RecoverPublish
  BY <1>7, <1>t DEF Goto, Lost, RecoverPublish, Undone, diskVars, envVars, genVars, memVars,
     PhaseInv, SnapInv, FreshInv, AgreeInv, LiveInv, WalkInv, ArtInv, Settled, Coherent, LiveIs,
     Target, Gen
<1> QED
  BY <1>1, <1>2, <1>3, <1>4, <1>5, <1>6, <1>7 DEF Recovery

\* Staging and saving albums keeps the thumbnails those of the tracks the
\* database names.
LEMMA ArtStaged ==
  ArtworkKept /\ Typed /\ IInv /\ LoadInv /\ AgreeInv /\ ArtInv /\ Staged => ArtInv'
<1> SUFFICES ASSUME ArtworkKept, Typed, IInv, LoadInv, AgreeInv, ArtInv, Staged
             PROVE ArtInv'
  OBVIOUS
<1>t. journal \in Journals /\ snap \in Snapshots /\ pc \in Points
  BY DEF Typed
<1>1. CASE \E f \in Tracks : StageFile(f)
  BY <1>1, <1>t DEF Goto, StageFile, envVars, genVars, memVars, PhaseInv, SnapInv, FreshInv,
     AgreeInv, LiveInv, WalkInv, ArtInv, Settled, Coherent, LiveIs, Target, Gen
<1>2. CASE SaveAlbum
  BY <1>2, <1>t DEF Goto, NewJournal, NoJournal, SaveAlbum, diskVars, envVars, genVars, memVars,
     PhaseInv, SnapInv, FreshInv, AgreeInv, LiveInv, WalkInv, ArtInv, Settled, Coherent, LiveIs,
     Target, Gen
<1>3. CASE FinishStaging
  BY <1>3, <1>t DEF FinishStaging, Goto, diskVars, envVars, genVars, memVars, PhaseInv, SnapInv,
     FreshInv, AgreeInv, LiveInv, WalkInv, ArtInv, Settled, Coherent, LiveIs, Target, Gen
<1> QED
  BY <1>1, <1>2, <1>3 DEF Staged

\* Publication up to the verified database keeps the thumbnails those of the
\* tracks the database names.
LEMMA ArtPublish ==
  ArtworkKept /\ Typed /\ IInv /\ LoadInv /\ AgreeInv /\ ArtInv /\ Publish => ArtInv'
<1> SUFFICES ASSUME ArtworkKept, Typed, IInv, LoadInv, AgreeInv, ArtInv, Publish
             PROVE ArtInv'
  OBVIOUS
<1>t. journal \in Journals /\ snap \in Snapshots /\ pc \in Points
  BY DEF Typed
<1>1. CASE PublishFence
  BY <1>1, <1>t DEF End, Fail, Fence, Goto, NoWork, PublishFence, diskVars, envVars, genVars,
     memVars, PhaseInv, SnapInv, FreshInv, AgreeInv, LiveInv, WalkInv, ArtInv, Settled,
     Coherent, LiveIs, Target, Gen
<1>2. CASE Prepare
  BY <1>2, <1>t, PrepareIs, PrepareFirst
     DEF Prepare, KnownLive, Fail, End, SameInputs, genVars, diskVars, memVars, envVars, PhaseInv,
        SnapInv, FreshInv, AgreeInv, LiveInv, WalkInv, ArtInv, Settled, Coherent, LiveIs, Target,
        Gen
<1>3. CASE PrepareArtwork
  BY <1>3, <1>t DEF End, Fault, Goto, NoWork, PrepareArtwork, diskVars, envVars, genVars,
     memVars, PhaseInv, SnapInv, FreshInv, AgreeInv, LiveInv, WalkInv, ArtInv, Settled,
     Coherent, LiveIs, Target, Gen
<1>4. CASE EnsurePreimage
  BY <1>4, <1>t DEF End, EnsurePreimage, Fail, Goto, NoWork, diskVars, envVars, genVars,
     memVars, PhaseInv, SnapInv, FreshInv, AgreeInv, LiveInv, WalkInv, ArtInv, Settled,
     Coherent, LiveIs, Target, Gen
<1>5. CASE EnsureSnapshot
  BY <1>5, <1>t DEF End, EnsureSnapshot, Fail, Goto, NoWork, diskVars, envVars, genVars,
     memVars, PhaseInv, SnapInv, FreshInv, AgreeInv, LiveInv, WalkInv, ArtInv, Settled,
     Coherent, LiveIs, Target, Gen
<1>6. CASE FillSnapshot
  BY <1>6, <1>t DEF FillSnapshot, Goto, envVars, genVars, memVars, PhaseInv, SnapInv, FreshInv,
     AgreeInv, LiveInv, WalkInv, ArtInv, Settled, Coherent, LiveIs, Target, Gen
<1>7. CASE Dispatch
  BY <1>7, <1>t DEF Dispatch, Goto, diskVars, envVars, genVars, memVars, PhaseInv, SnapInv,
     FreshInv, AgreeInv, LiveInv, WalkInv, ArtInv, Settled, Coherent, LiveIs, Target, Gen
<1>8. CASE ResumeCandidate
  BY <1>8, <1>t, ResumeIs, ResumeRecords
     DEF ResumeCandidate, SameInputs, genVars, diskVars, memVars, envVars, PhaseInv, SnapInv,
        FreshInv, AgreeInv, LiveInv, WalkInv, ArtInv, Settled, Coherent, LiveIs, Target, Gen
<1>9. CASE OpenDatabase
  BY <1>9, <1>t DEF Goto, OpenDatabase, diskVars, envVars, genVars, PhaseInv, SnapInv, FreshInv,
     AgreeInv, LiveInv, WalkInv, ArtInv, Settled, Coherent, LiveIs, Target, Gen
<1>10. CASE \E f \in Tracks : ReserveFinal(f)
  BY <1>10, <1>t DEF Goto, ReserveFinal, diskVars, envVars, genVars, PhaseInv, SnapInv,
     FreshInv, AgreeInv, LiveInv, WalkInv, ArtInv, Settled, Coherent, LiveIs, Target, Gen
<1>11. CASE MoveStaged
  BY <1>11, <1>t DEF Goto, MoveStaged, envVars, genVars, memVars, PhaseInv, SnapInv, FreshInv,
     AgreeInv, LiveInv, WalkInv, ArtInv, Settled, Coherent, LiveIs, Target, Gen
<1>12. CASE RecordAdded
  BY <1>12, <1>t DEF Goto, RecordAdded, diskVars, envVars, genVars, PhaseInv, SnapInv, FreshInv,
     AgreeInv, LiveInv, WalkInv, ArtInv, Settled, Coherent, LiveIs, Target, Gen
<1>13. CASE UpdateMetadata
  BY <1>13, <1>t DEF Goto, UpdateMetadata, diskVars, envVars, genVars, PhaseInv, SnapInv,
     FreshInv, AgreeInv, LiveInv, WalkInv, ArtInv, Settled, Coherent, LiveIs, Target, Gen
<1>14. CASE ReconcileCandidate
  BY <1>14, <1>t, ReconcileIs
     DEF ReconcileCandidate, SameRecords, genVars, diskVars, memVars, envVars, PhaseInv, SnapInv,
        FreshInv, AgreeInv, LiveInv, WalkInv, ArtInv, Settled, Coherent, LiveIs, Target, Gen
<1>15. CASE DatabaseFence
  BY <1>15, <1>t DEF DatabaseFence, End, Fail, Fence, Goto, NoWork, diskVars, envVars, genVars,
     memVars, PhaseInv, SnapInv, FreshInv, AgreeInv, LiveInv, WalkInv, ArtInv, Settled,
     Coherent, LiveIs, Target, Gen
<1>16. CASE ClearArtwork
  BY <1>16, <1>t DEF ClearArtwork, Goto, diskVars, envVars, memVars, PhaseInv, SnapInv,
     FreshInv, AgreeInv, LiveInv, WalkInv, ArtInv, Settled, Coherent, LiveIs, Target, Gen
<1>17. CASE WriteArtwork
  BY <1>17, <1>t DEF Fault, Goto, RecordPublished, WriteArtwork, WriteFault, diskVars, envVars,
     genVars, memVars, PhaseInv, SnapInv, FreshInv, AgreeInv, LiveInv, WalkInv, ArtInv, Settled,
     Coherent, LiveIs, Target, Gen
<1>18. CASE WriteDatabase
  <2>1. CASE WriteFault
    <3>1. /\ journal'.phase = journal.phase /\ SameInputs(journal, journal')
          /\ journal'.before = journal.before /\ journal'.verified = journal.verified
          /\ journal'.published = {Gen} /\ pc' = "known" /\ UNCHANGED <<genVars, diskVars>>
      BY <2>1, <1>t, PublishedIs DEF WriteFault, RecordPublished
    <3> QED
      BY <1>18, <3>1
         DEF WriteDatabase, SameInputs, genVars, diskVars, memVars, envVars, PhaseInv, AgreeInv,
            LiveInv, LiveIs, ArtInv, Target, Gen
  <2>2. CASE ~ WriteFault
    <3>1. /\ pc = "dbwrite" /\ db' = mdb /\ pc' = "dbrecord" /\ UNCHANGED <<art, journal, snap>>
          /\ journal.phase = ReadyToPublish
      BY <1>18, <2>2 DEF WriteDatabase, Goto, diskVars, PhaseInv
    <3>2. \A b \in journal.before : db'.tracks = Target(b) /\ art = Target(b)
      BY <3>1 DEF AgreeInv, WalkInv, ArtInv
    <3>3. snap'.state = "full"
      BY <3>1 DEF SnapInv
    <3>4. \A b \in journal'.before :
            /\ b.art = b.db.tracks /\ snap'.art = b.db.tracks
            /\ art' = Target(b)' /\ db'.tracks = art'
            /\ \A g \in journal'.published \cup journal'.verified :
                 g.db.tracks = b.db.tracks \/ g.art = g.db.tracks
      BY <3>1, <3>2, <3>3 DEF ArtInv, Target
    <3> QED
      BY <3>1, <3>3, <3>4 DEF ArtInv
  <2> QED
    BY <2>1, <2>2
<1>19. CASE RecordWritten
  BY <1>19, <1>t DEF Goto, RecordPublished, RecordWritten, diskVars, envVars, genVars, memVars,
     PhaseInv, SnapInv, FreshInv, AgreeInv, LiveInv, WalkInv, ArtInv, Settled, Coherent, LiveIs,
     Target, Gen
<1>20. CASE VerifyWritten
  BY <1>20, <1>t, VerifyIs, VerifyRecords
     DEF VerifyWritten, SameInputs, genVars, diskVars, memVars, envVars, PhaseInv, SnapInv,
        FreshInv, AgreeInv, LiveInv, WalkInv, ArtInv, Settled, Coherent, LiveIs, Target, Gen
<1> QED
  BY <1>1, <1>2, <1>3, <1>4, <1>5, <1>6, <1>7, <1>8, <1>9, <1>10, <1>11, <1>12, <1>13, <1>14,
     <1>15, <1>16, <1>17, <1>18, <1>19, <1>20 DEF Publish

\* Publication after the verified database keeps the thumbnails those of the
\* tracks the database names.
LEMMA ArtFinalize ==
  ArtworkKept /\ Typed /\ IInv /\ LoadInv /\ AgreeInv /\ ArtInv /\ Finalize => ArtInv'
<1> SUFFICES ASSUME ArtworkKept, Typed, IInv, LoadInv, AgreeInv, ArtInv, Finalize
             PROVE ArtInv'
  OBVIOUS
<1>t. journal \in Journals /\ snap \in Snapshots /\ pc \in Points
  BY DEF Typed
<1>1. CASE CheckVerified
  BY <1>1, <1>t DEF CheckVerified, Fault, Goto, Mismatch, diskVars, envVars, genVars, memVars,
     PhaseInv, SnapInv, FreshInv, AgreeInv, LiveInv, WalkInv, ArtInv, Settled, Coherent, LiveIs,
     Target, Gen
<1>2. CASE ManifestFence
  BY <1>2, <1>t DEF End, Fail, Fence, Goto, ManifestFence, NoWork, diskVars, envVars, genVars,
     memVars, PhaseInv, SnapInv, FreshInv, AgreeInv, LiveInv, WalkInv, ArtInv, Settled,
     Coherent, LiveIs, Target, Gen
<1>3. CASE WriteManifest
  <2>1. CASE pc' = "known"
    BY <1>3, <1>t, <2>1 DEF WriteManifest, Fault, Goto, PhaseInv, ArtInv, genVars, diskVars, Target
  <2>2. CASE pc' # "known"
    <3>1. /\ pc = "manwrite" /\ pc' = "manrecord" /\ UNCHANGED <<db, art, journal, snap>>
      BY <1>3, <2>2 DEF WriteManifest, Goto, diskVars
    <3>2. /\ journal.phase = DatabaseVerified /\ CandidateHeld
          /\ journal.before # {} /\ journal.cand # {}
      BY <3>1, LiveIsHeld DEF PhaseInv, HeldInv, FreshInv, AgreeInv, CandInv
    <3>3. PICK b \in journal.before : TRUE
      BY <3>2
    <3>4. db.tracks = Target(b) /\ \A c \in journal.cand : c.tracks = Target(b)
      BY <3>1, <3>2, HeldExact DEF AgreeInv
    <3>5. art = db.tracks
      BY <3>1, <3>2, <3>4 DEF ArtInv, CandidateHeld
    <3> QED
      BY <3>1, <3>2, <3>5 DEF ArtInv, Target
  <2> QED
    BY <2>1, <2>2
<1>4. CASE RecordManifest
  <2>1. /\ journal'.phase = DeviceManifestPublished /\ SameInputs(journal, journal')
        /\ journal'.before = journal.before /\ journal'.verified = {Gen} /\ journal'.published = {}
    BY <1>4, <1>t, ManifestIs DEF RecordManifest
  <2> QED
    BY <1>4, <1>t, <2>1
       DEF RecordManifest, Goto, SameInputs, genVars, diskVars, memVars, envVars, PhaseInv, SnapInv,
          FreshInv, AgreeInv, LiveInv, WalkInv, ArtInv, Settled, Coherent, LiveIs, Target, Gen
<1>5. CASE Reverify
  BY <1>5, <1>t, ResumedIs
     DEF Reverify, StillHeld, Mismatch, Fault, Goto, genVars, diskVars, memVars, envVars, PhaseInv,
        SnapInv, FreshInv, AgreeInv, LiveInv, WalkInv, ArtInv, Settled, Coherent, LiveIs, Target,
        Gen
<1>6. CASE PlanFence
  BY <1>6, <1>t DEF End, Fail, Fence, Goto, NoWork, PlanFence, diskVars, envVars, genVars,
     memVars, PhaseInv, SnapInv, FreshInv, AgreeInv, LiveInv, WalkInv, ArtInv, Settled,
     Coherent, LiveIs, Target, Gen
<1>7. CASE PlanProjections
  BY <1>7, <1>t, PlanIs
     DEF PlanProjections, Goto, Fail, End, SameInputs, genVars, diskVars, memVars, envVars,
        PhaseInv, SnapInv, FreshInv, AgreeInv, LiveInv, WalkInv, ArtInv, Settled, Coherent, LiveIs,
        Target, Gen
<1>8. CASE OwnershipFence
  BY <1>8, <1>t DEF End, Fail, Fence, Goto, NoWork, OwnershipFence, diskVars, envVars, genVars,
     memVars, PhaseInv, SnapInv, FreshInv, AgreeInv, LiveInv, WalkInv, ArtInv, Settled,
     Coherent, LiveIs, Target, Gen
<1>9. CASE WriteOwnership
  <2>1. CASE Interrupted
    <3>1. /\ journal'.phase = journal.phase /\ SameInputs(journal, journal')
        /\ journal'.before = journal.before /\ journal'.verified = journal.verified
        /\ journal'.published = {Gen}
      BY <2>1, <1>t, PublishedIs DEF Interrupted
    <3> QED
      BY <1>9, <1>t, <2>1, <3>1
         DEF WriteOwnership, Interrupted, End, SameInputs, genVars, diskVars, memVars, envVars,
            PhaseInv, SnapInv, FreshInv, AgreeInv, LiveInv, WalkInv, ArtInv, Settled, Coherent,
            LiveIs, Target, Gen
  <2>2. CASE ~ Interrupted
    BY <1>9, <2>2, <1>t
       DEF WriteOwnership, Goto, genVars, diskVars, memVars, envVars, PhaseInv, SnapInv, FreshInv,
          AgreeInv, LiveInv, WalkInv, ArtInv, Settled, Coherent, LiveIs, Target, Gen
  <2> QED
    BY <2>1, <2>2
<1>10. CASE PhaseOwnership
  <2>1. /\ journal'.phase = PlaylistOwnershipPublished /\ SameInputs(journal, journal')
        /\ journal'.before = journal.before /\ journal'.verified = journal.verified
        /\ journal'.published = journal.published
    BY <1>10, <1>t, PhaseIs DEF PhaseOwnership, SameRecords
  <2> QED
    BY <1>10, <1>t, <2>1
       DEF PhaseOwnership, Goto, SameInputs, genVars, diskVars, memVars, envVars, PhaseInv, SnapInv,
          FreshInv, AgreeInv, LiveInv, WalkInv, ArtInv, Settled, Coherent, LiveIs, Target, Gen
<1>11. CASE RecordOwnership
  <2>1. /\ journal'.phase = journal.phase /\ SameInputs(journal, journal')
        /\ journal'.before = journal.before /\ journal'.verified = {Gen} /\ journal'.published = {}
    BY <1>11, <1>t, RecordIs DEF RecordOwnership
  <2> QED
    BY <1>11, <1>t, <2>1
       DEF RecordOwnership, Goto, SameInputs, genVars, diskVars, memVars, envVars, PhaseInv,
          SnapInv, FreshInv, AgreeInv, LiveInv, WalkInv, ArtInv, Settled, Coherent, LiveIs, Target,
          Gen
<1>12. CASE ProjectionFence
  BY <1>12, <1>t DEF End, Fail, Fence, Goto, NoWork, ProjectionFence, diskVars, envVars,
     genVars, memVars, PhaseInv, SnapInv, FreshInv, AgreeInv, LiveInv, WalkInv, ArtInv, Settled,
     Coherent, LiveIs, Target, Gen
<1>13. CASE WriteProjection
  <2>1. CASE Interrupted
    <3>1. /\ journal'.phase = journal.phase /\ SameInputs(journal, journal')
        /\ journal'.before = journal.before /\ journal'.verified = journal.verified
        /\ journal'.published = {Gen}
      BY <2>1, <1>t, PublishedIs DEF Interrupted
    <3> QED
      BY <1>13, <1>t, <2>1, <3>1
         DEF WriteProjection, Interrupted, End, SameInputs, genVars, diskVars, memVars, envVars,
            PhaseInv, SnapInv, FreshInv, AgreeInv, LiveInv, WalkInv, ArtInv, Settled, Coherent,
            LiveIs, Target, Gen
  <2>2. CASE ~ Interrupted
    BY <1>13, <2>2, <1>t
       DEF WriteProjection, Goto, genVars, diskVars, memVars, envVars, PhaseInv, SnapInv, FreshInv,
          AgreeInv, LiveInv, WalkInv, ArtInv, Settled, Coherent, LiveIs, Target, Gen
  <2> QED
    BY <2>1, <2>2
<1>14. CASE RemovePrevious
  <2>1. CASE Interrupted
    <3>1. /\ journal'.phase = journal.phase /\ SameInputs(journal, journal')
        /\ journal'.before = journal.before /\ journal'.verified = journal.verified
        /\ journal'.published = {Gen}
      BY <2>1, <1>t, PublishedIs DEF Interrupted
    <3> QED
      BY <1>14, <1>t, <2>1, <3>1
         DEF RemovePrevious, Interrupted, End, SameInputs, genVars, diskVars, memVars, envVars,
            PhaseInv, SnapInv, FreshInv, AgreeInv, LiveInv, WalkInv, ArtInv, Settled, Coherent,
            LiveIs, Target, Gen
  <2>2. CASE ~ Interrupted
    BY <1>14, <2>2, <1>t
       DEF RemovePrevious, Goto, genVars, diskVars, memVars, envVars, PhaseInv, SnapInv, FreshInv,
          AgreeInv, LiveInv, WalkInv, ArtInv, Settled, Coherent, LiveIs, Target, Gen
  <2> QED
    BY <2>1, <2>2
<1>15. CASE PhaseProjection
  <2>1. /\ journal'.phase = RockboxProjectionsPublished /\ SameInputs(journal, journal')
        /\ journal'.before = journal.before /\ journal'.verified = journal.verified
        /\ journal'.published = journal.published
    BY <1>15, <1>t, PhaseIs DEF PhaseProjection, SameRecords
  <2> QED
    BY <1>15, <1>t, <2>1
       DEF PhaseProjection, Goto, SameInputs, genVars, diskVars, memVars, envVars, PhaseInv,
          SnapInv, FreshInv, AgreeInv, LiveInv, WalkInv, ArtInv, Settled, Coherent, LiveIs, Target,
          Gen
<1>16. CASE RecordProjection
  <2>1. /\ journal'.phase = journal.phase /\ SameInputs(journal, journal')
        /\ journal'.before = journal.before /\ journal'.verified = {Gen} /\ journal'.published = {}
    BY <1>16, <1>t, RecordIs DEF RecordProjection
  <2> QED
    BY <1>16, <1>t, <2>1
       DEF RecordProjection, Goto, SameInputs, genVars, diskVars, memVars, envVars, PhaseInv,
          SnapInv, FreshInv, AgreeInv, LiveInv, WalkInv, ArtInv, Settled, Coherent, LiveIs, Target,
          Gen
<1>17. CASE AuthorityFence
  BY <1>17, <1>t DEF AuthorityFence, End, Fail, Fence, Goto, NoWork, diskVars, envVars, genVars,
     memVars, PhaseInv, SnapInv, FreshInv, AgreeInv, LiveInv, WalkInv, ArtInv, Settled,
     Coherent, LiveIs, Target, Gen
<1>18. CASE WriteAuthority
  BY <1>18, <1>t DEF Goto, WriteAuthority, diskVars, envVars, memVars, PhaseInv, SnapInv,
     FreshInv, AgreeInv, LiveInv, WalkInv, ArtInv, Settled, Coherent, LiveIs, Target, Gen
<1>19. CASE RecordAuthority
  <2>1. /\ journal'.phase = journal.phase /\ SameInputs(journal, journal')
        /\ journal'.before = journal.before /\ journal'.verified = {Gen} /\ journal'.published = {}
    BY <1>19, <1>t, RecordIs DEF RecordAuthority
  <2> QED
    BY <1>19, <1>t, <2>1
       DEF RecordAuthority, Goto, SameInputs, genVars, diskVars, memVars, envVars, PhaseInv,
          SnapInv, FreshInv, AgreeInv, LiveInv, WalkInv, ArtInv, Settled, Coherent, LiveIs, Target,
          Gen
<1> QED
  BY <1>1, <1>2, <1>3, <1>4, <1>5, <1>6, <1>7, <1>8, <1>9, <1>10, <1>11, <1>12, <1>13, <1>14,
     <1>15, <1>16, <1>17, <1>18, <1>19 DEF Finalize

\* Removing what a closed journal leaves keeps the thumbnails those of the
\* tracks the database names.
LEMMA ArtCleanup ==
  ArtworkKept /\ Typed /\ IInv /\ LoadInv /\ AgreeInv /\ ArtInv /\ Cleanup => ArtInv'
<1> SUFFICES ASSUME ArtworkKept, Typed, IInv, LoadInv, AgreeInv, ArtInv, Cleanup
             PROVE ArtInv'
  OBVIOUS
<1>t. journal \in Journals /\ snap \in Snapshots /\ pc \in Points
  BY DEF Typed
<1>1. CASE CleanStaged
  BY <1>1, <1>t DEF CleanStaged, Goto, Unreferenced, envVars, genVars, memVars, PhaseInv,
     SnapInv, FreshInv, AgreeInv, LiveInv, WalkInv, ArtInv, Settled, Coherent, LiveIs, Target,
     Gen
<1>2. CASE RemoveObsolete
  BY <1>2, <1>t DEF Goto, RemoveObsolete, Unreferenced, envVars, genVars, memVars, PhaseInv,
     SnapInv, FreshInv, AgreeInv, LiveInv, WalkInv, ArtInv, Settled, Coherent, LiveIs, Target,
     Gen
<1>3. CASE SaveCleanup
  <2>1. /\ journal'.phase = CleanupComplete /\ SameInputs(journal, journal')
        /\ journal'.before = journal.before /\ journal'.verified = journal.verified
        /\ journal'.published = journal.published
    BY <1>3, <1>t, PhaseIs DEF SaveCleanup, SameRecords
  <2> QED
    BY <1>3, <1>t, <2>1
       DEF SaveCleanup, Goto, SameInputs, genVars, diskVars, memVars, envVars, PhaseInv, SnapInv,
          FreshInv, AgreeInv, LiveInv, WalkInv, ArtInv, Settled, Coherent, LiveIs, Target, Gen
<1>4. CASE RemoveStagedDir
  BY <1>4, <1>t DEF End, Fail, Goto, NoWork, RemoveStagedDir, diskVars, envVars, genVars,
     memVars, PhaseInv, SnapInv, FreshInv, AgreeInv, LiveInv, WalkInv, ArtInv, Settled,
     Coherent, LiveIs, Target, Gen
<1>5. CASE RemoveSnapshot
  BY <1>5, <1>t DEF End, Fail, Goto, NoWork, RemoveSnapshot, diskVars, envVars, genVars,
     memVars, PhaseInv, SnapInv, FreshInv, AgreeInv, LiveInv, WalkInv, ArtInv, Settled,
     Coherent, LiveIs, Target, Gen
<1>6. CASE EmptySnapshot
  BY <1>6, <1>t DEF EmptySnapshot, Goto, envVars, genVars, memVars, PhaseInv, SnapInv, FreshInv,
     AgreeInv, LiveInv, WalkInv, ArtInv, Settled, Coherent, LiveIs, Target, Gen
<1>7. CASE RemoveJournal
  BY <1>7, <1>t DEF Goto, NoJournal, NoWork, RemoveJournal, diskVars, envVars, genVars,
     PhaseInv, SnapInv, FreshInv, AgreeInv, LiveInv, WalkInv, ArtInv, Settled, Coherent, LiveIs,
     Target, Gen
<1> QED
  BY <1>1, <1>2, <1>3, <1>4, <1>5, <1>6, <1>7 DEF Cleanup

\* Restoring the snapshot keeps the thumbnails those of the tracks the database
\* names.
LEMMA ArtRollback ==
  ArtworkKept /\ Typed /\ IInv /\ LoadInv /\ AgreeInv /\ ArtInv /\ Rollback => ArtInv'
<1> SUFFICES ASSUME ArtworkKept, Typed, IInv, LoadInv, AgreeInv, ArtInv, Rollback
             PROVE ArtInv'
  OBVIOUS
<1>t. journal \in Journals /\ snap \in Snapshots /\ pc \in Points
  BY DEF Typed
<1>1. CASE KnownRollback
  BY <1>1, <1>t DEF End, Fail, Goto, KnownRollback, NoWork, diskVars, envVars, genVars, memVars,
     PhaseInv, SnapInv, FreshInv, AgreeInv, LiveInv, WalkInv, ArtInv, Settled, Coherent, LiveIs,
     Target, Gen
<1>2. CASE RestoreClear
  BY <1>2, <1>t DEF End, Fail, Goto, NoWork, RestoreClear, diskVars, envVars, genVars, memVars,
     PhaseInv, SnapInv, FreshInv, AgreeInv, LiveInv, WalkInv, ArtInv, Settled, Coherent, LiveIs,
     Target, Gen
<1>3. CASE RestoreArtwork
  BY <1>3, <1>t DEF Goto, RestoreArtwork, diskVars, envVars, memVars, PhaseInv, SnapInv,
     FreshInv, AgreeInv, LiveInv, WalkInv, ArtInv, Settled, Coherent, LiveIs, Target, Gen
<1>4. CASE RestoreDatabase
  BY <1>4, <1>t DEF Goto, RestoreDatabase, diskVars, envVars, memVars, PhaseInv, SnapInv,
     FreshInv, AgreeInv, LiveInv, WalkInv, ArtInv, Settled, Coherent, LiveIs, Target, Gen
<1>5. CASE \E f \in Tracks : RestoreStaged(f)
  BY <1>5, <1>t DEF Goto, Moved, Preserving, RestoreStaged, Unreferenced, envVars, genVars,
     memVars, PhaseInv, SnapInv, FreshInv, AgreeInv, LiveInv, WalkInv, ArtInv, Settled,
     Coherent, LiveIs, Target, Gen
<1>6. CASE ResumeRestored
  BY <1>6, <1>t DEF Goto, Moved, Reset, ResumeRestored, Unreferenced, diskVars, envVars,
     genVars, memVars, PhaseInv, SnapInv, FreshInv, AgreeInv, LiveInv, WalkInv, ArtInv, Settled,
     Coherent, LiveIs, Target, Gen
<1>7. CASE UndoneRollback
  BY <1>7, <1>t DEF Goto, Moved, Reset, UndoneRollback, Unreferenced, diskVars, envVars,
     genVars, memVars, PhaseInv, SnapInv, FreshInv, AgreeInv, LiveInv, WalkInv, ArtInv, Settled,
     Coherent, LiveIs, Target, Gen
<1>8. CASE MovedBack
  BY <1>8, <1>t DEF Goto, Moved, MovedBack, Unreferenced, diskVars, envVars, genVars, memVars,
     PhaseInv, SnapInv, FreshInv, AgreeInv, LiveInv, WalkInv, ArtInv, Settled, Coherent, LiveIs,
     Target, Gen
<1>9. CASE DropStaged
  BY <1>9, <1>t DEF DropStaged, Goto, Preserving, Unreferenced, envVars, genVars, memVars,
     PhaseInv, SnapInv, FreshInv, AgreeInv, LiveInv, WalkInv, ArtInv, Settled, Coherent, LiveIs,
     Target, Gen
<1>10. CASE RestoreManifest
  BY <1>10, <1>t DEF End, Fail, Goto, NoWork, RestoreManifest, diskVars, envVars, genVars,
     memVars, PhaseInv, SnapInv, FreshInv, AgreeInv, LiveInv, WalkInv, ArtInv, Settled,
     Coherent, LiveIs, Target, Gen
<1>11. CASE FinishRollback
  BY <1>11, <1>t, FinishRecords
     DEF FinishRollback, Restored, Closed, SameInputs, genVars, diskVars, memVars, envVars,
        PhaseInv, SnapInv, FreshInv, AgreeInv, LiveInv, WalkInv, ArtInv, Settled, Coherent, LiveIs,
        Target, Gen
<1> QED
  BY <1>1, <1>2, <1>3, <1>4, <1>5, <1>6, <1>7, <1>8, <1>9, <1>10, <1>11 DEF Rollback

\* A step of the environment keeps the thumbnails those of the tracks the
\* database names.
LEMMA ArtEnvironment ==
  ArtworkKept /\ Typed /\ IInv /\ LoadInv /\ AgreeInv /\ ArtInv /\ Environment => ArtInv'
<1> SUFFICES ASSUME ArtworkKept, Typed, IInv, LoadInv, AgreeInv, ArtInv, Environment
             PROVE ArtInv'
  OBVIOUS
<1>t. journal \in Journals /\ snap \in Snapshots /\ pc \in Points
  BY DEF Typed
<1>1. CASE ForeignWrite
  BY <1>1, <1>t DEF ForeignWrite, diskVars, memVars, PhaseInv, SnapInv, FreshInv, AgreeInv,
     LiveInv, WalkInv, ArtInv, Settled, Coherent, LiveIs, Target, Gen
<1>2. CASE FirmwareNormalize
  BY <1>2 DEF FirmwareNormalize, Fault, ArtworkKept
<1>3. CASE LoseStaged
  BY <1>3, <1>t DEF Fault, LoseStaged, genVars, memVars, PhaseInv, SnapInv, FreshInv, AgreeInv,
     LiveInv, WalkInv, ArtInv, Settled, Coherent, LiveIs, Target, Gen
<1>4. CASE Crash
  BY <1>4, <1>t DEF Crash, End, NoWork, genVars, PhaseInv, SnapInv, FreshInv, AgreeInv, LiveInv,
     WalkInv, ArtInv, Settled, Coherent, LiveIs, Target, Gen
<1>5. CASE StopAdmission
  BY <1>5, <1>t DEF Goto, StopAdmission, diskVars, envVars, genVars, PhaseInv, SnapInv,
     FreshInv, AgreeInv, LiveInv, WalkInv, ArtInv, Settled, Coherent, LiveIs, Target, Gen
<1>6. CASE EndSession
  BY <1>6, <1>t DEF End, EndSession, Fail, NoWork, diskVars, envVars, genVars, PhaseInv,
     SnapInv, FreshInv, AgreeInv, LiveInv, WalkInv, ArtInv, Settled, Coherent, LiveIs, Target,
     Gen
<1>7. CASE \E w \in Works : BeginSync(w)
  BY <1>7, <1>t DEF BeginSync, diskVars, genVars, PhaseInv, SnapInv, FreshInv, AgreeInv,
     LiveInv, WalkInv, ArtInv, Settled, Coherent, LiveIs, Target, Gen
<1> QED
  BY <1>1, <1>2, <1>3, <1>4, <1>5, <1>6, <1>7 DEF Environment

\* Acquiring the lease keeps the thumbnails those of the tracks the database
\* names.
LEMMA ArtAcquire ==
  ArtworkKept /\ Typed /\ IInv /\ LoadInv /\ AgreeInv /\ ArtInv /\ Acquire => ArtInv'
<1> SUFFICES ASSUME ArtworkKept, Typed, IInv, LoadInv, AgreeInv, ArtInv, Acquire
             PROVE ArtInv'
  OBVIOUS
<1>t. journal \in Journals /\ snap \in Snapshots /\ pc \in Points
  BY DEF Typed
<1>1. CASE Acquire
  BY <1>1, <1>t DEF Acquire, diskVars, envVars, genVars, PhaseInv, SnapInv, FreshInv, AgreeInv,
     LiveInv, WalkInv, ArtInv, Settled, Coherent, LiveIs, Target, Gen
<1> QED
  BY <1>1

-----------------------------------------------------------------------------
(* What a retry needs.                                                       *)

\* Recovering the journal a session finds keeps the audio a retry would publish.
LEMMA InputsRecovery ==
  CacheWhole /\ StagedKept /\ Typed /\ IInv /\ LoadInv /\ AgreeInv /\ InputsInv /\ Recovery
  => InputsInv'
<1> SUFFICES ASSUME CacheWhole, StagedKept, Typed, IInv, LoadInv, AgreeInv, InputsInv, Recovery
             PROVE InputsInv'
  OBVIOUS
<1>t. journal \in Journals /\ snap \in Snapshots /\ pc \in Points
  BY DEF Typed
<1>1. CASE RecoverUndone
  BY <1>1, <1>t DEF Goto, RecoverUndone, Undone, diskVars, envVars, genVars, memVars, PhaseInv,
     LoadInv, InputsInv, Kept, Target, Gen
<1>2. CASE RecoverStaging
  BY <1>2, <1>t DEF Goto, RecoverStaging, Unreferenced, envVars, genVars, memVars, PhaseInv,
     LoadInv, InputsInv, Kept, Target, Gen
<1>3. CASE SaveAbandoned
  BY <1>3, <1>t DEF Abandoned, End, Fail, Goto, NoWork, SaveAbandoned, diskVars, envVars,
     genVars, memVars, PhaseInv, LoadInv, InputsInv, Kept, Target, Gen
<1>4. CASE RemoveAbandonedDir
  BY <1>4, <1>t DEF Goto, RemoveAbandonedDir, envVars, genVars, memVars, PhaseInv, LoadInv,
     InputsInv, Kept, Target, Gen
<1>5. CASE RecoverFirmware
  BY <1>5, <1>t DEF Goto, RecoverFirmware, Undone, diskVars, envVars, genVars, memVars,
     PhaseInv, LoadInv, InputsInv, Kept, Target, Gen
<1>6. CASE RecoverLost
  BY <1>6, <1>t DEF End, Fail, Goto, Lost, NoWork, RecoverLost, diskVars, envVars, genVars,
     memVars, PhaseInv, LoadInv, InputsInv, Kept, Target, Gen
<1>7. CASE RecoverPublish
  BY <1>7, <1>t DEF Goto, Lost, RecoverPublish, Undone, diskVars, envVars, genVars, memVars,
     PhaseInv, LoadInv, InputsInv, Kept, Target, Gen
<1> QED
  BY <1>1, <1>2, <1>3, <1>4, <1>5, <1>6, <1>7 DEF Recovery

\* Staging and saving albums keeps the audio a retry would publish.
LEMMA InputsStaged ==
  CacheWhole /\ StagedKept /\ Typed /\ IInv /\ LoadInv /\ AgreeInv /\ InputsInv /\ Staged
  => InputsInv'
<1> SUFFICES ASSUME CacheWhole, StagedKept, Typed, IInv, LoadInv, AgreeInv, InputsInv, Staged
             PROVE InputsInv'
  OBVIOUS
<1>t. journal \in Journals /\ snap \in Snapshots /\ pc \in Points
  BY DEF Typed
<1>1. CASE \E f \in Tracks : StageFile(f)
  BY <1>1, <1>t DEF Goto, StageFile, envVars, genVars, memVars, PhaseInv, LoadInv, InputsInv,
     Kept, Target, Gen
<1>2. CASE SaveAlbum
  BY <1>2, <1>t DEF Goto, NewJournal, NoJournal, SaveAlbum, diskVars, envVars, genVars, memVars,
     PhaseInv, LoadInv, InputsInv, Kept, Target, Gen
<1>3. CASE FinishStaging
  BY <1>3, <1>t DEF FinishStaging, Goto, diskVars, envVars, genVars, memVars, PhaseInv, LoadInv,
     InputsInv, Kept, Target, Gen
<1> QED
  BY <1>1, <1>2, <1>3 DEF Staged

\* Publication up to the verified database keeps the audio a retry would
\* publish.
LEMMA InputsPublish ==
  CacheWhole /\ StagedKept /\ Typed /\ IInv /\ LoadInv /\ AgreeInv /\ InputsInv /\ Publish
  => InputsInv'
<1> SUFFICES ASSUME CacheWhole, StagedKept, Typed, IInv, LoadInv, AgreeInv, InputsInv, Publish
             PROVE InputsInv'
  OBVIOUS
<1>t. journal \in Journals /\ snap \in Snapshots /\ pc \in Points
  BY DEF Typed
<1>1. CASE PublishFence
  BY <1>1, <1>t DEF End, Fail, Fence, Goto, NoWork, PublishFence, diskVars, envVars, genVars,
     memVars, PhaseInv, LoadInv, InputsInv, Kept, Target, Gen
<1>2. CASE Prepare
  BY <1>2, <1>t, PrepareIs, PrepareFirst
     DEF Prepare, KnownLive, Fail, End, SameInputs, genVars, diskVars, memVars, envVars, PhaseInv,
        LoadInv, InputsInv, Kept, Target, Gen
<1>3. CASE PrepareArtwork
  BY <1>3, <1>t DEF End, Fault, Goto, NoWork, PrepareArtwork, diskVars, envVars, genVars,
     memVars, PhaseInv, LoadInv, InputsInv, Kept, Target, Gen
<1>4. CASE EnsurePreimage
  BY <1>4, <1>t DEF End, EnsurePreimage, Fail, Goto, NoWork, diskVars, envVars, genVars,
     memVars, PhaseInv, LoadInv, InputsInv, Kept, Target, Gen
<1>5. CASE EnsureSnapshot
  BY <1>5, <1>t DEF End, EnsureSnapshot, Fail, Goto, NoWork, diskVars, envVars, genVars,
     memVars, PhaseInv, LoadInv, InputsInv, Kept, Target, Gen
<1>6. CASE FillSnapshot
  BY <1>6, <1>t DEF FillSnapshot, Goto, envVars, genVars, memVars, PhaseInv, LoadInv, InputsInv,
     Kept, Target, Gen
<1>7. CASE Dispatch
  BY <1>7, <1>t DEF Dispatch, Goto, diskVars, envVars, genVars, memVars, PhaseInv, LoadInv,
     InputsInv, Kept, Target, Gen
<1>8. CASE ResumeCandidate
  BY <1>8, <1>t, ResumeIs, ResumeRecords
     DEF ResumeCandidate, SameInputs, genVars, diskVars, memVars, envVars, PhaseInv, LoadInv,
        InputsInv, Kept, Target, Gen
<1>9. CASE OpenDatabase
  BY <1>9, <1>t DEF Goto, OpenDatabase, diskVars, envVars, genVars, PhaseInv, LoadInv,
     InputsInv, Kept, Target, Gen
<1>10. CASE \E f \in Tracks : ReserveFinal(f)
  BY <1>10, <1>t DEF Goto, ReserveFinal, diskVars, envVars, genVars, PhaseInv, LoadInv,
     InputsInv, Kept, Target, Gen
<1>11. CASE MoveStaged
  BY <1>11, <1>t DEF Goto, MoveStaged, envVars, genVars, memVars, PhaseInv, LoadInv, InputsInv,
     Kept, Target, Gen
<1>12. CASE RecordAdded
  BY <1>12, <1>t DEF Goto, RecordAdded, diskVars, envVars, genVars, PhaseInv, LoadInv,
     InputsInv, Kept, Target, Gen
<1>13. CASE UpdateMetadata
  BY <1>13, <1>t DEF Goto, UpdateMetadata, diskVars, envVars, genVars, PhaseInv, LoadInv,
     InputsInv, Kept, Target, Gen
<1>14. CASE ReconcileCandidate
  BY <1>14, <1>t, ReconcileIs
     DEF ReconcileCandidate, SameRecords, genVars, diskVars, memVars, envVars, PhaseInv, LoadInv,
        InputsInv, Kept, Target, Gen
<1>15. CASE DatabaseFence
  BY <1>15, <1>t DEF DatabaseFence, End, Fail, Fence, Goto, NoWork, diskVars, envVars, genVars,
     memVars, PhaseInv, LoadInv, InputsInv, Kept, Target, Gen
<1>16. CASE ClearArtwork
  BY <1>16, <1>t DEF ClearArtwork, Goto, diskVars, envVars, memVars, PhaseInv, LoadInv,
     InputsInv, Kept, Target, Gen
<1>17. CASE WriteArtwork
  BY <1>17, <1>t DEF Fault, Goto, RecordPublished, WriteArtwork, WriteFault, diskVars, envVars,
     genVars, memVars, PhaseInv, LoadInv, InputsInv, Kept, Target, Gen
<1>18. CASE WriteDatabase
  BY <1>18, <1>t DEF Fault, Goto, RecordPublished, WriteDatabase, WriteFault, diskVars, envVars,
     genVars, memVars, PhaseInv, LoadInv, InputsInv, Kept, Target, Gen
<1>19. CASE RecordWritten
  BY <1>19, <1>t DEF Goto, RecordPublished, RecordWritten, diskVars, envVars, genVars, memVars,
     PhaseInv, LoadInv, InputsInv, Kept, Target, Gen
<1>20. CASE VerifyWritten
  BY <1>20, <1>t, VerifyIs, VerifyRecords
     DEF VerifyWritten, SameInputs, genVars, diskVars, memVars, envVars, PhaseInv, LoadInv,
        InputsInv, Kept, Target, Gen
<1> QED
  BY <1>1, <1>2, <1>3, <1>4, <1>5, <1>6, <1>7, <1>8, <1>9, <1>10, <1>11, <1>12, <1>13, <1>14,
     <1>15, <1>16, <1>17, <1>18, <1>19, <1>20 DEF Publish

\* Publication after the verified database keeps the audio a retry would
\* publish.
LEMMA InputsFinalize ==
  CacheWhole /\ StagedKept /\ Typed /\ IInv /\ LoadInv /\ AgreeInv /\ InputsInv /\ Finalize
  => InputsInv'
<1> SUFFICES ASSUME CacheWhole, StagedKept, Typed, IInv, LoadInv, AgreeInv, InputsInv, Finalize
             PROVE InputsInv'
  OBVIOUS
<1>t. journal \in Journals /\ snap \in Snapshots /\ pc \in Points
  BY DEF Typed
<1>1. CASE CheckVerified
  <2>1. CASE pc' = "known"
    BY <1>1, <1>t, <2>1
       DEF CheckVerified, Mismatch, Fault, Goto, PhaseInv, InputsInv, genVars, diskVars, Kept
  <2>2. CASE pc' # "known"
    <3>1. /\ pc = "dbv" /\ pc' = "manfence" /\ journal' = [journal EXCEPT !.seen = journal.own]
          /\ UNCHANGED <<genVars, diskVars>> /\ CandidateHeld
      BY <1>1, <2>2 DEF CheckVerified, Mismatch, Goto
    <3>2. journal.phase = DatabaseVerified /\ journal.before # {} /\ journal.cand # {}
      BY <3>1 DEF PhaseInv, FreshInv, AgreeInv, CandInv
    <3>3. PICK b \in journal.before : TRUE
      BY <3>2
    <3>4. db.tracks = Target(b)
      BY <3>1, <3>2, HeldExact DEF AgreeInv
    <3>5. journal.staged \subseteq media
      BY <3>4 DEF Target, MediaInv
    <3>6. journal'.staged = journal.staged /\ journal'.phase = journal.phase
      BY <3>1, <1>t
    <3> QED
      BY <3>1, <3>2, <3>5, <3>6 DEF InputsInv, Kept, diskVars
  <2> QED
    BY <2>1, <2>2
<1>2. CASE ManifestFence
  BY <1>2, <1>t DEF End, Fail, Fence, Goto, ManifestFence, NoWork, diskVars, envVars, genVars,
     memVars, PhaseInv, LoadInv, InputsInv, Kept, Target, Gen
<1>3. CASE WriteManifest
  BY <1>3, <1>t DEF Fault, Goto, WriteManifest, diskVars, envVars, genVars, memVars, PhaseInv,
     LoadInv, InputsInv, Kept, Target, Gen
<1>4. CASE RecordManifest
  <2>1. /\ journal'.phase = DeviceManifestPublished /\ SameInputs(journal, journal')
        /\ journal'.before = journal.before /\ journal'.verified = {Gen} /\ journal'.published = {}
    BY <1>4, <1>t, ManifestIs DEF RecordManifest
  <2> QED
    BY <1>4, <1>t, <2>1
       DEF RecordManifest, Goto, SameInputs, genVars, diskVars, memVars, envVars, PhaseInv, LoadInv,
          InputsInv, Kept, Target, Gen
<1>5. CASE Reverify
  <2>1. /\ pc = "reverify" /\ UNCHANGED <<journal, pending, media>>
        /\ pc' \notin {"stage", "fence", "prepare", "artwork", "manfence", "manwrite"}
    BY <1>5, ResumedIs DEF Reverify, Mismatch, Goto, diskVars
  <2>2. PhaseInv'
    BY PhaseFinalize
  <2> QED
    BY <2>1, <2>2 DEF PhaseInv, InputsInv, Kept
<1>6. CASE PlanFence
  BY <1>6, <1>t DEF End, Fail, Fence, Goto, NoWork, PlanFence, diskVars, envVars, genVars,
     memVars, PhaseInv, LoadInv, InputsInv, Kept, Target, Gen
<1>7. CASE PlanProjections
  BY <1>7, <1>t, PlanIs
     DEF PlanProjections, Goto, Fail, End, SameInputs, genVars, diskVars, memVars, envVars,
        PhaseInv, LoadInv, InputsInv, Kept, Target, Gen
<1>8. CASE OwnershipFence
  BY <1>8, <1>t DEF End, Fail, Fence, Goto, NoWork, OwnershipFence, diskVars, envVars, genVars,
     memVars, PhaseInv, LoadInv, InputsInv, Kept, Target, Gen
<1>9. CASE WriteOwnership
  <2>1. CASE Interrupted
    <3>1. /\ journal'.phase = journal.phase /\ SameInputs(journal, journal')
        /\ journal'.before = journal.before /\ journal'.verified = journal.verified
        /\ journal'.published = {Gen}
      BY <2>1, <1>t, PublishedIs DEF Interrupted
    <3> QED
      BY <1>9, <1>t, <2>1, <3>1
         DEF WriteOwnership, Interrupted, End, SameInputs, genVars, diskVars, memVars, envVars,
            PhaseInv, LoadInv, InputsInv, Kept, Target, Gen
  <2>2. CASE ~ Interrupted
    BY <1>9, <2>2, <1>t
       DEF WriteOwnership, Goto, genVars, diskVars, memVars, envVars, PhaseInv, LoadInv, InputsInv,
          Kept, Target, Gen
  <2> QED
    BY <2>1, <2>2
<1>10. CASE PhaseOwnership
  <2>1. /\ journal'.phase = PlaylistOwnershipPublished /\ SameInputs(journal, journal')
        /\ journal'.before = journal.before /\ journal'.verified = journal.verified
        /\ journal'.published = journal.published
    BY <1>10, <1>t, PhaseIs DEF PhaseOwnership, SameRecords
  <2> QED
    BY <1>10, <1>t, <2>1
       DEF PhaseOwnership, Goto, SameInputs, genVars, diskVars, memVars, envVars, PhaseInv, LoadInv,
          InputsInv, Kept, Target, Gen
<1>11. CASE RecordOwnership
  <2>1. /\ journal'.phase = journal.phase /\ SameInputs(journal, journal')
        /\ journal'.before = journal.before /\ journal'.verified = {Gen} /\ journal'.published = {}
    BY <1>11, <1>t, RecordIs DEF RecordOwnership
  <2> QED
    BY <1>11, <1>t, <2>1
       DEF RecordOwnership, Goto, SameInputs, genVars, diskVars, memVars, envVars, PhaseInv,
          LoadInv, InputsInv, Kept, Target, Gen
<1>12. CASE ProjectionFence
  BY <1>12, <1>t DEF End, Fail, Fence, Goto, NoWork, ProjectionFence, diskVars, envVars,
     genVars, memVars, PhaseInv, LoadInv, InputsInv, Kept, Target, Gen
<1>13. CASE WriteProjection
  <2>1. CASE Interrupted
    <3>1. /\ journal'.phase = journal.phase /\ SameInputs(journal, journal')
        /\ journal'.before = journal.before /\ journal'.verified = journal.verified
        /\ journal'.published = {Gen}
      BY <2>1, <1>t, PublishedIs DEF Interrupted
    <3> QED
      BY <1>13, <1>t, <2>1, <3>1
         DEF WriteProjection, Interrupted, End, SameInputs, genVars, diskVars, memVars, envVars,
            PhaseInv, LoadInv, InputsInv, Kept, Target, Gen
  <2>2. CASE ~ Interrupted
    BY <1>13, <2>2, <1>t
       DEF WriteProjection, Goto, genVars, diskVars, memVars, envVars, PhaseInv, LoadInv, InputsInv,
          Kept, Target, Gen
  <2> QED
    BY <2>1, <2>2
<1>14. CASE RemovePrevious
  <2>1. CASE Interrupted
    <3>1. /\ journal'.phase = journal.phase /\ SameInputs(journal, journal')
        /\ journal'.before = journal.before /\ journal'.verified = journal.verified
        /\ journal'.published = {Gen}
      BY <2>1, <1>t, PublishedIs DEF Interrupted
    <3> QED
      BY <1>14, <1>t, <2>1, <3>1
         DEF RemovePrevious, Interrupted, End, SameInputs, genVars, diskVars, memVars, envVars,
            PhaseInv, LoadInv, InputsInv, Kept, Target, Gen
  <2>2. CASE ~ Interrupted
    BY <1>14, <2>2, <1>t
       DEF RemovePrevious, Goto, genVars, diskVars, memVars, envVars, PhaseInv, LoadInv, InputsInv,
          Kept, Target, Gen
  <2> QED
    BY <2>1, <2>2
<1>15. CASE PhaseProjection
  <2>1. /\ journal'.phase = RockboxProjectionsPublished /\ SameInputs(journal, journal')
        /\ journal'.before = journal.before /\ journal'.verified = journal.verified
        /\ journal'.published = journal.published
    BY <1>15, <1>t, PhaseIs DEF PhaseProjection, SameRecords
  <2> QED
    BY <1>15, <1>t, <2>1
       DEF PhaseProjection, Goto, SameInputs, genVars, diskVars, memVars, envVars, PhaseInv,
          LoadInv, InputsInv, Kept, Target, Gen
<1>16. CASE RecordProjection
  <2>1. /\ journal'.phase = journal.phase /\ SameInputs(journal, journal')
        /\ journal'.before = journal.before /\ journal'.verified = {Gen} /\ journal'.published = {}
    BY <1>16, <1>t, RecordIs DEF RecordProjection
  <2> QED
    BY <1>16, <1>t, <2>1
       DEF RecordProjection, Goto, SameInputs, genVars, diskVars, memVars, envVars, PhaseInv,
          LoadInv, InputsInv, Kept, Target, Gen
<1>17. CASE AuthorityFence
  BY <1>17, <1>t DEF AuthorityFence, End, Fail, Fence, Goto, NoWork, diskVars, envVars, genVars,
     memVars, PhaseInv, LoadInv, InputsInv, Kept, Target, Gen
<1>18. CASE WriteAuthority
  BY <1>18, <1>t DEF Goto, WriteAuthority, diskVars, envVars, memVars, PhaseInv, LoadInv,
     InputsInv, Kept, Target, Gen
<1>19. CASE RecordAuthority
  <2>1. /\ journal'.phase = journal.phase /\ SameInputs(journal, journal')
        /\ journal'.before = journal.before /\ journal'.verified = {Gen} /\ journal'.published = {}
    BY <1>19, <1>t, RecordIs DEF RecordAuthority
  <2> QED
    BY <1>19, <1>t, <2>1
       DEF RecordAuthority, Goto, SameInputs, genVars, diskVars, memVars, envVars, PhaseInv,
          LoadInv, InputsInv, Kept, Target, Gen
<1> QED
  BY <1>1, <1>2, <1>3, <1>4, <1>5, <1>6, <1>7, <1>8, <1>9, <1>10, <1>11, <1>12, <1>13, <1>14,
     <1>15, <1>16, <1>17, <1>18, <1>19 DEF Finalize

\* Removing what a closed journal leaves keeps the audio a retry would publish.
LEMMA InputsCleanup ==
  CacheWhole /\ StagedKept /\ Typed /\ IInv /\ LoadInv /\ AgreeInv /\ InputsInv /\ Cleanup
  => InputsInv'
<1> SUFFICES ASSUME CacheWhole, StagedKept, Typed, IInv, LoadInv, AgreeInv, InputsInv, Cleanup
             PROVE InputsInv'
  OBVIOUS
<1>t. journal \in Journals /\ snap \in Snapshots /\ pc \in Points
  BY DEF Typed
<1>1. CASE CleanStaged
  BY <1>1, <1>t DEF CleanStaged, Goto, Unreferenced, envVars, genVars, memVars, PhaseInv,
     LoadInv, InputsInv, Kept, Target, Gen
<1>2. CASE RemoveObsolete
  BY <1>2, <1>t DEF Goto, RemoveObsolete, Unreferenced, envVars, genVars, memVars, PhaseInv,
     LoadInv, InputsInv, Kept, Target, Gen
<1>3. CASE SaveCleanup
  <2>1. /\ journal'.phase = CleanupComplete /\ SameInputs(journal, journal')
        /\ journal'.before = journal.before /\ journal'.verified = journal.verified
        /\ journal'.published = journal.published
    BY <1>3, <1>t, PhaseIs DEF SaveCleanup, SameRecords
  <2> QED
    BY <1>3, <1>t, <2>1
       DEF SaveCleanup, Goto, SameInputs, genVars, diskVars, memVars, envVars, PhaseInv, LoadInv,
          InputsInv, Kept, Target, Gen
<1>4. CASE RemoveStagedDir
  BY <1>4, <1>t DEF End, Fail, Goto, NoWork, RemoveStagedDir, diskVars, envVars, genVars,
     memVars, PhaseInv, LoadInv, InputsInv, Kept, Target, Gen
<1>5. CASE RemoveSnapshot
  BY <1>5, <1>t DEF End, Fail, Goto, NoWork, RemoveSnapshot, diskVars, envVars, genVars,
     memVars, PhaseInv, LoadInv, InputsInv, Kept, Target, Gen
<1>6. CASE EmptySnapshot
  BY <1>6, <1>t DEF EmptySnapshot, Goto, envVars, genVars, memVars, PhaseInv, LoadInv,
     InputsInv, Kept, Target, Gen
<1>7. CASE RemoveJournal
  BY <1>7, <1>t DEF Goto, NoJournal, NoWork, RemoveJournal, diskVars, envVars, genVars,
     PhaseInv, LoadInv, InputsInv, Kept, Target, Gen
<1> QED
  BY <1>1, <1>2, <1>3, <1>4, <1>5, <1>6, <1>7 DEF Cleanup

\* Restoring the snapshot keeps the audio a retry would publish.
LEMMA InputsRollback ==
  CacheWhole /\ StagedKept /\ Typed /\ IInv /\ LoadInv /\ AgreeInv /\ InputsInv /\ Rollback
  => InputsInv'
<1> SUFFICES ASSUME CacheWhole, StagedKept, Typed, IInv, LoadInv, AgreeInv, InputsInv, Rollback
             PROVE InputsInv'
  OBVIOUS
<1>t. journal \in Journals /\ snap \in Snapshots /\ pc \in Points
  BY DEF Typed
<1>1. CASE KnownRollback
  BY <1>1, <1>t DEF End, Fail, Goto, KnownRollback, NoWork, diskVars, envVars, genVars, memVars,
     PhaseInv, LoadInv, InputsInv, Kept, Target, Gen
<1>2. CASE RestoreClear
  BY <1>2, <1>t DEF End, Fail, Goto, NoWork, RestoreClear, diskVars, envVars, genVars, memVars,
     PhaseInv, LoadInv, InputsInv, Kept, Target, Gen
<1>3. CASE RestoreArtwork
  BY <1>3, <1>t DEF Goto, RestoreArtwork, diskVars, envVars, memVars, PhaseInv, LoadInv,
     InputsInv, Kept, Target, Gen
<1>4. CASE RestoreDatabase
  BY <1>4, <1>t DEF Goto, RestoreDatabase, diskVars, envVars, memVars, PhaseInv, LoadInv,
     InputsInv, Kept, Target, Gen
<1>5. CASE \E f \in Tracks : RestoreStaged(f)
  BY <1>5, <1>t DEF Goto, Moved, Preserving, RestoreStaged, Unreferenced, envVars, genVars,
     memVars, PhaseInv, LoadInv, InputsInv, Kept, Target, Gen
<1>6. CASE ResumeRestored
  BY <1>6, <1>t DEF Goto, Moved, Reset, ResumeRestored, Unreferenced, diskVars, envVars,
     genVars, memVars, PhaseInv, LoadInv, InputsInv, Kept, Target, Gen
<1>7. CASE UndoneRollback
  BY <1>7, <1>t DEF Goto, Moved, Reset, UndoneRollback, Unreferenced, diskVars, envVars,
     genVars, memVars, PhaseInv, LoadInv, InputsInv, Kept, Target, Gen
<1>8. CASE MovedBack
  BY <1>8, <1>t DEF Goto, Moved, MovedBack, Unreferenced, diskVars, envVars, genVars, memVars,
     PhaseInv, LoadInv, InputsInv, Kept, Target, Gen
<1>9. CASE DropStaged
  BY <1>9, <1>t DEF DropStaged, Goto, Preserving, Unreferenced, envVars, genVars, memVars,
     PhaseInv, LoadInv, InputsInv, Kept, Target, Gen
<1>10. CASE RestoreManifest
  BY <1>10, <1>t DEF End, Fail, Goto, NoWork, RestoreManifest, diskVars, envVars, genVars,
     memVars, PhaseInv, LoadInv, InputsInv, Kept, Target, Gen
<1>11. CASE FinishRollback
  BY <1>11, <1>t, FinishRecords
     DEF FinishRollback, Restored, Closed, SameInputs, genVars, diskVars, memVars, envVars,
        PhaseInv, LoadInv, InputsInv, Kept, Target, Gen
<1> QED
  BY <1>1, <1>2, <1>3, <1>4, <1>5, <1>6, <1>7, <1>8, <1>9, <1>10, <1>11 DEF Rollback

\* A step of the environment keeps the audio a retry would publish.
LEMMA InputsEnvironment ==
  CacheWhole /\ StagedKept /\ Typed /\ IInv /\ LoadInv /\ AgreeInv /\ InputsInv /\ Environment
  => InputsInv'
<1> SUFFICES ASSUME CacheWhole, StagedKept, Typed, IInv, LoadInv, AgreeInv, InputsInv, Environment
             PROVE InputsInv'
  OBVIOUS
<1>t. journal \in Journals /\ snap \in Snapshots /\ pc \in Points
  BY DEF Typed
<1>1. CASE ForeignWrite
  BY <1>1, <1>t DEF ForeignWrite, diskVars, memVars, PhaseInv, LoadInv, InputsInv, Kept, Target,
     Gen
<1>2. CASE FirmwareNormalize
  BY <1>2, <1>t DEF Fault, FirmwareNormalize, diskVars, memVars, PhaseInv, LoadInv, InputsInv,
     Kept, Target, Gen
<1>3. CASE LoseStaged
  BY <1>3 DEF LoseStaged, Fault, StagedKept
<1>4. CASE Crash
  BY <1>4, <1>t DEF Crash, End, NoWork, genVars, PhaseInv, LoadInv, InputsInv, Kept, Target, Gen
<1>5. CASE StopAdmission
  BY <1>5, <1>t DEF Goto, StopAdmission, diskVars, envVars, genVars, PhaseInv, LoadInv,
     InputsInv, Kept, Target, Gen
<1>6. CASE EndSession
  BY <1>6, <1>t DEF End, EndSession, Fail, NoWork, diskVars, envVars, genVars, PhaseInv,
     LoadInv, InputsInv, Kept, Target, Gen
<1>7. CASE \E w \in Works : BeginSync(w)
  BY <1>7, <1>t DEF BeginSync, diskVars, genVars, PhaseInv, LoadInv, InputsInv, Kept, Target,
     Gen
<1> QED
  BY <1>1, <1>2, <1>3, <1>4, <1>5, <1>6, <1>7 DEF Environment

\* Acquiring the lease keeps the audio a retry would publish.
LEMMA InputsAcquire ==
  CacheWhole /\ StagedKept /\ Typed /\ IInv /\ LoadInv /\ AgreeInv /\ InputsInv /\ Acquire
  => InputsInv'
<1> SUFFICES ASSUME CacheWhole, StagedKept, Typed, IInv, LoadInv, AgreeInv, InputsInv, Acquire
             PROVE InputsInv'
  OBVIOUS
<1>t. journal \in Journals /\ snap \in Snapshots /\ pc \in Points
  BY DEF Typed
<1>1. CASE Acquire
  BY <1>1, <1>t DEF Acquire, diskVars, envVars, genVars, PhaseInv, LoadInv, InputsInv, Kept,
     Target, Gen
<1> QED
  BY <1>1

-----------------------------------------------------------------------------
(* The edits of other programs.                                              *)

\* The counted edits are numbers.
LEMMA ExtTyped ==
  ASSUME Typed
  PROVE  /\ journal \in Journals /\ snap \in Snapshots /\ pc \in Points
         /\ Gen.db = db /\ db.ext \in Nat /\ exp.db.ext \in Nat /\ mdb.ext \in Nat
         /\ snap.db.ext \in Nat /\ \A g \in Recorded : g.db.ext \in Nat
<1>1. \A d \in Databases : d.ext \in Nat
  BY DEF Databases
<1>2. \A g \in Generations : g.db \in Databases
  BY DEF Generations
<1>3. /\ journal \in Journals /\ snap \in Snapshots /\ pc \in Points
      /\ db \in Databases /\ exp \in Generations /\ mdb \in Databases
  BY DEF Typed
<1>4. snap.db \in Databases /\ Recorded \subseteq Generations
  BY <1>3 DEF Recorded
<1> QED
  BY <1>1, <1>2, <1>3, <1>4 DEF Gen

\* Recovering the journal a session finds loses no edit of another program.
LEMMA ExtRecovery ==
  EditsSeen /\ Typed /\ IInv /\ ExtInv /\ Recovery => ExtInv' /\ db'.ext >= db.ext
<1> SUFFICES ASSUME EditsSeen, Typed, IInv, ExtInv, Recovery PROVE ExtInv' /\ db'.ext >= db.ext
  OBVIOUS
<1>t. /\ journal \in Journals /\ snap \in Snapshots /\ pc \in Points
      /\ Gen.db = db /\ db.ext \in Nat /\ exp.db.ext \in Nat /\ mdb.ext \in Nat
      /\ snap.db.ext \in Nat /\ \A g \in Recorded : g.db.ext \in Nat
  BY ExtTyped
<1>1. CASE RecoverUndone
  <2>1. Gen \in Recorded /\ pc' = "rbclean" /\ UNCHANGED <<db, snap, journal, exp, mdb>>
    BY <1>1 DEF RecoverUndone, Undone, Recorded, Goto, genVars, diskVars, memVars, envVars
  <2> QED
    BY <2>1, <1>t DEF ExtInv, Recorded, Restorable, WriteWindow, RestoreWindow, RetryWindow
<1>2. CASE RecoverStaging
  BY <1>2, <1>t DEF Goto, RecoverStaging, Unreferenced, envVars, genVars, memVars, PhaseInv,
     SnapInv, FreshInv, ExtInv, Recorded, Restorable, Gen, WriteWindow, RestoreWindow,
     RetryWindow
<1>3. CASE SaveAbandoned
  BY <1>3, <1>t DEF Abandoned, End, Fail, Goto, NoWork, SaveAbandoned, diskVars, envVars,
     genVars, memVars, PhaseInv, SnapInv, FreshInv, ExtInv, Recorded, Restorable, Gen,
     WriteWindow, RestoreWindow, RetryWindow
<1>4. CASE RemoveAbandonedDir
  BY <1>4, <1>t DEF Goto, RemoveAbandonedDir, envVars, genVars, memVars, PhaseInv, SnapInv,
     FreshInv, ExtInv, Recorded, Restorable, Gen, WriteWindow, RestoreWindow, RetryWindow
<1>5. CASE RecoverFirmware
  <2>1. \E v \in journal.verified : v.db = db
    BY <1>5, FirmwareIs DEF RecoverFirmware
  <2> QED
    BY <1>5, <1>t, <2>1
       DEF RecoverFirmware, Goto, genVars, diskVars, memVars, envVars, ExtInv, Recorded, Restorable,
          WriteWindow, RestoreWindow, RetryWindow
<1>6. CASE RecoverLost
  BY <1>6, <1>t DEF End, Fail, Goto, Lost, NoWork, RecoverLost, diskVars, envVars, genVars,
     memVars, PhaseInv, SnapInv, FreshInv, ExtInv, Recorded, Restorable, Gen, WriteWindow,
     RestoreWindow, RetryWindow
<1>7. CASE RecoverPublish
  BY <1>7, <1>t DEF Goto, Lost, RecoverPublish, Undone, diskVars, envVars, genVars, memVars,
     PhaseInv, SnapInv, FreshInv, ExtInv, Recorded, Restorable, Gen, WriteWindow, RestoreWindow,
     RetryWindow
<1> QED
  BY <1>1, <1>2, <1>3, <1>4, <1>5, <1>6, <1>7 DEF Recovery

\* Staging and saving albums loses no edit of another program.
LEMMA ExtStaged == EditsSeen /\ Typed /\ IInv /\ ExtInv /\ Staged => ExtInv' /\ db'.ext >= db.ext
<1> SUFFICES ASSUME EditsSeen, Typed, IInv, ExtInv, Staged PROVE ExtInv' /\ db'.ext >= db.ext
  OBVIOUS
<1>t. /\ journal \in Journals /\ snap \in Snapshots /\ pc \in Points
      /\ Gen.db = db /\ db.ext \in Nat /\ exp.db.ext \in Nat /\ mdb.ext \in Nat
      /\ snap.db.ext \in Nat /\ \A g \in Recorded : g.db.ext \in Nat
  BY ExtTyped
<1>1. CASE \E f \in Tracks : StageFile(f)
  BY <1>1, <1>t DEF Goto, StageFile, envVars, genVars, memVars, PhaseInv, SnapInv, FreshInv,
     ExtInv, Recorded, Restorable, Gen, WriteWindow, RestoreWindow, RetryWindow
<1>2. CASE SaveAlbum
  BY <1>2, <1>t DEF Goto, NewJournal, NoJournal, SaveAlbum, diskVars, envVars, genVars, memVars,
     PhaseInv, SnapInv, FreshInv, ExtInv, Recorded, Restorable, Gen, WriteWindow, RestoreWindow,
     RetryWindow
<1>3. CASE FinishStaging
  BY <1>3, <1>t DEF FinishStaging, Goto, diskVars, envVars, genVars, memVars, PhaseInv, SnapInv,
     FreshInv, ExtInv, Recorded, Restorable, Gen, WriteWindow, RestoreWindow, RetryWindow
<1> QED
  BY <1>1, <1>2, <1>3 DEF Staged

\* Publication up to the verified database loses no edit of another program.
LEMMA ExtPublish ==
  EditsSeen /\ Typed /\ IInv /\ ExtInv /\ Publish => ExtInv' /\ db'.ext >= db.ext
<1> SUFFICES ASSUME EditsSeen, Typed, IInv, ExtInv, Publish PROVE ExtInv' /\ db'.ext >= db.ext
  OBVIOUS
<1>t. /\ journal \in Journals /\ snap \in Snapshots /\ pc \in Points
      /\ Gen.db = db /\ db.ext \in Nat /\ exp.db.ext \in Nat /\ mdb.ext \in Nat
      /\ snap.db.ext \in Nat /\ \A g \in Recorded : g.db.ext \in Nat
  BY ExtTyped
<1>1. CASE PublishFence
  BY <1>1, <1>t DEF End, Fail, Fence, Goto, NoWork, PublishFence, diskVars, envVars, genVars,
     memVars, PhaseInv, SnapInv, FreshInv, ExtInv, Recorded, Restorable, Gen, WriteWindow,
     RestoreWindow, RetryWindow
<1>2. CASE Prepare
  BY <1>2, <1>t, PrepareIs, PrepareFirst
     DEF Prepare, KnownLive, Fail, End, SameInputs, genVars, diskVars, memVars, envVars, PhaseInv,
        SnapInv, FreshInv, ExtInv, Recorded, Restorable, Gen, WriteWindow, RestoreWindow,
        RetryWindow
<1>3. CASE PrepareArtwork
  BY <1>3, <1>t DEF End, Fault, Goto, NoWork, PrepareArtwork, diskVars, envVars, genVars,
     memVars, PhaseInv, SnapInv, FreshInv, ExtInv, Recorded, Restorable, Gen, WriteWindow,
     RestoreWindow, RetryWindow
<1>4. CASE EnsurePreimage
  BY <1>4, <1>t DEF End, EnsurePreimage, Fail, Goto, NoWork, diskVars, envVars, genVars,
     memVars, PhaseInv, SnapInv, FreshInv, ExtInv, Recorded, Restorable, Gen, WriteWindow,
     RestoreWindow, RetryWindow
<1>5. CASE EnsureSnapshot
  BY <1>5, <1>t DEF End, EnsureSnapshot, Fail, Goto, NoWork, diskVars, envVars, genVars,
     memVars, PhaseInv, SnapInv, FreshInv, ExtInv, Recorded, Restorable, Gen, WriteWindow,
     RestoreWindow, RetryWindow
<1>6. CASE FillSnapshot
  BY <1>6, <1>t DEF FillSnapshot, Goto, envVars, genVars, memVars, PhaseInv, SnapInv, FreshInv,
     ExtInv, Recorded, Restorable, Gen, WriteWindow, RestoreWindow, RetryWindow
<1>7. CASE Dispatch
  BY <1>7, <1>t DEF Dispatch, Goto, diskVars, envVars, genVars, memVars, PhaseInv, SnapInv,
     FreshInv, ExtInv, Recorded, Restorable, Gen, WriteWindow, RestoreWindow, RetryWindow
<1>8. CASE ResumeCandidate
  <2>1. CASE pc' = "dbv"
    <3>1. exp' = Gen /\ pc = "resume" /\ UNCHANGED <<db, snap, mdb>>
      BY <1>8, <2>1 DEF ResumeCandidate, Goto, RecordVerified, genVars, diskVars, memVars, envVars
    <3>2. /\ journal'.before = journal.before /\ journal'.published = {}
          /\ journal'.verified = {Gen}
      BY <1>8, <2>1, ResumeIs, ResumeRecords
    <3>3. journal.phase = ReadyToPublish /\ snap.state = "full"
      BY <3>1 DEF PhaseInv, SnapInv
    <3>4. db.ext <= snap.db.ext
      BY <3>1, <3>3, <1>t DEF ExtInv, Recorded, Restorable, WriteWindow, RestoreWindow, RetryWindow
    <3>5. \A g \in Recorded' : g.db.ext <= db.ext /\ g.db.ext <= snap.db.ext
      BY <3>2, <3>3, <3>4, <1>t
         DEF ExtInv, Recorded, Restorable, WriteWindow, RestoreWindow, RetryWindow
    <3> QED
      BY <2>1, <3>1, <3>4, <3>5, <1>t
         DEF ExtInv, Recorded, Restorable, WriteWindow, RestoreWindow, RetryWindow
  <2>2. CASE pc' # "dbv"
    BY <1>8, <1>t, <2>2, ResumeIs, ResumeRecords
       DEF ResumeCandidate, Goto, genVars, diskVars, memVars, envVars, PhaseInv, ExtInv, Recorded,
          Restorable, WriteWindow, RestoreWindow, RetryWindow
  <2> QED
    BY <2>1, <2>2
<1>9. CASE OpenDatabase
  BY <1>9, <1>t DEF Goto, OpenDatabase, diskVars, envVars, genVars, PhaseInv, SnapInv, FreshInv,
     ExtInv, Recorded, Restorable, Gen, WriteWindow, RestoreWindow, RetryWindow
<1>10. CASE \E f \in Tracks : ReserveFinal(f)
  BY <1>10, <1>t DEF Goto, ReserveFinal, diskVars, envVars, genVars, PhaseInv, SnapInv,
     FreshInv, ExtInv, Recorded, Restorable, Gen, WriteWindow, RestoreWindow, RetryWindow
<1>11. CASE MoveStaged
  BY <1>11, <1>t DEF Goto, MoveStaged, envVars, genVars, memVars, PhaseInv, SnapInv, FreshInv,
     ExtInv, Recorded, Restorable, Gen, WriteWindow, RestoreWindow, RetryWindow
<1>12. CASE RecordAdded
  BY <1>12, <1>t DEF Goto, RecordAdded, diskVars, envVars, genVars, PhaseInv, SnapInv, FreshInv,
     ExtInv, Recorded, Restorable, Gen, WriteWindow, RestoreWindow, RetryWindow
<1>13. CASE UpdateMetadata
  BY <1>13, <1>t, UpdateIs
     DEF genVars, diskVars, SameRecords, PhaseInv, ExtInv, Recorded, Restorable, WriteWindow,
        RestoreWindow, RetryWindow
<1>14. CASE ReconcileCandidate
  BY <1>14, <1>t, ReconcileIs
     DEF ReconcileCandidate, SameRecords, genVars, diskVars, memVars, PhaseInv, ExtInv, Recorded,
        Restorable, WriteWindow, RestoreWindow, RetryWindow
<1>15. CASE DatabaseFence
  BY <1>15, <1>t DEF DatabaseFence, End, Fail, Fence, Goto, NoWork, diskVars, envVars, genVars,
     memVars, PhaseInv, SnapInv, FreshInv, ExtInv, Recorded, Restorable, Gen, WriteWindow,
     RestoreWindow, RetryWindow
<1>16. CASE ClearArtwork
  BY <1>16, <1>t DEF ClearArtwork, Goto, diskVars, envVars, memVars, PhaseInv, SnapInv,
     FreshInv, ExtInv, Recorded, Restorable, Gen, WriteWindow, RestoreWindow, RetryWindow
<1>17. CASE WriteArtwork
  BY <1>17, <1>t DEF Fault, Goto, RecordPublished, WriteArtwork, WriteFault, diskVars, envVars,
     genVars, memVars, PhaseInv, SnapInv, FreshInv, ExtInv, Recorded, Restorable, Gen,
     WriteWindow, RestoreWindow, RetryWindow
<1>18. CASE WriteDatabase
  BY <1>18, <1>t DEF Fault, Goto, RecordPublished, WriteDatabase, WriteFault, diskVars, envVars,
     genVars, memVars, PhaseInv, SnapInv, FreshInv, ExtInv, Recorded, Restorable, Gen,
     WriteWindow, RestoreWindow, RetryWindow
<1>19. CASE RecordWritten
  BY <1>19, <1>t DEF Goto, RecordPublished, RecordWritten, diskVars, envVars, genVars, memVars,
     PhaseInv, SnapInv, FreshInv, ExtInv, Recorded, Restorable, Gen, WriteWindow, RestoreWindow,
     RetryWindow
<1>20. CASE VerifyWritten
  <2>1. CASE pc' = "dbv"
    <3>1. exp' = Gen /\ pc = "verify" /\ UNCHANGED <<db, snap, mdb>>
      BY <1>20, <2>1
         DEF VerifyWritten, Mismatch, Fault, Goto, RecordVerified, genVars, diskVars, memVars,
            envVars
    <3>2. /\ journal'.before = journal.before /\ journal'.published = {}
          /\ journal'.verified = {Gen}
      BY <1>20, <2>1, VerifyIs, VerifyRecords
    <3>3. journal.phase = ReadyToPublish /\ snap.state = "full"
      BY <3>1 DEF PhaseInv, SnapInv
    <3>4. db.ext <= snap.db.ext
      BY <3>1, <3>3, <1>t DEF ExtInv, Recorded, Restorable, WriteWindow, RestoreWindow, RetryWindow
    <3>5. \A g \in Recorded' : g.db.ext <= db.ext /\ g.db.ext <= snap.db.ext
      BY <3>2, <3>3, <3>4, <1>t
         DEF ExtInv, Recorded, Restorable, WriteWindow, RestoreWindow, RetryWindow
    <3> QED
      BY <2>1, <3>1, <3>4, <3>5, <1>t
         DEF ExtInv, Recorded, Restorable, WriteWindow, RestoreWindow, RetryWindow
  <2>2. CASE pc' # "dbv"
    BY <1>20, <1>t, <2>2, VerifyIs, VerifyRecords
       DEF VerifyWritten, Mismatch, Fault, Goto, genVars, diskVars, memVars, envVars, PhaseInv,
          ExtInv, Recorded, Restorable, WriteWindow, RestoreWindow, RetryWindow
  <2> QED
    BY <2>1, <2>2
<1> QED
  BY <1>1, <1>2, <1>3, <1>4, <1>5, <1>6, <1>7, <1>8, <1>9, <1>10, <1>11, <1>12, <1>13, <1>14,
     <1>15, <1>16, <1>17, <1>18, <1>19, <1>20 DEF Publish

\* Publication after the verified database loses no edit of another program.
LEMMA ExtFinalize ==
  EditsSeen /\ Typed /\ IInv /\ ExtInv /\ Finalize => ExtInv' /\ db'.ext >= db.ext
<1> SUFFICES ASSUME EditsSeen, Typed, IInv, ExtInv, Finalize PROVE ExtInv' /\ db'.ext >= db.ext
  OBVIOUS
<1>t. /\ journal \in Journals /\ snap \in Snapshots /\ pc \in Points
      /\ Gen.db = db /\ db.ext \in Nat /\ exp.db.ext \in Nat /\ mdb.ext \in Nat
      /\ snap.db.ext \in Nat /\ \A g \in Recorded : g.db.ext \in Nat
  BY ExtTyped
<1>1. CASE CheckVerified
  BY <1>1, <1>t DEF CheckVerified, Fault, Goto, Mismatch, diskVars, envVars, genVars, memVars,
     PhaseInv, SnapInv, FreshInv, ExtInv, Recorded, Restorable, Gen, WriteWindow, RestoreWindow,
     RetryWindow
<1>2. CASE ManifestFence
  BY <1>2, <1>t DEF End, Fail, Fence, Goto, ManifestFence, NoWork, diskVars, envVars, genVars,
     memVars, PhaseInv, SnapInv, FreshInv, ExtInv, Recorded, Restorable, Gen, WriteWindow,
     RestoreWindow, RetryWindow
<1>3. CASE WriteManifest
  BY <1>3, <1>t DEF Fault, Goto, WriteManifest, diskVars, envVars, genVars, memVars, PhaseInv,
     SnapInv, FreshInv, ExtInv, Recorded, Restorable, Gen, WriteWindow, RestoreWindow,
     RetryWindow
<1>4. CASE RecordManifest
  <2>1. /\ journal'.before = journal.before
        /\ journal'.verified \subseteq {Gen} \cup journal.verified
        /\ journal'.published \subseteq {Gen} \cup journal.published
        /\ exp' = Gen /\ UNCHANGED <<db, snap, mdb>>
        /\ pc = "manrecord" /\ pc' \in {"authfence", "planfence"}
        /\ journal'.phase = DeviceManifestPublished
    BY <1>4, <1>t, ManifestIs DEF RecordManifest, Goto, RecordVerified, genVars, diskVars, memVars
  <2> QED
    BY <2>1, <1>t
       DEF PhaseInv, ExtInv, Recorded, Restorable, WriteWindow, RestoreWindow, RetryWindow
<1>5. CASE Reverify
  BY <1>5, <1>t, ResumedIs
     DEF Reverify, StillHeld, Mismatch, Fault, Goto, genVars, diskVars, memVars, envVars, PhaseInv,
        SnapInv, FreshInv, ExtInv, Recorded, Restorable, Gen, WriteWindow, RestoreWindow,
        RetryWindow
<1>6. CASE PlanFence
  BY <1>6, <1>t DEF End, Fail, Fence, Goto, NoWork, PlanFence, diskVars, envVars, genVars,
     memVars, PhaseInv, SnapInv, FreshInv, ExtInv, Recorded, Restorable, Gen, WriteWindow,
     RestoreWindow, RetryWindow
<1>7. CASE PlanProjections
  <2>1. CASE want # {}
    <3>1. exp' = Gen /\ pc = "projplan" /\ pc' = "ownfence" /\ UNCHANGED <<db, snap, mdb>>
      BY <1>7, <2>1 DEF PlanProjections, RecordVerified, Goto, genVars, diskVars, memVars, envVars
    <3>2. journal'.phase = RockboxProjectionsPrepared
      BY <1>7, <2>1, <3>1, <1>t, PlanIs DEF PlanProjections, Fail, End
    <3>3. Recorded' \subseteq Recorded \cup {Gen}
      BY <1>7, <2>1, <3>1, <1>t, PlanIs DEF PlanProjections, Fail, End, Recorded
    <3> QED
      BY <3>1, <3>2, <3>3, <1>t
         DEF ExtInv, Recorded, Restorable, WriteWindow, RestoreWindow, RetryWindow
  <2>2. CASE want = {}
    BY <1>7, <1>t, <2>2
       DEF PlanProjections, Fail, End, Gen, genVars, diskVars, memVars, envVars, ExtInv, Recorded,
          Restorable, WriteWindow, RestoreWindow, RetryWindow
  <2> QED
    BY <2>1, <2>2
<1>8. CASE OwnershipFence
  BY <1>8, <1>t DEF End, Fail, Fence, Goto, NoWork, OwnershipFence, diskVars, envVars, genVars,
     memVars, PhaseInv, SnapInv, FreshInv, ExtInv, Recorded, Restorable, Gen, WriteWindow,
     RestoreWindow, RetryWindow
<1>9. CASE WriteOwnership
  <2>1. CASE Interrupted
    <3>1. /\ journal'.phase = journal.phase /\ SameInputs(journal, journal')
        /\ journal'.before = journal.before /\ journal'.verified = journal.verified
        /\ journal'.published = {Gen}
      BY <2>1, <1>t, PublishedIs DEF Interrupted
    <3> QED
      BY <1>9, <1>t, <2>1, <3>1
         DEF WriteOwnership, Interrupted, End, SameInputs, genVars, diskVars, memVars, envVars,
            PhaseInv, SnapInv, FreshInv, ExtInv, Recorded, Restorable, Gen, WriteWindow,
            RestoreWindow, RetryWindow
  <2>2. CASE ~ Interrupted
    BY <1>9, <2>2, <1>t
       DEF WriteOwnership, Goto, genVars, diskVars, memVars, envVars, PhaseInv, SnapInv, FreshInv,
          ExtInv, Recorded, Restorable, Gen, WriteWindow, RestoreWindow, RetryWindow
  <2> QED
    BY <2>1, <2>2
<1>10. CASE PhaseOwnership
  <2>1. /\ journal'.phase = PlaylistOwnershipPublished /\ SameInputs(journal, journal')
        /\ journal'.before = journal.before /\ journal'.verified = journal.verified
        /\ journal'.published = journal.published
    BY <1>10, <1>t, PhaseIs DEF PhaseOwnership, SameRecords
  <2> QED
    BY <1>10, <1>t, <2>1
       DEF PhaseOwnership, Goto, SameInputs, genVars, diskVars, memVars, envVars, PhaseInv, SnapInv,
          FreshInv, ExtInv, Recorded, Restorable, Gen, WriteWindow, RestoreWindow, RetryWindow
<1>11. CASE RecordOwnership
  <2>1. /\ journal'.before = journal.before
        /\ journal'.verified \subseteq {Gen} \cup journal.verified
        /\ journal'.published \subseteq {Gen} \cup journal.published
        /\ exp' = Gen /\ UNCHANGED <<db, snap, mdb>>
        /\ pc = "ownrecord" /\ pc' = "boxfence"
        /\ journal'.phase = journal.phase
    BY <1>11, <1>t, RecordIs DEF RecordOwnership, Goto, RecordVerified, genVars, diskVars, memVars
  <2> QED
    BY <2>1, <1>t
       DEF PhaseInv, ExtInv, Recorded, Restorable, WriteWindow, RestoreWindow, RetryWindow
<1>12. CASE ProjectionFence
  BY <1>12, <1>t DEF End, Fail, Fence, Goto, NoWork, ProjectionFence, diskVars, envVars,
     genVars, memVars, PhaseInv, SnapInv, FreshInv, ExtInv, Recorded, Restorable, Gen,
     WriteWindow, RestoreWindow, RetryWindow
<1>13. CASE WriteProjection
  <2>1. CASE Interrupted
    <3>1. /\ journal'.phase = journal.phase /\ SameInputs(journal, journal')
        /\ journal'.before = journal.before /\ journal'.verified = journal.verified
        /\ journal'.published = {Gen}
      BY <2>1, <1>t, PublishedIs DEF Interrupted
    <3> QED
      BY <1>13, <1>t, <2>1, <3>1
         DEF WriteProjection, Interrupted, End, SameInputs, genVars, diskVars, memVars, envVars,
            PhaseInv, SnapInv, FreshInv, ExtInv, Recorded, Restorable, Gen, WriteWindow,
            RestoreWindow, RetryWindow
  <2>2. CASE ~ Interrupted
    BY <1>13, <2>2, <1>t
       DEF WriteProjection, Goto, genVars, diskVars, memVars, envVars, PhaseInv, SnapInv, FreshInv,
          ExtInv, Recorded, Restorable, Gen, WriteWindow, RestoreWindow, RetryWindow
  <2> QED
    BY <2>1, <2>2
<1>14. CASE RemovePrevious
  <2>1. CASE Interrupted
    <3>1. /\ journal'.phase = journal.phase /\ SameInputs(journal, journal')
        /\ journal'.before = journal.before /\ journal'.verified = journal.verified
        /\ journal'.published = {Gen}
      BY <2>1, <1>t, PublishedIs DEF Interrupted
    <3> QED
      BY <1>14, <1>t, <2>1, <3>1
         DEF RemovePrevious, Interrupted, End, SameInputs, genVars, diskVars, memVars, envVars,
            PhaseInv, SnapInv, FreshInv, ExtInv, Recorded, Restorable, Gen, WriteWindow,
            RestoreWindow, RetryWindow
  <2>2. CASE ~ Interrupted
    BY <1>14, <2>2, <1>t
       DEF RemovePrevious, Goto, genVars, diskVars, memVars, envVars, PhaseInv, SnapInv, FreshInv,
          ExtInv, Recorded, Restorable, Gen, WriteWindow, RestoreWindow, RetryWindow
  <2> QED
    BY <2>1, <2>2
<1>15. CASE PhaseProjection
  <2>1. /\ journal'.phase = RockboxProjectionsPublished /\ SameInputs(journal, journal')
        /\ journal'.before = journal.before /\ journal'.verified = journal.verified
        /\ journal'.published = journal.published
    BY <1>15, <1>t, PhaseIs DEF PhaseProjection, SameRecords
  <2> QED
    BY <1>15, <1>t, <2>1
       DEF PhaseProjection, Goto, SameInputs, genVars, diskVars, memVars, envVars, PhaseInv,
          SnapInv, FreshInv, ExtInv, Recorded, Restorable, Gen, WriteWindow, RestoreWindow,
          RetryWindow
<1>16. CASE RecordProjection
  <2>1. /\ journal'.before = journal.before
        /\ journal'.verified \subseteq {Gen} \cup journal.verified
        /\ journal'.published \subseteq {Gen} \cup journal.published
        /\ exp' = Gen /\ UNCHANGED <<db, snap, mdb>>
        /\ pc = "boxrecord" /\ pc' = "authfence"
        /\ journal'.phase = journal.phase
    BY <1>16, <1>t, RecordIs DEF RecordProjection, Goto, RecordVerified, genVars, diskVars, memVars
  <2> QED
    BY <2>1, <1>t
       DEF PhaseInv, ExtInv, Recorded, Restorable, WriteWindow, RestoreWindow, RetryWindow
<1>17. CASE AuthorityFence
  BY <1>17, <1>t DEF AuthorityFence, End, Fail, Fence, Goto, NoWork, diskVars, envVars, genVars,
     memVars, PhaseInv, SnapInv, FreshInv, ExtInv, Recorded, Restorable, Gen, WriteWindow,
     RestoreWindow, RetryWindow
<1>18. CASE WriteAuthority
  BY <1>18, <1>t DEF Goto, WriteAuthority, diskVars, envVars, memVars, PhaseInv, SnapInv,
     FreshInv, ExtInv, Recorded, Restorable, Gen, WriteWindow, RestoreWindow, RetryWindow
<1>19. CASE RecordAuthority
  <2>1. /\ journal'.before = journal.before
        /\ journal'.verified \subseteq {Gen} \cup journal.verified
        /\ journal'.published \subseteq {Gen} \cup journal.published
        /\ exp' = Gen /\ UNCHANGED <<db, snap, mdb>>
        /\ pc = "authrecord" /\ pc' = "cleanup"
        /\ journal'.phase = journal.phase
    BY <1>19, <1>t, RecordIs DEF RecordAuthority, Goto, RecordVerified, genVars, diskVars, memVars
  <2> QED
    BY <2>1, <1>t
       DEF PhaseInv, ExtInv, Recorded, Restorable, WriteWindow, RestoreWindow, RetryWindow
<1> QED
  BY <1>1, <1>2, <1>3, <1>4, <1>5, <1>6, <1>7, <1>8, <1>9, <1>10, <1>11, <1>12, <1>13, <1>14,
     <1>15, <1>16, <1>17, <1>18, <1>19 DEF Finalize

\* Removing what a closed journal leaves loses no edit of another program.
LEMMA ExtCleanup ==
  EditsSeen /\ Typed /\ IInv /\ ExtInv /\ Cleanup => ExtInv' /\ db'.ext >= db.ext
<1> SUFFICES ASSUME EditsSeen, Typed, IInv, ExtInv, Cleanup PROVE ExtInv' /\ db'.ext >= db.ext
  OBVIOUS
<1>t. /\ journal \in Journals /\ snap \in Snapshots /\ pc \in Points
      /\ Gen.db = db /\ db.ext \in Nat /\ exp.db.ext \in Nat /\ mdb.ext \in Nat
      /\ snap.db.ext \in Nat /\ \A g \in Recorded : g.db.ext \in Nat
  BY ExtTyped
<1>1. CASE CleanStaged
  BY <1>1, <1>t DEF CleanStaged, Goto, Unreferenced, envVars, genVars, memVars, PhaseInv,
     SnapInv, FreshInv, ExtInv, Recorded, Restorable, Gen, WriteWindow, RestoreWindow,
     RetryWindow
<1>2. CASE RemoveObsolete
  BY <1>2, <1>t DEF Goto, RemoveObsolete, Unreferenced, envVars, genVars, memVars, PhaseInv,
     SnapInv, FreshInv, ExtInv, Recorded, Restorable, Gen, WriteWindow, RestoreWindow,
     RetryWindow
<1>3. CASE SaveCleanup
  <2>1. /\ journal'.phase = CleanupComplete /\ SameInputs(journal, journal')
        /\ journal'.before = journal.before /\ journal'.verified = journal.verified
        /\ journal'.published = journal.published
    BY <1>3, <1>t, PhaseIs DEF SaveCleanup, SameRecords
  <2> QED
    BY <1>3, <1>t, <2>1
       DEF SaveCleanup, Goto, SameInputs, genVars, diskVars, memVars, envVars, PhaseInv, SnapInv,
          FreshInv, ExtInv, Recorded, Restorable, Gen, WriteWindow, RestoreWindow, RetryWindow
<1>4. CASE RemoveStagedDir
  BY <1>4, <1>t DEF End, Fail, Goto, NoWork, RemoveStagedDir, diskVars, envVars, genVars,
     memVars, PhaseInv, SnapInv, FreshInv, ExtInv, Recorded, Restorable, Gen, WriteWindow,
     RestoreWindow, RetryWindow
<1>5. CASE RemoveSnapshot
  BY <1>5, <1>t DEF End, Fail, Goto, NoWork, RemoveSnapshot, diskVars, envVars, genVars,
     memVars, PhaseInv, SnapInv, FreshInv, ExtInv, Recorded, Restorable, Gen, WriteWindow,
     RestoreWindow, RetryWindow
<1>6. CASE EmptySnapshot
  BY <1>6, <1>t DEF EmptySnapshot, Goto, envVars, genVars, memVars, PhaseInv, SnapInv, FreshInv,
     ExtInv, Recorded, Restorable, Gen, WriteWindow, RestoreWindow, RetryWindow
<1>7. CASE RemoveJournal
  BY <1>7, <1>t DEF Goto, NoJournal, NoWork, RemoveJournal, diskVars, envVars, genVars,
     PhaseInv, SnapInv, FreshInv, ExtInv, Recorded, Restorable, Gen, WriteWindow, RestoreWindow,
     RetryWindow
<1> QED
  BY <1>1, <1>2, <1>3, <1>4, <1>5, <1>6, <1>7 DEF Cleanup

\* Restoring the snapshot loses no edit of another program.
LEMMA ExtRollback ==
  EditsSeen /\ Typed /\ IInv /\ ExtInv /\ Rollback => ExtInv' /\ db'.ext >= db.ext
<1> SUFFICES ASSUME EditsSeen, Typed, IInv, ExtInv, Rollback PROVE ExtInv' /\ db'.ext >= db.ext
  OBVIOUS
<1>t. /\ journal \in Journals /\ snap \in Snapshots /\ pc \in Points
      /\ Gen.db = db /\ db.ext \in Nat /\ exp.db.ext \in Nat /\ mdb.ext \in Nat
      /\ snap.db.ext \in Nat /\ \A g \in Recorded : g.db.ext \in Nat
  BY ExtTyped
<1>1. CASE KnownRollback
  <2>1. RollbackKnown => Gen \in Recorded
    BY DEF RollbackKnown, Recorded
  <2> QED
    BY <1>1, <1>t, <2>1
       DEF KnownRollback, Goto, Fail, End, genVars, diskVars, memVars, envVars, ExtInv, Recorded,
          Restorable, WriteWindow, RestoreWindow, RetryWindow
<1>2. CASE RestoreClear
  BY <1>2, <1>t DEF End, Fail, Goto, NoWork, RestoreClear, diskVars, envVars, genVars, memVars,
     PhaseInv, SnapInv, FreshInv, ExtInv, Recorded, Restorable, Gen, WriteWindow, RestoreWindow,
     RetryWindow
<1>3. CASE RestoreArtwork
  BY <1>3, <1>t DEF Goto, RestoreArtwork, diskVars, envVars, memVars, PhaseInv, SnapInv,
     FreshInv, ExtInv, Recorded, Restorable, Gen, WriteWindow, RestoreWindow, RetryWindow
<1>4. CASE RestoreDatabase
  BY <1>4, <1>t DEF Goto, RestoreDatabase, diskVars, envVars, memVars, PhaseInv, SnapInv,
     FreshInv, ExtInv, Recorded, Restorable, Gen, WriteWindow, RestoreWindow, RetryWindow
<1>5. CASE \E f \in Tracks : RestoreStaged(f)
  BY <1>5, <1>t DEF Goto, Moved, Preserving, RestoreStaged, Unreferenced, envVars, genVars,
     memVars, PhaseInv, SnapInv, FreshInv, ExtInv, Recorded, Restorable, Gen, WriteWindow,
     RestoreWindow, RetryWindow
<1>6. CASE ResumeRestored
  <2>1. SameRecords(journal, journal') /\ journal'.phase = journal.phase
    BY <1>6, ResetIs DEF ResumeRestored, Typed
  <2> QED
    BY <1>6, <1>t, <2>1
       DEF ResumeRestored, Goto, SameRecords, genVars, diskVars, memVars, envVars, PhaseInv, ExtInv,
          Recorded, Restorable, WriteWindow, RestoreWindow, RetryWindow
<1>7. CASE UndoneRollback
  BY <1>7, <1>t DEF Goto, Moved, Reset, UndoneRollback, Unreferenced, diskVars, envVars,
     genVars, memVars, PhaseInv, SnapInv, FreshInv, ExtInv, Recorded, Restorable, Gen,
     WriteWindow, RestoreWindow, RetryWindow
<1>8. CASE MovedBack
  BY <1>8, <1>t DEF Goto, Moved, MovedBack, Unreferenced, diskVars, envVars, genVars, memVars,
     PhaseInv, SnapInv, FreshInv, ExtInv, Recorded, Restorable, Gen, WriteWindow, RestoreWindow,
     RetryWindow
<1>9. CASE DropStaged
  BY <1>9, <1>t DEF DropStaged, Goto, Preserving, Unreferenced, envVars, genVars, memVars,
     PhaseInv, SnapInv, FreshInv, ExtInv, Recorded, Restorable, Gen, WriteWindow, RestoreWindow,
     RetryWindow
<1>10. CASE RestoreManifest
  BY <1>10, <1>t DEF End, Fail, Goto, NoWork, RestoreManifest, diskVars, envVars, genVars,
     memVars, PhaseInv, SnapInv, FreshInv, ExtInv, Recorded, Restorable, Gen, WriteWindow,
     RestoreWindow, RetryWindow
<1>11. CASE FinishRollback
  <2>1. /\ UNCHANGED <<db, snap>> /\ exp' \in {exp, Gen} /\ pc' \in {"off", "rmstaged"}
        /\ Restorable' => Restorable
    BY <1>11, <1>t, FinishRecords
       DEF FinishRollback, Restored, Closed, End, Goto, Fail, genVars, diskVars, PhaseInv, SnapInv,
          Restorable
  <2>2. \/ Recorded' \subseteq Recorded
        \/ ~ Restorable' /\ Recorded' \subseteq Recorded \cup {Gen}
    BY <1>11, <1>t, FinishRecords DEF Restored, Closed, Recorded, Restorable
  <2> QED
    BY <2>1, <2>2, <1>t DEF ExtInv, Recorded, Restorable, WriteWindow, RestoreWindow, RetryWindow
<1> QED
  BY <1>1, <1>2, <1>3, <1>4, <1>5, <1>6, <1>7, <1>8, <1>9, <1>10, <1>11 DEF Rollback

\* A step of the environment loses no edit of another program.
LEMMA ExtEnvironment ==
  EditsSeen /\ Typed /\ IInv /\ ExtInv /\ Environment => ExtInv' /\ db'.ext >= db.ext
<1> SUFFICES ASSUME EditsSeen, Typed, IInv, ExtInv, Environment PROVE ExtInv' /\ db'.ext >= db.ext
  OBVIOUS
<1>t. /\ journal \in Journals /\ snap \in Snapshots /\ pc \in Points
      /\ Gen.db = db /\ db.ext \in Nat /\ exp.db.ext \in Nat /\ mdb.ext \in Nat
      /\ snap.db.ext \in Nat /\ \A g \in Recorded : g.db.ext \in Nat
  BY ExtTyped
<1>1. CASE ForeignWrite
  <2>1. /\ db'.ext = db.ext + 1 /\ UNCHANGED <<snap, journal, mdb, exp, pc>>
        /\ pc \in ForeignAt
    BY <1>1, ForeignIs, EditIs DEF ForeignWrite, diskVars, memVars
  <2>2. pc \notin WriteWindow \cup RestoreWindow \cup RetryWindow
    BY <2>1 DEF EditsSeen
  <2> QED
    BY <2>1, <2>2, <1>t DEF ExtInv, Recorded, Restorable, WriteWindow, RestoreWindow, RetryWindow
<1>2. CASE FirmwareNormalize
  BY <1>2, <1>t DEF Fault, FirmwareNormalize, diskVars, memVars, PhaseInv, SnapInv, FreshInv,
     ExtInv, Recorded, Restorable, Gen, WriteWindow, RestoreWindow, RetryWindow
<1>3. CASE LoseStaged
  BY <1>3, <1>t DEF Fault, LoseStaged, genVars, memVars, PhaseInv, SnapInv, FreshInv, ExtInv,
     Recorded, Restorable, Gen, WriteWindow, RestoreWindow, RetryWindow
<1>4. CASE Crash
  BY <1>4, <1>t DEF Crash, End, NoWork, genVars, PhaseInv, SnapInv, FreshInv, ExtInv, Recorded,
     Restorable, Gen, WriteWindow, RestoreWindow, RetryWindow
<1>5. CASE StopAdmission
  BY <1>5, <1>t DEF Goto, StopAdmission, diskVars, envVars, genVars, PhaseInv, SnapInv,
     FreshInv, ExtInv, Recorded, Restorable, Gen, WriteWindow, RestoreWindow, RetryWindow
<1>6. CASE EndSession
  BY <1>6, <1>t DEF End, EndSession, Fail, NoWork, diskVars, envVars, genVars, PhaseInv,
     SnapInv, FreshInv, ExtInv, Recorded, Restorable, Gen, WriteWindow, RestoreWindow,
     RetryWindow
<1>7. CASE \E w \in Works : BeginSync(w)
  BY <1>7, <1>t DEF BeginSync, diskVars, genVars, PhaseInv, SnapInv, FreshInv, ExtInv, Recorded,
     Restorable, Gen, WriteWindow, RestoreWindow, RetryWindow
<1> QED
  BY <1>1, <1>2, <1>3, <1>4, <1>5, <1>6, <1>7 DEF Environment

\* Acquiring the lease loses no edit of another program.
LEMMA ExtAcquire ==
  EditsSeen /\ Typed /\ IInv /\ ExtInv /\ Acquire => ExtInv' /\ db'.ext >= db.ext
<1> SUFFICES ASSUME EditsSeen, Typed, IInv, ExtInv, Acquire PROVE ExtInv' /\ db'.ext >= db.ext
  OBVIOUS
<1>t. /\ journal \in Journals /\ snap \in Snapshots /\ pc \in Points
      /\ Gen.db = db /\ db.ext \in Nat /\ exp.db.ext \in Nat /\ mdb.ext \in Nat
      /\ snap.db.ext \in Nat /\ \A g \in Recorded : g.db.ext \in Nat
  BY ExtTyped
<1>1. CASE Acquire
  BY <1>1, <1>t DEF Acquire, diskVars, envVars, genVars, PhaseInv, SnapInv, FreshInv, ExtInv,
     Recorded, Restorable, Gen, WriteWindow, RestoreWindow, RetryWindow
<1> QED
  BY <1>1

-----------------------------------------------------------------------------
(* The promises from the start, and the theorems.                            *)

\* Every track the device starts with has its thumbnails, and nothing is staged.
LEMMA PromisesInit == Init => ArtInv /\ InputsInv /\ ExtInv
<1> SUFFICES ASSUME Init PROVE ArtInv /\ InputsInv /\ ExtInv
  OBVIOUS
<1>1. ArtInv /\ InputsInv
  BY StartIs DEF ArtInv, InputsInv
<1>2. exp.db = db /\ db.ext = 0
  BY DEF Init, Gen
<1> QED
  BY <1>1, <1>2, StartIs DEF ExtInv, Recorded, Restorable, WriteWindow, RestoreWindow, RetryWindow

\* The three promises depend on nothing but the variables.
LEMMA PromisesFrame ==
  ASSUME UNCHANGED vars
  PROVE  (ArtInv => ArtInv') /\ (InputsInv => InputsInv') /\ (ExtInv => ExtInv')
<1>1. /\ UNCHANGED <<db, art, manifest, owner, boxes, profile>>
      /\ UNCHANGED <<media, pending, snap, journal, exp, mdb, work, want, cur, pc, why>>
  BY DEF vars, genVars, diskVars, memVars
<1>2. ArtInv => ArtInv'
  BY <1>1 DEF ArtInv, Target
<1>3. InputsInv => InputsInv'
  BY <1>1 DEF InputsInv, Kept
<1>4. ExtInv => ExtInv'
  BY <1>1 DEF ExtInv, Recorded, Restorable
<1> QED
  BY <1>2, <1>3, <1>4

\* Once a journal is gone or closed by a verified rollback, audio, database,
\* manifest, thumbnails, ownership record and Rockbox files name the same
\* tracks and playlists, and nothing of the session is left behind, if the
\* firmware leaves the thumbnails of an interrupted session alone.
THEOREM AgreementSafe == ASSUME CacheWhole, ArtworkKept PROVE Spec => []AuthoritiesAgree
<1>1. Init => ArtInv
  BY PromisesInit
<1>2. Typed /\ IInv /\ LoadInv /\ AgreeInv /\ ArtInv /\ [Next]_vars => ArtInv'
  BY ArtRecovery, ArtStaged, ArtPublish, ArtFinalize, ArtCleanup, ArtRollback, ArtEnvironment,
     ArtAcquire, PromisesFrame DEF Next, Session
<1>3. IInv /\ AgreeInv /\ ArtInv => AuthoritiesAgree
  BY DEF SnapInv, AgreeInv, SettledInv, Settled, Coherent, Gen, ArtInv, AuthoritiesAgree, AtRest
<1> QED
  BY <1>1, <1>2, <1>3, TypedAlways, InvariantHolds, AgreementHolds, PTL DEF Spec

\* A journal that is to be published again still has every file it would
\* publish, staged or already in place, if staged audio outlives the
\* disconnection of its device.
THEOREM RetrySafe == ASSUME CacheWhole, StagedKept PROVE Spec => []RetryKeepsInputs
<1>1. Init => InputsInv
  BY PromisesInit
<1>2. Typed /\ IInv /\ LoadInv /\ AgreeInv /\ InputsInv /\ [Next]_vars => InputsInv'
  BY InputsRecovery, InputsStaged, InputsPublish, InputsFinalize, InputsCleanup, InputsRollback,
     InputsEnvironment, InputsAcquire, PromisesFrame DEF Next, Session
<1>3. InputsInv => RetryKeepsInputs
  BY DEF InputsInv, Kept, RetryKeepsInputs
<1> QED
  BY <1>1, <1>2, <1>3, TypedAlways, InvariantHolds, AgreementHolds, PTL DEF Spec

\* No step of Classick overwrites an edit another program made to the database,
\* if no such edit falls between a comparison of the live generation and the
\* write, the record or the restore behind it.
THEOREM ForeignSafe == ASSUME CacheWhole, EditsSeen PROVE Spec => ForeignPreserved
<1>1. Init => ExtInv
  BY PromisesInit
<1>2. Typed /\ IInv /\ ExtInv /\ [Next]_vars => ExtInv' /\ [db'.ext >= db.ext]_vars
  BY ExtRecovery, ExtStaged, ExtPublish, ExtFinalize, ExtCleanup, ExtRollback, ExtEnvironment,
     ExtAcquire, PromisesFrame DEF Next, Session
<1> QED
  BY <1>1, <1>2, TypedAlways, InvariantHolds, PTL DEF Spec, ForeignPreserved
=============================================================================
