----------------------------- MODULE Checkpoint -----------------------------
(* One device's checkpoint transaction: the journalled publication of staged *)
(* audio, database, artwork, manifest, playlist ownership, Rockbox files and *)
(* portable profile, its rollbacks, and the recovery that runs at the start  *)
(* of every session (sync_transaction.rs, pending_session.rs, the snapshot   *)
(* of sync_transaction/rollback.rs and the fence of device_coordination.rs). *)
(*                                                                           *)
(* The device lease admits one session at a time, so one program counter is  *)
(* enough.  Every action is one durable effect (an atomic file replacement,  *)
(* a rename, a removal) with the in-memory work around it; a crash, or an    *)
(* error the code propagates with `?`, ends the session between two of them. *)
EXTENDS Naturals, FiniteSets

CONSTANTS
  Tracks,        \* audio files / database tracks
  InitialTracks, \* what the device holds at first
  ListVersions,  \* versions of the managed playlists; 0 is "none"
  Works,         \* the checkpoints a session may decide to build
  RecoveryWants, \* the desired playlists a recovering session may resolve
  CrashAt,       \* the program points at which the session may die
  FaultAt,       \* the operations that may report an error
  ForeignAt,     \* the program points at which another program may write
  MaxCrashes, MaxFaults, MaxForeign, MaxSyncs

Contents  == [tracks : SUBSET Tracks, tags : {0, 1}]
Databases == [tracks : SUBSET Tracks, tags : {0, 1}, lists : ListVersions, ext : Nat]
\* Options are sets of at most one element.
WorkKinds == [staged : SUBSET Tracks, obsolete : SUBSET Tracks, meta : BOOLEAN,
              lists : SUBSET ListVersions]

ASSUME ConstantsTyped ==
  /\ InitialTracks \subseteq Tracks
  /\ 0 \in ListVersions /\ ListVersions \subseteq Nat
  /\ Works \subseteq WorkKinds
  /\ \A w \in Works : w.staged \cap w.obsolete = {} /\ \A x, y \in w.lists : x = y
  /\ RecoveryWants \subseteq SUBSET ListVersions
  /\ MaxCrashes \in Nat /\ MaxFaults \in Nat /\ MaxForeign \in Nat /\ MaxSyncs \in Nat

VARIABLES
  \* authoritative device state, which a generation captures
  db,       \* iTunesDB: its tracks, tag version, playlist version, foreign edits
  art,      \* tracks whose thumbnails ArtworkDB and the .ithmb files hold
  manifest, \* classick/manifest.json
  owner,    \* the playlist version the ownership record names
  boxes,    \* playlist versions projected as Rockbox files
  profile,  \* the manifest content profile.json's companion hash names
  \* the rest of the device
  media,    \* audio in iPod_Control/Music
  pending,  \* audio in the session's .staged directory
  orphans,  \* staged audio left without any journal
  snap,     \* the session's rollback snapshot
  journal,  \* the session's journal
  \* the session's process
  pc, exp, mdb, work, want, cur, why, out,
  \* budgets of the environment
  crashes, faults, foreign, syncs

genVars  == <<db, art, manifest, owner, boxes, profile>>
diskVars == <<media, pending, orphans, snap>>
memVars  == <<mdb, work, want, cur>>
envVars  == <<crashes, faults, foreign, syncs>>
vars == <<genVars, diskVars, journal, memVars, exp, pc, why, out, envVars>>

-----------------------------------------------------------------------------
(* Journal phases, in the order of the enum; Absent means no journal file.   *)
Absent == 0
Staging == 1
ReadyToPublish == 2
DatabaseVerified == 3
DeviceManifestPublished == 4
RockboxProjectionsPrepared == 5
PlaylistOwnershipPublished == 6
RockboxProjectionsPublished == 7
CleanupComplete == 8
RollbackComplete == 9

Generations == [db : Databases, art : SUBSET Tracks, man : Contents,
                own : ListVersions, box : SUBSET ListVersions, prof : Contents]

\* generation::capture: the content of every authoritative file.
Gen == [db |-> db, art |-> art, man |-> manifest, own |-> owner, box |-> boxes, prof |-> profile]

NoJournal ==
  [phase |-> Absent, before |-> {}, published |-> {}, verified |-> {},
   staged |-> {}, final |-> {}, dbids |-> {}, obsolete |-> {}, meta |-> FALSE,
   cand |-> {}, pre |-> {}, own |-> {}, seen |-> {}, plan |-> FALSE]

\* PendingSession::new filled by the apply loop: what is staged so far, and the
\* replaced audio and tag updates of the albums that are complete.
NewJournal(staged) ==
  LET complete == work.staged \subseteq staged
  IN  [NoJournal EXCEPT !.phase = Staging, !.staged = staged,
                        !.obsolete = IF complete THEN work.obsolete ELSE {},
                        !.meta = complete /\ work.meta]

\* PendingSession::validate, which save and discover both run.
Valid(j) ==
  /\ j.before = {} => j.published = {} /\ j.verified = {}
  /\ j.phase < DatabaseVerified => j.verified = {}
  /\ j.before # {} /\ j.phase >= DatabaseVerified => j.verified # {}
  /\ j.own = {} => j.seen = {}
  /\ j.plan => j.phase >= RockboxProjectionsPrepared
  /\ ~ j.plan => /\ ~ (j.phase \in RockboxProjectionsPrepared .. RockboxProjectionsPublished)
                 /\ ~ (j.phase = CleanupComplete /\ j.own # {})

\* Mutant: the verified playlist memberships survive the reset.
Reset_KeepsSeen(j) ==
  [j EXCEPT !.final = {}, !.dbids = {}, !.cand = {}, !.own = {}, !.plan = FALSE]

\* Mutant: the reset forgets the final paths and keeps the database ids.
Reset_KeepsDbids(j) ==
  [j EXCEPT !.final = {}, !.cand = {}, !.own = {}, !.seen = {}, !.plan = FALSE]

\* reset_staged_publication
Reset(j) == [j EXCEPT !.final = {}, !.dbids = {}, !.cand = {}, !.own = {}, !.seen = {},
                      !.plan = FALSE]

\* The candidate manifest the publication loop has built so far.
Candidate(done, tags) ==
  [tracks |-> (manifest.tracks \ journal.obsolete) \cup done, tags |-> tags]

\* The tags the metadata updates of the journal bring.
NewTags == IF journal.meta THEN 1 - manifest.tags ELSE manifest.tags

\* verify_candidate: the reopened database holds every candidate track with its
\* artwork and no obsolete one.  Tags are not compared.
CandidateHeld ==
  \A c \in journal.cand :
    /\ c.tracks \subseteq db.tracks
    /\ c.tracks \subseteq art
    /\ \A o \in journal.obsolete : o \in c.tracks \/ o \notin db.tracks

\* verify_managed_playlists
PlaylistsHeld == journal.own \subseteq {db.lists}

\* Mutant: recorded paths are removed whether or not the database names them.
Unreferenced_All(files) == files

\* cleanup_unreferenced_staged_files: the database's own paths are never removed.
Unreferenced(files) == files \ db.tracks

\* Mutant: a retried journal is not matched against its recorded predecessor.
KnownLive_FreshOnly(j) ==
  \/ j.phase <= ReadyToPublish /\ j.verified = {} /\ j.before = {}
  \/ /\ j.phase >= DatabaseVerified /\ j.before # {} /\ j.verified # {}
     /\ (IF j.published # {} THEN j.published ELSE j.verified) = {Gen}

\* prepare_generation_journal: the recorded generation this phase expects live.
KnownLive(j) ==
  \/ /\ j.phase <= ReadyToPublish /\ j.verified = {}
     /\ (IF j.published # {} THEN j.published ELSE j.before) \subseteq {Gen}
  \/ /\ j.phase >= DatabaseVerified /\ j.before # {} /\ j.verified # {}
     /\ (IF j.published # {} THEN j.published ELSE j.verified) = {Gen}

\* Mutant: a verified rollback is published like any other journal.
Terminal_Never(j) == FALSE

\* A verified rollback awaits a person.
Terminal(j) == j.phase = RollbackComplete

\* require_known_rollback_generation
RollbackKnown ==
  LET known == IF journal.verified # {} THEN journal.verified
               ELSE IF journal.published # {} THEN journal.published
               ELSE journal.before
  IN  known = {Gen}

\* firmware_removed_only_ithmb_outputs
FirmwareOnly ==
  \E v \in journal.verified :
    /\ art \subseteq v.art /\ art # v.art
    /\ Gen = [v EXCEPT !.art = art]

\* The Rockbox files that project a playlist version.
Projection(v) == {v} \ {0}

-----------------------------------------------------------------------------
Journals == [phase : Absent .. RollbackComplete,
             before : SUBSET Generations, published : SUBSET Generations,
             verified : SUBSET Generations,
             staged : SUBSET Tracks, final : SUBSET Tracks, dbids : SUBSET Tracks,
             obsolete : SUBSET Tracks, meta : BOOLEAN,
             cand : SUBSET Contents, pre : SUBSET Contents,
             own : SUBSET ListVersions, seen : SUBSET ListVersions, plan : BOOLEAN]
Snapshots == [state : {"none", "partial", "full"}, db : Databases, art : SUBSET Tracks]

\* Where a session can be, the branch of recovery or rollback it is in, and how
\* the last session ended.
Points == {"off", "plan", "stage", "recover", "fence", "prepare", "artwork", "preimage",
  "snapshot", "snapfill", "dispatch", "resume", "open", "add", "move", "record", "desire",
  "dbfence", "artclear", "artwrite", "dbwrite", "dbrecord", "verify", "dbv", "manfence",
  "manwrite", "manrecord", "reverify", "planfence", "projplan", "ownfence", "ownwrite",
  "ownphase", "ownrecord", "boxfence", "boxwrite", "boxremove", "boxphase", "boxrecord",
  "authfence", "authwrite", "authrecord", "cleanup", "obsolete", "savecleanup", "rmstaged",
  "rmsnap", "rmsnap2", "rmjournal", "known", "restore", "restoreart", "restoredb", "rbclean",
  "rbman", "rbdone", "abandonsave", "abandondir"}
Causes == {"none", "retry", "terminal", "resume", "undone", "firmware", "abandon"}
Outcomes == {"idle", "running", "blocked", "failed", "terminal", "crashed"}

Typed ==
  /\ db \in Databases /\ art \in SUBSET Tracks /\ manifest \in Contents
  /\ owner \in ListVersions /\ boxes \in SUBSET ListVersions /\ profile \in Contents
  /\ media \in SUBSET Tracks /\ pending \in SUBSET Tracks /\ orphans \in SUBSET Tracks
  /\ snap \in Snapshots /\ journal \in Journals
  /\ exp \in Generations /\ mdb \in Databases /\ work \in WorkKinds
  /\ want \in SUBSET ListVersions /\ cur \in SUBSET Tracks
  /\ pc \in Points /\ why \in Causes /\ out \in Outcomes
  /\ crashes \in 0..MaxCrashes /\ faults \in 0..MaxFaults
  /\ foreign \in 0..MaxForeign /\ syncs \in 0..MaxSyncs

\* The record of a staged file is filled in in an order: it has a database id only
\* once it has its final path, and both go when the publication is reset
\* (StagedFile).  The file being published is in the journal before it is moved.
RecordsFilled ==
  /\ journal.final \subseteq journal.staged /\ journal.dbids \subseteq journal.final
  /\ cur # {} => pc \in {"move", "record"} /\ cur \subseteq journal.final

\* Types, and the shape of the journal's records of the staged files.
TypeOK == Typed /\ RecordsFilled

NoWork == [staged |-> {}, obsolete |-> {}, meta |-> FALSE, lists |-> {}]

Init ==
  /\ db = [tracks |-> InitialTracks, tags |-> 0, lists |-> 0, ext |-> 0]
  /\ art = InitialTracks
  /\ manifest = [tracks |-> InitialTracks, tags |-> 0]
  /\ profile = manifest
  /\ owner = 0 /\ boxes = {}
  /\ media = InitialTracks /\ pending = {} /\ orphans = {}
  /\ snap = [state |-> "none", db |-> db, art |-> art]
  /\ journal = NoJournal
  /\ exp = Gen /\ mdb = db /\ work = NoWork /\ want = {} /\ cur = {}
  /\ pc = "off" /\ why = "none" /\ out = "idle"
  /\ crashes = 0 /\ faults = 0 /\ foreign = 0 /\ syncs = 0

-----------------------------------------------------------------------------
(* Steps of the process: where control goes and what the step leaves alone.  *)
Goto(p) == pc' = p /\ UNCHANGED <<out, envVars>>

\* The session ends: the lease is released and its memory is gone.
End(outcome) ==
  /\ pc' = "off" /\ out' = outcome /\ why' = "none"
  /\ exp' = Gen /\ mdb' = db /\ work' = NoWork /\ want' = {} /\ cur' = {}

Fail(outcome) ==
  End(outcome) /\ UNCHANGED <<genVars, diskVars, journal, envVars>>

\* An operation reports an error.
Fault(p) ==
  /\ p \in FaultAt /\ faults < MaxFaults
  /\ faults' = faults + 1 /\ UNCHANGED <<crashes, foreign, syncs>>

\* Mutant: the live generation is not compared.
Fence_Open(from, to) ==
  pc = from /\ Goto(to) /\ UNCHANGED <<genVars, diskVars, journal, memVars, exp, why>>

\* verify_generation_fence: continue only over the expected generation.
Fence(from, to) ==
  /\ pc = from
  /\ \/ /\ exp = Gen
        /\ Goto(to)
        /\ UNCHANGED <<genVars, diskVars, journal, memVars, exp, why>>
     \/ exp # Gen /\ Fail("blocked")

\* record_verified_generation and record_published_generation: capture the live
\* generation, save the journal with it and make it the expected one.
RecordVerified(j) ==
  /\ journal' = [j EXCEPT !.published = {}, !.verified = {Gen}]
  /\ exp' = Gen
RecordPublished(j) ==
  /\ journal' = [j EXCEPT !.published = {Gen}]
  /\ exp' = Gen

-----------------------------------------------------------------------------
(* The environment.                                                          *)

\* Another program edits the database without honouring the lease.
ForeignWrite ==
  /\ foreign < MaxForeign /\ pc \in ForeignAt
  /\ foreign' = foreign + 1
  /\ db' = [db EXCEPT !.ext = @ + 1]
  /\ UNCHANGED <<art, manifest, owner, boxes, profile, diskVars, journal, memVars, exp, pc, why,
                 out, crashes, faults, syncs>>

\* The firmware drops generated .ithmb files once the device leaves disk mode
\* (a loss without an open transaction is the next rewrite's to repair).
FirmwareNormalize ==
  /\ pc = "off" /\ art # {} /\ journal.phase \in Staging .. CleanupComplete
  /\ Fault("firmware")
  /\ art' = {}
  /\ UNCHANGED <<db, manifest, owner, boxes, profile, diskVars, journal, memVars, exp, pc, why,
                 out>>

\* The staged audio of a disconnected device is lost.
LoseStaged ==
  /\ pc = "off" /\ pending # {} /\ Fault("lose")
  /\ pending' = {}
  /\ UNCHANGED <<genVars, media, orphans, snap, journal, memVars, exp, pc, why, out>>

\* The process dies or the device goes away; a step that failed with an error
\* the code only propagates has the same effect.
Crash ==
  /\ pc \in CrashAt /\ crashes < MaxCrashes
  /\ crashes' = crashes + 1
  /\ End("crashed")
  /\ IF journal.phase = Absent
       THEN orphans' = orphans \cup pending /\ pending' = {}
       ELSE UNCHANGED <<orphans, pending>>
  /\ UNCHANGED <<genVars, media, snap, journal, faults, foreign, syncs>>

-----------------------------------------------------------------------------
(* Sessions and staging (device_coordination.rs, apply_loop.rs).             *)

\* DeviceMutationSession::acquire, then run_connected: pending journals first.
Acquire ==
  /\ pc = "off"
  /\ exp' = Gen
  /\ IF journal.phase = Absent
       THEN pc' = "plan" /\ want' = {}
       ELSE pc' = "recover" /\ want' \in RecoveryWants
  /\ out' = "running"
  /\ UNCHANGED <<genVars, diskVars, journal, mdb, work, cur, why, envVars>>

EndSession == pc = "plan" /\ Fail("idle")

BeginSync(w) ==
  /\ pc = "plan" /\ syncs < MaxSyncs
  /\ w.obsolete \subseteq db.tracks /\ w.staged \cap (db.tracks \cup media) = {}
  /\ w.meta => \E t \in db.tracks : t \notin w.obsolete
  /\ work' = w /\ want' = w.lists /\ syncs' = syncs + 1
  /\ pc' = "stage" /\ why' = "none"
  /\ UNCHANGED <<genVars, diskVars, journal, mdb, exp, cur, out, crashes, faults, foreign>>

HasAlbums == work.staged # {} \/ work.obsolete # {} \/ work.meta
Saved == journal = NewJournal(pending)

\* stage_transcoded_result: copy one finished file into the .staged directory.
StageFile(f) ==
  /\ pc = "stage" /\ f \in work.staged \ pending
  /\ pending' = pending \cup {f}
  /\ Goto("stage")
  /\ UNCHANGED <<genVars, media, orphans, snap, journal, memVars, exp, why>>

\* run_staged_sync: the journal is saved once per album.
SaveAlbum ==
  /\ pc = "stage" /\ ~ Saved
  /\ pending # {} \/ (work.staged = {} /\ HasAlbums)
  /\ journal' = NewJournal(pending)
  /\ Goto("stage")
  /\ UNCHANGED <<genVars, diskVars, memVars, exp, why>>

\* Cancel or pause: no further audio is admitted; what was staged is published.
StopAdmission ==
  /\ pc = "stage" /\ work.staged # pending
  /\ work' = [work EXCEPT !.staged = pending, !.obsolete = {}, !.meta = FALSE]
  /\ Goto("stage")
  /\ UNCHANGED <<genVars, diskVars, journal, mdb, want, cur, exp, why>>

\* The loop is over: publish, or finish when there is nothing to publish.
FinishStaging ==
  /\ pc = "stage" /\ pending = work.staged /\ (HasAlbums => Saved)
  /\ Goto(IF journal.phase # Absent \/ want # {} THEN "fence" ELSE "plan")
  /\ UNCHANGED <<genVars, diskVars, journal, memVars, exp, why>>

-----------------------------------------------------------------------------
(* Publication, first half: the journal, its artwork, the manifest preimage  *)
(* and the rollback snapshot (publish_with_options, publish_unfenced_...).   *)

PublishFence == Fence("fence", "prepare")

\* prepare_generation_journal and the save behind it.
Prepare ==
  /\ pc = "prepare"
  /\ LET j == IF journal.phase = Absent THEN NewJournal(pending) ELSE journal
     IN \/ Terminal(j) /\ Fail("terminal")
        \/ ~ Terminal(j) /\ ~ KnownLive(j) /\ Fail("blocked")
        \/ /\ ~ Terminal(j) /\ KnownLive(j)
           /\ journal' = [j EXCEPT !.before = IF @ = {} THEN {Gen} ELSE @]
           /\ Goto(IF j.phase = Staging THEN "artwork" ELSE "preimage")
           /\ UNCHANGED <<genVars, diskVars, memVars, exp, why>>

\* prepare_all_artwork needs every source in this host's artwork cache.
PrepareArtwork ==
  /\ pc = "artwork"
  /\ \/ /\ journal' = [journal EXCEPT !.phase = ReadyToPublish]
        /\ Goto("preimage")
        /\ UNCHANGED <<genVars, diskVars, memVars, exp, why>>
     \/ /\ Fault("artwork") /\ End("failed")
        /\ UNCHANGED <<genVars, diskVars, journal>>

\* ensure_device_manifest_preimage
EnsurePreimage ==
  /\ pc = "preimage"
  /\ \/ /\ journal.pre = {} /\ journal.phase >= DatabaseVerified
        /\ Fail("blocked")
     \/ /\ journal.pre # {} \/ journal.phase < DatabaseVerified
        /\ journal' = [journal EXCEPT !.pre = IF @ = {} THEN {manifest} ELSE @]
        /\ Goto("snapshot")
        /\ UNCHANGED <<genVars, diskVars, memVars, exp, why>>

\* Mutant: a snapshot directory that exists is taken for a snapshot.
EnsureSnapshot_AnyDir ==
  /\ pc = "snapshot"
  /\ \/ /\ snap.state = "none"
        /\ snap' = [snap EXCEPT !.state = "partial"] /\ Goto("snapfill")
        /\ UNCHANGED <<genVars, media, pending, orphans, journal, memVars, exp, why>>
     \/ /\ snap.state # "none" /\ Goto("dispatch")
        /\ UNCHANGED <<genVars, diskVars, journal, memVars, exp, why>>

\* ensure_snapshot: create the directory, or validate the one that exists.
EnsureSnapshot ==
  /\ pc = "snapshot"
  /\ \/ /\ snap.state = "none"
        /\ snap' = [snap EXCEPT !.state = "partial"] /\ Goto("snapfill")
        /\ UNCHANGED <<genVars, media, pending, orphans, journal, memVars, exp, why>>
     \/ /\ snap.state = "full" /\ Goto("dispatch")
        /\ UNCHANGED <<genVars, diskVars, journal, memVars, exp, why>>
     \/ snap.state = "partial" /\ Fail("blocked")

\* The copies, then snapshot.json that makes them a snapshot.
FillSnapshot ==
  /\ pc = "snapfill"
  /\ snap' = [state |-> "full", db |-> db, art |-> art]
  /\ Goto("dispatch")
  /\ UNCHANGED <<genVars, media, pending, orphans, journal, memVars, exp, why>>

Dispatch ==
  /\ pc = "dispatch"
  /\ Goto(IF journal.phase = ReadyToPublish THEN "resume"
          ELSE IF journal.phase = DatabaseVerified THEN "dbv" ELSE "reverify")
  /\ UNCHANGED <<genVars, diskVars, journal, memVars, exp, why>>

-----------------------------------------------------------------------------
(* Publication of the database (resume_or_publish_database).                 *)

\* A journalled candidate: adopt the live database if it holds it, else restore.
ResumeCandidate ==
  /\ pc = "resume"
  /\ UNCHANGED <<genVars, diskVars, memVars>>
  /\ \/ journal.cand = {} /\ Goto("open") /\ UNCHANGED <<journal, exp, why>>
     \/ /\ journal.cand # {} /\ CandidateHeld
        /\ RecordVerified([journal EXCEPT !.phase = DatabaseVerified])
        /\ Goto("dbv") /\ UNCHANGED why
     \/ /\ journal.cand # {} /\ ~ CandidateHeld
        /\ why' = "resume" /\ Goto("restore") /\ UNCHANGED <<journal, exp>>

\* Parse the database and unlink the obsolete tracks in memory.
OpenDatabase ==
  /\ pc = "open"
  /\ mdb' = [db EXCEPT !.tracks = @ \ journal.obsolete]
  /\ cur' = {}
  /\ Goto("add")
  /\ UNCHANGED <<genVars, diskVars, journal, work, want, exp, why>>

\* add_track_with_staged_file_strict journals the final path, then moves the
\* file; the loop then journals the new track and the candidate.
ReserveFinal(f) ==
  /\ pc = "add" /\ f \in journal.staged \ mdb.tracks
  /\ journal' = [journal EXCEPT !.final = @ \cup {f}]
  /\ cur' = {f}
  /\ Goto("move")
  /\ UNCHANGED <<genVars, diskVars, mdb, work, want, exp, why>>

MoveStaged ==
  /\ pc = "move"
  /\ media' = media \cup cur /\ pending' = pending \ cur
  /\ Goto("record")
  /\ UNCHANGED <<genVars, orphans, snap, journal, memVars, exp, why>>

RecordAdded ==
  /\ pc = "record"
  /\ LET added == (mdb.tracks \cap journal.staged) \cup cur
     IN journal' = [journal EXCEPT !.dbids = @ \cup cur,
                                   !.cand = {Candidate(added, manifest.tags)}]
  /\ mdb' = [mdb EXCEPT !.tracks = @ \cup cur]
  /\ cur' = {}
  /\ Goto("add")
  /\ UNCHANGED <<genVars, diskVars, work, want, exp, why>>

\* Tags and thumbnails of unchanged audio, journalled before the write.
UpdateMetadata ==
  /\ pc = "add" /\ journal.staged \subseteq mdb.tracks
  /\ IF journal.meta
       THEN /\ mdb' = [mdb EXCEPT !.tags = NewTags]
            /\ journal' = [journal EXCEPT !.cand = {Candidate(journal.staged, NewTags)}]
       ELSE UNCHANGED <<mdb, journal>>
  /\ Goto("desire")
  /\ UNCHANGED <<genVars, diskVars, work, want, cur, exp, why>>

\* reconcile_playlists_candidate_step and the save of the final candidate.
ReconcileCandidate ==
  /\ pc = "desire"
  /\ \/ /\ \E v \in IF want = {} THEN {mdb.lists} ELSE want : mdb' = [mdb EXCEPT !.lists = v]
        /\ journal' = [journal EXCEPT !.own = want,
                                      !.cand = {Candidate(journal.staged, NewTags)}]
        /\ Goto("dbfence")
        /\ UNCHANGED <<genVars, diskVars, work, want, cur, exp, why>>
     \/ /\ Fault("desire") /\ pc' = "known" /\ why' = "retry"
        /\ UNCHANGED <<genVars, diskVars, journal, memVars, exp, out>>

DatabaseFence == Fence("dbfence", "artclear")

\* remove_stale_artwork_outputs, then libgpod writes artwork and iTunesDB.
\* A failure leaves what was written so far and records it before rolling back.
WriteFault ==
  /\ Fault("write") /\ pc' = "known" /\ why' = "retry"
  /\ RecordPublished(journal)
  /\ UNCHANGED <<genVars, diskVars, memVars, out>>

ClearArtwork ==
  /\ pc = "artclear"
  /\ art' = {}
  /\ Goto("artwrite")
  /\ UNCHANGED <<db, manifest, owner, boxes, profile, diskVars, journal, memVars, exp, why>>

WriteArtwork ==
  /\ pc = "artwrite"
  /\ \/ /\ art' = art \cup mdb.tracks /\ Goto("dbwrite")
        /\ UNCHANGED <<db, manifest, owner, boxes, profile, diskVars, journal, memVars, exp, why>>
     \/ WriteFault

WriteDatabase ==
  /\ pc = "dbwrite"
  /\ \/ /\ db' = mdb /\ Goto("dbrecord")
        /\ UNCHANGED <<art, manifest, owner, boxes, profile, diskVars, journal, memVars, exp, why>>
     \/ WriteFault

RecordWritten ==
  /\ pc = "dbrecord"
  /\ RecordPublished(journal)
  /\ Goto("verify")
  /\ UNCHANGED <<genVars, diskVars, memVars, why>>

\* A failed check of the written database: roll back and keep the inputs
\* ("retry"), or give the session up for good ("terminal").
Mismatch(held, point, cause) ==
  /\ pc' = "known" /\ why' = cause
  /\ \/ ~ held /\ UNCHANGED envVars
     \/ Fault(point)
  /\ UNCHANGED <<genVars, diskVars, journal, memVars, exp, out>>

VerifyWritten ==
  /\ pc = "verify"
  /\ \/ /\ CandidateHeld /\ PlaylistsHeld
        /\ RecordVerified([journal EXCEPT !.phase = DatabaseVerified, !.seen = @ \cup journal.own])
        /\ Goto("dbv")
        /\ UNCHANGED <<genVars, diskVars, memVars, why>>
     \/ Mismatch(CandidateHeld /\ PlaylistsHeld, "verify", "retry")

-----------------------------------------------------------------------------
(* Publication of the manifest, playlists, Rockbox files and profile.        *)

\* The database of a DatabaseVerified journal is checked once more.
CheckVerified ==
  /\ pc = "dbv"
  /\ \/ /\ CandidateHeld /\ PlaylistsHeld
        /\ journal' = [journal EXCEPT !.seen = journal.own]
        /\ Goto("manfence")
        /\ UNCHANGED <<genVars, diskVars, memVars, exp, why>>
     \/ Mismatch(CandidateHeld /\ PlaylistsHeld, "dbv", "terminal")

ManifestFence == Fence("manfence", "manwrite")

WriteManifest ==
  /\ pc = "manwrite"
  /\ \/ /\ manifest' \in journal.cand
        /\ Goto("manrecord")
        /\ UNCHANGED <<db, art, owner, boxes, profile, diskVars, journal, memVars, exp, why>>
     \/ /\ Fault("manifest") /\ pc' = "known" /\ why' = "retry"
        /\ UNCHANGED <<genVars, diskVars, journal, memVars, exp, out>>

RecordManifest ==
  /\ pc = "manrecord"
  /\ RecordVerified([journal EXCEPT !.phase = DeviceManifestPublished])
  /\ Goto(IF journal.own = {} THEN "authfence" ELSE "planfence")
  /\ UNCHANGED <<genVars, diskVars, memVars, why>>

\* Mutant: a resumed journal skips its cleanup.
Resumed_SkipCleanup(j) == IF j.own = {} THEN "rmstaged" ELSE "planfence"

\* Where a journal past DatabaseVerified continues: without playlist ownership
\* DeviceManifestPublished goes straight to the cleanup.
Resumed(j) ==
  IF j.phase = CleanupComplete THEN "rmstaged"
  ELSE IF j.own = {} THEN "cleanup"
  ELSE CASE j.phase = DeviceManifestPublished -> "planfence"
         [] j.phase = RockboxProjectionsPrepared -> "ownfence"
         [] j.phase = PlaylistOwnershipPublished -> "boxfence"
         [] OTHER -> "authfence"

\* The database still holds what this journal verified before.
StillHeld == CandidateHeld /\ PlaylistsHeld /\ journal.seen = journal.own

Reverify ==
  /\ pc = "reverify"
  /\ \/ /\ StillHeld
        /\ Goto(Resumed(journal))
        /\ UNCHANGED <<genVars, diskVars, journal, memVars, exp, why>>
     \/ Mismatch(StillHeld, "reverify", "terminal")

PlanFence == Fence("planfence", "projplan")

\* prepare_playlist_projection needs the names of the playlists it projects.
PlanProjections ==
  /\ pc = "projplan"
  /\ \/ /\ want # {}
        /\ RecordVerified([journal EXCEPT !.phase = RockboxProjectionsPrepared, !.plan = TRUE])
        /\ Goto("ownfence")
        /\ UNCHANGED <<genVars, diskVars, memVars, why>>
     \/ want = {} /\ Fail("failed")

OwnershipFence == Fence("ownfence", "ownwrite")

\* An interrupted publication records what it left and reports the error.
Interrupted ==
  /\ journal' = [journal EXCEPT !.published = {Gen}]
  /\ End("failed")
  /\ UNCHANGED <<genVars, diskVars>>

\* publish_ownership: the record, then the phase, then the generation.
WriteOwnership ==
  /\ pc = "ownwrite"
  /\ \/ /\ owner' \in journal.own
        /\ Goto("ownphase")
        /\ UNCHANGED <<db, art, manifest, boxes, profile, diskVars, journal, memVars, exp, why>>
     \/ Fault("own") /\ Interrupted

PhaseOwnership ==
  /\ pc = "ownphase"
  /\ journal' = [journal EXCEPT !.phase = PlaylistOwnershipPublished]
  /\ Goto("ownrecord")
  /\ UNCHANGED <<genVars, diskVars, memVars, exp, why>>

RecordOwnership ==
  /\ pc = "ownrecord"
  /\ RecordVerified(journal)
  /\ Goto("boxfence")
  /\ UNCHANGED <<genVars, diskVars, memVars, why>>

ProjectionFence == Fence("boxfence", "boxwrite")

\* execute_projection_ops writes the desired file, then removes the previous one.
WriteProjection ==
  /\ pc = "boxwrite"
  /\ \/ /\ boxes' = boxes \cup UNION {Projection(v) : v \in journal.own}
        /\ Goto("boxremove")
        /\ UNCHANGED <<db, art, manifest, owner, profile, diskVars, journal, memVars, exp, why>>
     \/ Fault("box") /\ Interrupted

RemovePrevious ==
  /\ pc = "boxremove"
  /\ \/ /\ boxes' = UNION {Projection(v) : v \in journal.own}
        /\ Goto("boxphase")
        /\ UNCHANGED <<db, art, manifest, owner, profile, diskVars, journal, memVars, exp, why>>
     \/ Fault("box") /\ Interrupted

PhaseProjection ==
  /\ pc = "boxphase"
  /\ journal' = [journal EXCEPT !.phase = RockboxProjectionsPublished]
  /\ Goto("boxrecord")
  /\ UNCHANGED <<genVars, diskVars, memVars, exp, why>>

RecordProjection ==
  /\ pc = "boxrecord"
  /\ RecordVerified(journal)
  /\ Goto("authfence")
  /\ UNCHANGED <<genVars, diskVars, memVars, why>>

\* publish_manifest_authority: the portable profile names the new manifest.
AuthorityFence == Fence("authfence", "authwrite")

WriteAuthority ==
  /\ pc = "authwrite"
  /\ profile' = manifest
  /\ Goto("authrecord")
  /\ UNCHANGED <<db, art, manifest, owner, boxes, diskVars, journal, memVars, exp, why>>

RecordAuthority ==
  /\ pc = "authrecord"
  /\ RecordVerified(journal)
  /\ Goto("cleanup")
  /\ UNCHANGED <<genVars, diskVars, memVars, why>>

-----------------------------------------------------------------------------
(* Cleanup (finish_cleanup): staged and obsolete audio the database does not *)
(* name, then the journal's last phase, its directories, and itself.         *)

CleanStaged ==
  /\ pc = "cleanup"
  /\ pending' = pending \ journal.staged
  /\ media' = media \ Unreferenced(journal.final)
  /\ Goto("obsolete")
  /\ UNCHANGED <<genVars, orphans, snap, journal, memVars, exp, why>>

RemoveObsolete ==
  /\ pc = "obsolete"
  /\ media' = media \ Unreferenced(journal.obsolete)
  /\ Goto("savecleanup")
  /\ UNCHANGED <<genVars, pending, orphans, snap, journal, memVars, exp, why>>

SaveCleanup ==
  /\ pc = "savecleanup"
  /\ journal' = [journal EXCEPT !.phase = CleanupComplete]
  /\ Goto("rmstaged")
  /\ UNCHANGED <<genVars, diskVars, memVars, exp, why>>

\* remove_empty_dir_if_present
RemoveStagedDir ==
  /\ pc = "rmstaged"
  /\ \/ /\ pending = {} /\ Goto("rmsnap")
        /\ UNCHANGED <<genVars, diskVars, journal, memVars, exp, why>>
     \/ pending # {} /\ Fail("blocked")

\* remove_validated_snapshot_if_present: validate, then remove the directory,
\* whose entries go one at a time.
RemoveSnapshot ==
  /\ pc = "rmsnap"
  /\ \/ /\ snap.state = "full"
        /\ snap' = [snap EXCEPT !.state = "partial"] /\ Goto("rmsnap2")
        /\ UNCHANGED <<genVars, media, pending, orphans, journal, memVars, exp, why>>
     \/ /\ snap.state = "none" /\ Goto("rmjournal")
        /\ UNCHANGED <<genVars, diskVars, journal, memVars, exp, why>>
     \/ snap.state = "partial" /\ Fail("blocked")

EmptySnapshot ==
  /\ pc = "rmsnap2"
  /\ snap' = [snap EXCEPT !.state = "none"]
  /\ Goto("rmjournal")
  /\ UNCHANGED <<genVars, media, pending, orphans, journal, memVars, exp, why>>

\* Only a publication that ran to its end adopts the live generation
\* (accept_verified_generation); an abandonment leaves the fence as it was.
RemoveJournal ==
  /\ pc = "rmjournal"
  /\ journal' = NoJournal
  /\ exp' = IF why = "abandon" THEN exp ELSE Gen
  /\ work' = NoWork /\ want' = {} /\ why' = "none"
  /\ Goto("plan")
  /\ UNCHANGED <<genVars, diskVars, mdb, cur>>

-----------------------------------------------------------------------------
(* Rollback: rollback_to_ready ("retry"), rollback_after_verified_mismatch   *)
(* ("terminal"), the restore of resume_or_publish_database ("resume"),       *)
(* abandon_firmware_normalized_artwork ("firmware") and, without a restore,  *)
(* resume_interrupted_verified_rollback ("undone").                          *)

KnownRollback ==
  /\ pc = "known"
  /\ \/ /\ RollbackKnown /\ Goto("restore")
        /\ UNCHANGED <<genVars, diskVars, journal, memVars, exp, why>>
     \/ ~ RollbackKnown /\ Fail("blocked")

\* RollbackSnapshot::restore removes the artwork, then copies artwork and
\* iTunesDB back, in the order of their paths.
RestoreClear ==
  /\ pc = "restore"
  /\ \/ /\ snap.state = "full" /\ art' = {} /\ Goto("restoreart")
        /\ UNCHANGED <<db, manifest, owner, boxes, profile, diskVars, journal, memVars, exp, why>>
     \/ snap.state # "full" /\ Fail("blocked")

RestoreArtwork ==
  /\ pc = "restoreart"
  /\ art' = snap.art /\ Goto("restoredb")
  /\ UNCHANGED <<db, manifest, owner, boxes, profile, diskVars, journal, memVars, exp, why>>

RestoreDatabase ==
  /\ pc = "restoredb"
  /\ db' = snap.db /\ Goto("rbclean")
  /\ UNCHANGED <<art, manifest, owner, boxes, profile, diskVars, journal, memVars, exp, why>>

\* cleanup_after_rollback(PreservePending): staged audio moves back, one file
\* after the other.
\* Mutant: only a resumed session keeps its staged audio.
Preserving_OnResume == why \in {"resume", "undone"}
Preserving == why \in {"retry", "resume", "undone"}
Moved == Unreferenced(journal.final) \cap media

RestoreStaged(f) ==
  /\ pc = "rbclean" /\ Preserving /\ f \in Moved
  /\ media' = media \ {f} /\ pending' = pending \cup {f}
  /\ Goto("rbclean")
  /\ UNCHANGED <<genVars, orphans, snap, journal, memVars, exp, why>>

\* The reset journal of the restore that precedes a fresh publication.
ResumeRestored ==
  /\ pc = "rbclean" /\ why = "resume" /\ Moved = {}
  /\ journal' = Reset(journal)
  /\ why' = "none" /\ Goto("open")
  /\ UNCHANGED <<genVars, diskVars, memVars, exp>>

\* The rollback an earlier session left before it could record it.
UndoneRollback ==
  /\ pc = "rbclean" /\ why = "undone" /\ Moved = {}
  /\ journal' = [Reset(journal) EXCEPT !.phase = ReadyToPublish, !.published = {}, !.verified = {}]
  /\ exp' = Gen
  /\ why' = "none" /\ Goto("recover")
  /\ UNCHANGED <<genVars, diskVars, memVars>>

MovedBack ==
  /\ pc = "rbclean" /\ why = "retry" /\ Moved = {}
  /\ Goto("rbman")
  /\ UNCHANGED <<genVars, diskVars, journal, memVars, exp, why>>

\* cleanup_after_rollback(RemovePending)
DropStaged ==
  /\ pc = "rbclean" /\ ~ Preserving
  /\ pending' = pending \ journal.staged
  /\ media' = media \ Unreferenced(journal.final)
  /\ Goto("rbman")
  /\ UNCHANGED <<genVars, orphans, snap, journal, memVars, exp, why>>

RestoreManifest ==
  /\ pc = "rbman"
  /\ \/ /\ journal.pre # {}
        /\ manifest' \in journal.pre
        /\ Goto("rbdone")
        /\ UNCHANGED <<db, art, owner, boxes, profile, diskVars, journal, memVars, exp, why>>
     \/ journal.pre = {} /\ Fail("blocked")

\* finish_verified_rollback: the predecessor must be back before it is recorded.
FinishRollback ==
  /\ pc = "rbdone"
  /\ LET restored ==
           IF why = "retry"
             THEN [Reset(journal) EXCEPT !.phase = ReadyToPublish,
                                         !.published = {}, !.verified = {}]
             ELSE [journal EXCEPT !.phase = RollbackComplete, !.published = {}, !.verified = {Gen}]
     IN \/ journal.before # {Gen} /\ Fail("blocked")
        \/ /\ journal.before = {Gen} /\ why # "firmware"
           /\ journal' = restored
           /\ End(IF why = "retry" THEN "failed" ELSE "terminal")
           /\ UNCHANGED <<genVars, diskVars, envVars>>
        \/ /\ journal.before = {Gen} /\ why = "firmware"
           /\ journal' = restored /\ exp' = Gen
           /\ Goto("rmstaged")
           /\ UNCHANGED <<genVars, diskVars, memVars, why>>

-----------------------------------------------------------------------------
(* Recovery (recover_pending_with_options): the first branch that applies.   *)

\* resume_interrupted_verified_rollback
Undone ==
  /\ journal.phase = DatabaseVerified
  /\ journal.staged # {} /\ journal.staged \subseteq pending \cup (journal.final \cap media)
  /\ journal.before = {Gen}

RecoverUndone ==
  /\ pc = "recover" /\ Undone
  /\ why' = "undone" /\ Goto("rbclean")
  /\ UNCHANGED <<genVars, diskVars, journal, memVars, exp>>

\* abandon_interrupted_staging
Abandoned == [journal EXCEPT !.phase = CleanupComplete]

RecoverStaging ==
  /\ pc = "recover" /\ journal.phase = Staging
  /\ pending' = pending \ Unreferenced(journal.staged)
  /\ Goto("abandonsave")
  /\ UNCHANGED <<genVars, media, orphans, snap, journal, memVars, exp, why>>

SaveAbandoned ==
  /\ pc = "abandonsave"
  /\ \/ /\ Valid(Abandoned)
        /\ journal' = Abandoned
        /\ why' = "abandon" /\ Goto("abandondir")
        /\ UNCHANGED <<genVars, diskVars, memVars, exp>>
     \/ ~ Valid(Abandoned) /\ Fail("blocked")

\* remove_staged_dir_recursively
RemoveAbandonedDir ==
  /\ pc = "abandondir"
  /\ pending' = {} /\ Goto("rmsnap")
  /\ UNCHANGED <<genVars, media, orphans, snap, journal, memVars, exp, why>>

RecoverFirmware ==
  /\ pc = "recover" /\ ~ Undone
  /\ journal.phase = DatabaseVerified /\ FirmwareOnly
  /\ why' = "firmware" /\ Goto("restore")
  /\ UNCHANGED <<genVars, diskVars, journal, memVars, exp>>

\* abandon_lost_prepublication_inputs
Missing == journal.staged \ pending
Lost == journal.phase = ReadyToPublish /\ Missing # {}
Cleared == /\ journal.published = {} /\ journal.verified = {} /\ journal.cand = {}
           /\ journal.final = {} /\ journal.dbids = {} /\ journal.own = {} /\ journal.seen = {}
           /\ ~ journal.plan

RecoverLost ==
  /\ pc = "recover" /\ Lost
  /\ \/ /\ Missing = journal.staged /\ Cleared
        /\ exp = Gen /\ journal.before = {Gen} /\ pending = {}
        /\ why' = "abandon" /\ Goto("rmsnap")
        /\ UNCHANGED <<genVars, diskVars, journal, memVars, exp>>
     \/ /\ ~ (/\ Missing = journal.staged /\ Cleared
              /\ exp = Gen /\ journal.before = {Gen} /\ pending = {})
        /\ Fail("blocked")

RecoverPublish ==
  /\ pc = "recover"
  /\ ~ Undone /\ journal.phase # Staging /\ ~ Lost
  /\ ~ (journal.phase = DatabaseVerified /\ FirmwareOnly)
  /\ Goto("fence")
  /\ UNCHANGED <<genVars, diskVars, journal, memVars, exp, why>>

-----------------------------------------------------------------------------
Recovery ==
  \/ RecoverUndone \/ RecoverStaging \/ SaveAbandoned \/ RemoveAbandonedDir
  \/ RecoverFirmware \/ RecoverLost \/ RecoverPublish

Staged ==
  \/ \E f \in Tracks : StageFile(f)
  \/ SaveAlbum \/ FinishStaging

Publish ==
  \/ PublishFence \/ Prepare \/ PrepareArtwork \/ EnsurePreimage \/ EnsureSnapshot
  \/ FillSnapshot \/ Dispatch \/ ResumeCandidate \/ OpenDatabase
  \/ \E f \in Tracks : ReserveFinal(f)
  \/ MoveStaged \/ RecordAdded \/ UpdateMetadata \/ ReconcileCandidate \/ DatabaseFence
  \/ ClearArtwork \/ WriteArtwork \/ WriteDatabase \/ RecordWritten \/ VerifyWritten

Finalize ==
  \/ CheckVerified \/ ManifestFence \/ WriteManifest \/ RecordManifest \/ Reverify
  \/ PlanFence \/ PlanProjections \/ OwnershipFence \/ WriteOwnership \/ PhaseOwnership
  \/ RecordOwnership \/ ProjectionFence \/ WriteProjection \/ RemovePrevious
  \/ PhaseProjection \/ RecordProjection \/ AuthorityFence \/ WriteAuthority \/ RecordAuthority

Cleanup ==
  \/ CleanStaged \/ RemoveObsolete \/ SaveCleanup \/ RemoveStagedDir \/ RemoveSnapshot
  \/ EmptySnapshot \/ RemoveJournal

Rollback ==
  \/ KnownRollback \/ RestoreClear \/ RestoreArtwork \/ RestoreDatabase
  \/ \E f \in Tracks : RestoreStaged(f)
  \/ ResumeRestored \/ UndoneRollback \/ MovedBack \/ DropStaged \/ RestoreManifest
  \/ FinishRollback

Session == Recovery \/ Staged \/ Publish \/ Finalize \/ Cleanup \/ Rollback

Environment ==
  \/ ForeignWrite \/ FirmwareNormalize \/ LoseStaged \/ Crash
  \/ StopAdmission \/ EndSession \/ \E w \in Works : BeginSync(w)

Next == Session \/ Acquire \/ Environment

Spec == Init /\ [][Next]_vars

\* A connected device is offered to a session again until its journal is gone,
\* and a session that runs takes its next step.
FairSpec == Spec /\ WF_vars(Session) /\ WF_vars(Acquire)

-----------------------------------------------------------------------------
(* Safety.                                                                   *)

AtRest == pc \in {"off", "plan"}

\* The database on the device never names audio the device does not hold,
\* whatever step a crash falls behind.
NoDangling == db.tracks \subseteq media

\* Once a journal is gone, or closed by a verified rollback, nothing disagrees
\* and nothing is left behind: audio, database and manifest name the same
\* tracks, every track has its thumbnails and nothing else does, the ownership
\* record names the playlists of the database, the Rockbox files are exactly
\* their projection, and no staged audio or snapshot outlives its journal.
AuthoritiesAgree ==
  AtRest /\ journal.phase \in {Absent, RollbackComplete} =>
    /\ media = db.tracks /\ manifest.tracks = db.tracks /\ art = db.tracks
    /\ owner = db.lists /\ boxes = Projection(owner)
    /\ journal.phase = Absent => pending = {} /\ snap.state = "none"

\* A journal that promises a retry still has every file it would publish.
RetryKeepsInputs ==
  journal.phase = ReadyToPublish => journal.staged \subseteq pending \cup media

\* No save but that of an abandoned staging journal is refused by validate.
JournalLoads == Valid(journal)

\* An edit another program made is never overwritten.
ForeignPreserved == [][db'.ext >= db.ext]_vars

\* Every journal a session leaves behind is resolved by the sessions after it.
Settles == journal.phase # Absent ~> journal.phase \in {Absent, RollbackComplete}

\* A verified rollback is final: no session turns its journal back into one that
\* publishes, and none but the firmware abandonment that saved it removes it.
RollbackIsFinal ==
  [][journal.phase = RollbackComplete =>
       journal'.phase = RollbackComplete \/ (journal'.phase = Absent /\ why = "firmware")]_vars
=============================================================================
