------------------------ MODULE CheckpointAgreement ------------------------
(* The inductive invariant behind Checkpoint's AuthoritiesAgree,             *)
(* RetryKeepsInputs and JournalLoads: what the files of the device have to   *)
(* do with each other, with the journal's predecessor generation and with    *)
(* its candidate at every point of a publication, a rollback and a recovery. *)
EXTENDS CheckpointInvariant

\* The iPod's firmware leaves the thumbnails alone.
ArtworkKept == "firmware" \notin FaultAt

\* Staged audio outlives a disconnection.
StagedKept == "lose" \notin FaultAt

OpenPhases == {Staging, ReadyToPublish, DatabaseVerified}
ForwardPhases == DeviceManifestPublished .. RockboxProjectionsPublished
ClosedPhases == {Absent, Staging, CleanupComplete, RollbackComplete}

FillPoints == {"add", "move", "record"}
BuiltPoints == {"dbfence", "artclear", "artwrite", "dbwrite"}
WrittenPoints == {"dbrecord", "verify"}
BackPoints == {"rbclean", "rbman", "rbdone"}
ListPoints == {"planfence", "projplan"}
OwnedPoints == {"ownphase", "ownrecord",
                "boxfence", "boxwrite", "boxremove", "boxphase", "boxrecord"}
BoxedPoints == {"boxphase", "boxrecord"}
EndPoints == {"authfence", "authwrite", "authrecord", "cleanup", "obsolete", "savecleanup"}

-----------------------------------------------------------------------------
(* What validate asks of the journal that is saved next.                     *)
LoadInv ==
  /\ Valid(journal)
  /\ journal.phase \in ReadyToPublish .. RockboxProjectionsPublished => journal.before # {}
  /\ journal.phase <= ReadyToPublish => journal.seen = {}
  /\ pc \in LatePoints => journal.phase \in ForwardPhases
  /\ pc \in {"ownfence", "ownwrite"} \cup OwnedPoints => journal.plan
  /\ pc \in EndPoints => journal.plan \/ journal.own = {}

-----------------------------------------------------------------------------
(* Where no journal is in the middle of its work.                            *)

\* Manifest, ownership record and Rockbox files of a generation name what its
\* database does.
Coherent(g) ==
  /\ g.man.tracks = g.db.tracks
  /\ g.own = g.db.lists
  /\ g.box = Projection(g.own)

Settled == media = db.tracks /\ Coherent(Gen)

SettledInv ==
  /\ journal.phase \in ClosedPhases => Settled
  /\ pc \in {"savecleanup"} \cup RemovalPoints => Settled
  /\ journal.phase = Absent /\ pc \in {"off", "plan", "fence", "prepare"} => pending = {}
  /\ pc = "recover" => journal.phase # Absent

-----------------------------------------------------------------------------
(* Between the predecessor b and the candidate.                              *)

\* The tracks the database holds once the journal is published.
Target(b) == (b.db.tracks \ journal.obsolete) \cup journal.staged

LiveIs(b) == db.tracks = b.db.tracks /\ db.lists = b.db.lists

\* What stays as the predecessor had it until the manifest is published.
BaseInv ==
  /\ pc \in {"stage", "fence", "prepare"} /\ journal.phase \in {Absent, Staging} =>
       pending \subseteq work.staged /\ work.staged \cap work.obsolete = {}
  /\ journal.staged \cap journal.obsolete = {}
  /\ journal.phase = Staging => journal.pre = {} /\ journal.final = {} /\ journal.cand = {}
  /\ pc \in RollbackPoints \ BackPoints => why # "undone"
  /\ journal.phase \in OpenPhases => \A b \in journal.before :
       /\ Coherent(b) /\ owner = b.own /\ boxes = b.box
       /\ b.db.tracks \subseteq media /\ media \subseteq b.db.tracks \cup journal.final
       /\ journal.phase # DatabaseVerified => manifest.tracks = b.man.tracks
       /\ \A p \in journal.pre : p.tracks = b.man.tracks
       /\ pc \in {"rbman", "rbdone"} => media \subseteq b.db.tracks
       /\ pc = "rbclean" /\ why = "undone" => manifest.tracks = b.man.tracks

\* The database is the predecessor's or the one the candidate describes.
LiveInv ==
  journal.phase \in OpenPhases => \A b \in journal.before :
    /\ db.tracks \in {b.db.tracks, Target(b)}
    /\ db.lists \in {b.db.lists} \cup journal.own
    /\ journal.phase = Staging => LiveIs(b)
    /\ IF snap.state = "full"
         THEN snap.db.tracks = b.db.tracks /\ snap.db.lists = b.db.lists
         ELSE LiveIs(b)
    /\ pc \in {"open", "desire"} \cup FillPoints \cup BuiltPoints \cup BackPoints => LiveIs(b)
    /\ journal.phase = ReadyToPublish /\ pc \in RemovalPoints => LiveIs(b)

\* The candidate database in memory.
WalkInv ==
  journal.phase = ReadyToPublish => \A b \in journal.before :
    /\ pc \in FillPoints =>
         mdb.tracks = (b.db.tracks \ journal.obsolete) \cup (mdb.tracks \cap journal.staged)
    /\ pc \in {"move", "record"} => cur # {} /\ cur \subseteq journal.final
    /\ pc \in {"desire"} \cup BuiltPoints => mdb.tracks = Target(b)
    /\ pc \in {"desire"} \cup FillPoints => mdb.lists = b.db.lists
    /\ pc \in BuiltPoints => mdb.lists \in {b.db.lists} \cup journal.own
    /\ pc \in {"open", "desire"} \cup FillPoints => journal.own = {}

\* The candidate manifest in the journal.
CandInv ==
  /\ journal.phase \in {ReadyToPublish, DatabaseVerified} => \A b \in journal.before :
       /\ \A c \in journal.cand :
            /\ c.tracks = (b.db.tracks \ journal.obsolete) \cup (c.tracks \cap journal.staged)
            /\ c.tracks \cap journal.staged = {} => journal.staged = {}
       /\ \/ journal.phase = DatabaseVerified
          \/ db.tracks # b.db.tracks
          \/ pc \in BuiltPoints \cup WrittenPoints
          => journal.cand # {} /\ \A c \in journal.cand : c.tracks = Target(b)
  /\ journal.phase = ReadyToPublish /\ journal.cand = {} => journal.own = {}
  /\ pc = "manrecord" => manifest.tracks = db.tracks

-----------------------------------------------------------------------------
(* From the manifest to the cleanup.                                         *)
ForwardInv ==
  /\ journal.phase \in ForwardPhases =>
       /\ manifest.tracks = db.tracks
       /\ media \subseteq db.tracks \cup journal.obsolete
       /\ journal.own \subseteq {db.lists}
       /\ journal.own = {} => owner = db.lists /\ boxes = Projection(owner)
       /\ journal.phase \in {PlaylistOwnershipPublished, RockboxProjectionsPublished} =>
            owner = db.lists
       /\ journal.phase = RockboxProjectionsPublished => boxes = Projection(owner)
  /\ pc \in {"planfence", "projplan", "ownfence", "ownwrite"} \cup OwnedPoints => journal.own # {}
  /\ pc \in OwnedPoints \cup EndPoints => owner = db.lists
  /\ pc \in BoxedPoints \cup EndPoints => boxes = Projection(owner)

AgreeInv == SettledInv /\ BaseInv /\ LiveInv /\ WalkInv /\ CandInv /\ ForwardInv

-----------------------------------------------------------------------------
(* Thumbnails.                                                               *)
ArtInv ==
  /\ journal.phase \in ClosedPhases \cup ForwardPhases => art = db.tracks
  /\ pc \in RemovalPoints => art = db.tracks
  /\ journal.phase \in OpenPhases => \A b \in journal.before :
       /\ b.art = b.db.tracks
       /\ art \in {{}, b.db.tracks, Target(b)}
       /\ IF snap.state = "full" THEN snap.art = b.db.tracks
          ELSE art = b.db.tracks
       /\ \A g \in journal.published \cup journal.verified :
            g.db.tracks = b.db.tracks \/ g.art = g.db.tracks
       /\ pc \in SetupPoints \cup {"resume"} \cup WrittenPoints \cup VerifiedPoints =>
            db.tracks = b.db.tracks \/ art = db.tracks
       /\ pc = "dbwrite" => art = Target(b)
  /\ pc = "artwrite" => art = {}
  /\ pc = "manrecord" => art = db.tracks

-----------------------------------------------------------------------------
(* What a retry needs.                                                       *)
Kept == journal.staged \subseteq pending \cup media

InputsInv ==
  /\ pc \in {"stage", "fence", "prepare", "artwork"} /\ journal.phase = Staging =>
       journal.staged \subseteq pending
  /\ journal.phase = ReadyToPublish => Kept
  /\ pc \in {"manfence", "manwrite"} => Kept
  /\ pc \in RollbackPoints =>
       \/ why \in {"retry", "resume", "undone"} /\ Kept
       \/ why \in {"terminal", "firmware"} /\ journal.phase = DatabaseVerified

-----------------------------------------------------------------------------
(* The edits of other programs.                                              *)

\* The points at which a foreign edit is lost without any comparison having a
\* chance to see it: between the fence and the record of the database written
\* behind it, between the check of the live generation and the restore it
\* permits, and between the check and the restore of a resumed publication.
WriteWindow == {"artclear", "artwrite", "dbwrite", "dbrecord", "verify"}
RestoreWindow == {"restore", "restoreart", "restoredb"}
RetryWindow == {"preimage", "snapshot", "dispatch", "resume"}

\* No other program writes at these points.
EditsSeen == ForeignAt \cap (WriteWindow \cup RestoreWindow \cup RetryWindow) = {}

Recorded == journal.before \cup journal.published \cup journal.verified
Restorable == snap.state = "full" /\ journal.phase \in {ReadyToPublish, DatabaseVerified}

ExtInv ==
  /\ exp.db.ext <= db.ext
  /\ \A g \in Recorded : g.db.ext <= db.ext
  /\ pc \in (FillPoints \cup BuiltPoints) \cup {"desire"} =>
       exp.db.ext <= mdb.ext /\ mdb.ext <= db.ext
  /\ pc \in WriteWindow => exp.db.ext = db.ext
  /\ Restorable =>
       /\ \A g \in Recorded : g.db.ext <= snap.db.ext
       /\ pc \in RestoreWindow \cup RetryWindow => db.ext <= snap.db.ext
       /\ pc \in {"rbclean", "open", "desire"} \cup FillPoints \cup BuiltPoints
                   \cup WrittenPoints =>
            exp.db.ext <= snap.db.ext
=============================================================================
