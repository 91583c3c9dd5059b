------------------------ MODULE CheckpointInvariant ------------------------
(* The inductive invariant behind Checkpoint's NoDangling: what the journal, *)
(* the snapshot, the audio and the recorded generations promise each other   *)
(* at every point of the program.                                            *)
EXTENDS Checkpoint

\* No verification of a journal past DatabaseVerified reports an error that the
\* database itself does not justify (the artwork cache of this host is whole).
CacheWhole == "reverify" \notin FaultAt

\* A generation that holds what journal j would publish.
HoldsCandidate(j, g) ==
  /\ \A c \in j.cand :
       /\ c.tracks \subseteq g.db.tracks
       /\ c.tracks \subseteq g.art
       /\ \A o \in j.obsolete : o \in c.tracks \/ o \notin g.db.tracks
  /\ j.own \subseteq {g.db.lists}

LiveHeld == HoldsCandidate(journal, Gen)
RecordsHeld == \A g \in journal.published \cup journal.verified : HoldsCandidate(journal, g)

Published == DeviceManifestPublished .. CleanupComplete

\* Which phases each part of the program runs in.
WritePoints == {"open", "add", "move", "record", "desire", "dbfence", "artclear", "artwrite",
                "dbwrite", "dbrecord", "verify"}
VerifiedPoints == {"dbv", "manfence", "manwrite", "manrecord"}
LatePoints == {"planfence", "projplan", "ownfence", "ownwrite", "ownphase", "ownrecord",
               "boxfence", "boxwrite", "boxremove", "boxphase", "boxrecord",
               "authfence", "authwrite", "authrecord", "cleanup", "obsolete", "savecleanup"}
SetupPoints == {"preimage", "snapshot", "snapfill", "dispatch"}
RollbackPoints == {"known", "restore", "restoreart", "restoredb", "rbclean", "rbman", "rbdone"}
RemovalPoints == {"rmsnap", "rmsnap2", "rmjournal"}

PhaseInv ==
  /\ pc = "stage" => journal.phase \in {Absent, Staging}
  /\ pc = "artwork" => journal.phase = Staging /\ journal.before # {}
  /\ pc \in SetupPoints => journal.phase \in ReadyToPublish .. CleanupComplete
  /\ pc \in {"resume"} \cup WritePoints => journal.phase = ReadyToPublish
  /\ pc \in VerifiedPoints => journal.phase = DatabaseVerified
  /\ pc \in {"reverify"} \cup LatePoints => journal.phase \in Published
  /\ pc \in RollbackPoints => journal.phase \in {ReadyToPublish, DatabaseVerified}
  /\ pc \in RemovalPoints =>
       journal.phase \in {ReadyToPublish, CleanupComplete, RollbackComplete}
  /\ pc = "rmstaged" => journal.phase \in {CleanupComplete, RollbackComplete}
  /\ pc = "abandonsave" => journal.phase = Staging
  /\ pc = "abandondir" => journal.phase = CleanupComplete
  /\ pc = "plan" => journal.phase = Absent
  /\ pc \in RollbackPoints /\ why = "resume" => journal.phase = ReadyToPublish

\* The snapshot exists whenever a step may restore it.
SnapInv ==
  /\ journal.phase \in {Absent, Staging} => snap.state = "none"
  /\ journal.phase = DatabaseVerified => snap.state = "full"
  /\ pc \in {"dispatch", "resume", "restoreart", "restoredb"} \cup WritePoints =>
       snap.state = "full"
  /\ pc \in {"rbclean", "rbman", "rbdone"} => snap.state = "full"
  /\ pc = "snapfill" => snap.state = "partial"
  /\ pc = "rmjournal" => snap.state = "none"

\* Staged audio is new: the database does not name it before it is published.
FreshInv ==
  /\ journal.final \subseteq journal.staged
  /\ journal.phase \in {Absent, Staging} => (journal.staged \cup pending) \cap db.tracks = {}
  /\ pc = "stage" => work.staged \cap db.tracks = {}
  /\ pc \in RemovalPoints => pending = {}
  /\ journal.phase = ReadyToPublish /\ (snap.state # "full" \/ pc \in RemovalPoints)
       => journal.staged \cap db.tracks = {}
  /\ journal.phase \in {ReadyToPublish, DatabaseVerified} => journal.before # {}
  /\ journal.phase \in {Staging, ReadyToPublish, DatabaseVerified} =>
       \A b \in journal.before : b.db.tracks \cap journal.staged = {}

\* What a step may put in place of the database is on the device.
MediaInv ==
  /\ db.tracks \subseteq media
  /\ pc \in WritePoints \ {"open", "dbrecord", "verify"} => mdb.tracks \subseteq media
  /\ pc = "record" => cur \subseteq media
  /\ snap.state = "full" /\ journal.phase \in {ReadyToPublish, DatabaseVerified} =>
       snap.db.tracks \subseteq media /\ snap.db.tracks \cap journal.staged = {}

\* Once the manifest is published the recorded generations hold the candidate,
\* so no verification can send the session into a rollback.
HeldInv ==
  /\ journal.phase = Staging =>
       journal.published = {} /\ journal.verified = {} /\ journal.own = {} /\ journal.seen = {}
  /\ journal.phase \in Published => RecordsHeld /\ journal.seen = journal.own
  /\ pc \in {"manfence", "manwrite", "manrecord"} \cup LatePoints =>
       LiveHeld /\ journal.seen = journal.own
  /\ pc \in SetupPoints \cup {"reverify"} /\ journal.phase \in Published => LiveHeld

\* A verified rollback is only ever looked at, except by the abandonment after
\* a firmware loss, which removes what it has just rolled back.
FinalInv ==
  journal.phase = RollbackComplete =>
    \/ pc \in {"off", "recover", "fence", "prepare"}
    \/ pc \in {"rmstaged"} \cup RemovalPoints /\ why = "firmware"

IInv == PhaseInv /\ SnapInv /\ FreshInv /\ MediaInv /\ HeldInv /\ FinalInv
=============================================================================
