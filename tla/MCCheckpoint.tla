--------------------------- MODULE MCCheckpoint ---------------------------
(* Values of Checkpoint's constants for TLC: a device that holds two tracks, *)
(* two names for new audio, one playlist version beside "none", and the      *)
(* program points at which each run lets the session die.                    *)
EXTENDS CheckpointInvariant

W(s, o, m, l) == [staged |-> s, obsolete |-> o, meta |-> m, lists |-> l]

MCTracks == 1..4
MCInitial == {1, 4}
MCLists == {0, 1}

\* New audio, a replacement with playlists, playlists alone, tags alone, a
\* removal that also clears the playlists.
AddAlbum == W({2, 3}, {}, FALSE, {})
Replace == W({2}, {1}, FALSE, {1})
ListsOnly == W({}, {}, FALSE, {1})
TagsOnly == W({}, {}, TRUE, {})
Remove == W({}, {4}, FALSE, {0})
MCWorks == {AddAlbum, Replace, ListsOnly, TagsOnly, Remove}

\* The host resolves its playlists before it recovers, or does not.
MCWants == {{}, {1}}
OneWant == {{1}}

AllPoints == {"stage", "fence", "prepare", "artwork", "preimage", "snapshot", "snapfill",
  "dispatch", "resume", "open", "add", "move", "record", "desire", "dbfence", "artclear",
  "artwrite", "dbwrite", "dbrecord", "verify", "dbv", "manfence", "manwrite", "manrecord",
  "reverify", "planfence", "projplan", "ownfence", "ownwrite", "ownphase", "ownrecord",
  "boxfence", "boxwrite", "boxremove", "boxphase", "boxrecord", "authfence", "authwrite",
  "authrecord", "cleanup", "obsolete", "savecleanup", "rmstaged", "rmsnap", "rmsnap2",
  "rmjournal", "known", "restore", "restoreart", "restoredb", "rbclean", "rbman", "rbdone",
  "abandonsave", "abandondir"}

\* The points a crash falls at without leaving a journal no session can resolve.
SettlingPoints == {"stage", "fence", "prepare", "preimage", "snapshot", "dispatch", "resume",
  "open", "dbv", "manfence", "manwrite", "reverify", "planfence", "projplan", "ownfence",
  "ownwrite", "boxfence", "boxwrite", "authfence", "authwrite", "cleanup", "obsolete",
  "savecleanup", "rmstaged", "abandonsave"}

AllFaults == {"artwork", "desire", "write", "verify", "dbv", "manifest", "own", "box"}
SettlingFaults == {"desire", "verify", "dbv", "manifest"}
CrashFaults == AllFaults \cup {"lose"}
LateFaults == AllFaults \cup {"reverify", "firmware"}
NoPoints == {}

\* Another program's edit is seen unless it falls between a generation check
\* and the record of the write behind it.
Windows == {"artclear", "artwrite", "dbwrite", "dbrecord", "verify", "manwrite", "manrecord",
  "projplan", "ownwrite", "ownphase", "ownrecord", "boxwrite", "boxremove", "boxphase",
  "boxrecord", "authwrite", "authrecord", "restore", "restoreart", "restoredb"}
ResumeWindow == {"preimage", "snapshot", "dispatch", "resume"}
FencedPoints == (AllPoints \cup {"off", "plan", "recover"}) \ (Windows \cup ResumeWindow)
=============================================================================
