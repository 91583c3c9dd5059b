------------------------------- MODULE SyncPlan -------------------------------
(***************************************************************************)
(* One run of the sync worker end to end: the walk, the sync set, the diff *)
(* against the manifest, the staging of the albums and the publications of *)
(* what was staged, with the playlists and their Rockbox projections       *)
(* (apply_loop.rs, manifest.rs, manifest_store.rs, sync_transaction.rs and *)
(* sync_transaction/rockbox_publication.rs).  A publication is one step    *)
(* here with the ways it can end; Checkpoint models what happens inside.   *)
(*                                                                         *)
(* source: [a set of paths -> [mtime, audio, tags]]                        *)
(* host:   [root, index [root, files], selection, subs [set, slugs],       *)
(*          store, target, rockbox, cache]                                 *)
(* device: [manifest, rows, media, playlists, owned, files, mirror,        *)
(*          nextId, pending, lists, free]                                  *)
(* rows are the tracks of the iTunesDB by dbid and media the dbids whose   *)
(* file exists; pending holds the journal of a publication that was rolled *)
(* back, lists what a publication has left to do for the playlists.        *)
(***************************************************************************)
EXTENDS Preview, DeviceLists

CONSTANTS
    Absent,          \* no manifest, no root
    Foreign,         \* what is on the device and not from Classick
    Edited,          \* what another program writes into a file
    NoTags, TagSets, Audios,
    Slugs, Definitions,          \* playlist slugs; what a playlist may be
    Selections, Subscribed, Targets,
    SourceInit,
    Scenarios        \* [host, device, options, edits, syncs, faults]: where a
                     \* behaviour starts, how its runs are started, its bounds

VARIABLES source, host, device, run, ghost
vars == <<source, host, device, run, ghost>>

NoRun == [phase |-> "idle"]
NoJournal == [staged |-> <<>>, updates |-> <<>>, obsolete |-> {}]
Idle == run = NoRun

Stat(p) == [path |-> p, mtime |-> source[p].mtime, size |-> SizeOf[source[p].audio]]
Walked(paths) == LET ordered == SetToSortSeq(paths, <)
                 IN [i \in DOMAIN ordered |-> Stat(ordered[i])]

(* The index of another root is no index. *)
IndexFiles == IF host.index.root = host.root THEN host.index.files ELSE <<>>

Fault == /\ ghost.faults > 0
         /\ ghost' = [ghost EXCEPT !.faults = @ - 1, !.quiet = FALSE, !.follows = "no"]

(* ghost.quiet: nothing was edited and nothing failed since the run began; *)
(* ghost.follows: the last run completed quietly, published or not;        *)
(* ghost.raced and ghost.missed: paths written between the reads of one    *)
(* staging, or between the diff and the staging of a tag edit.             *)
Fails == run' = NoRun

Begin(opts) ==
    /\ Idle /\ ghost.syncs > 0
    /\ run' = [phase |-> "start", opts |-> opts]
    /\ ghost' = [ghost EXCEPT !.syncs = @ - 1, !.quiet = TRUE, !.follows = "no"]
    /\ UNCHANGED <<source, host, device>>

(* A host with neither playlists nor subscriptions takes those the device  *)
(* mirrors.                                                                *)
Adopted ==
    IF host.subs.set \/ \E s \in Slugs : host.store[s].kind # "absent" THEN host
    ELSE [host EXCEPT !.store = device.mirror.store, !.subs = device.mirror.subs]

(* A path the walk cannot read is skipped; a walk that finds nothing stops *)
(* the run.                                                                *)
Walk(missed) ==
    /\ run.phase = "start"
    /\ missed \subseteq DOMAIN source
    /\ IF missed = {} THEN UNCHANGED ghost ELSE Fault
    /\ host' = Adopted
    /\ LET paths == DOMAIN source \ missed
       IN IF paths = {} THEN Fails
          ELSE run' = [phase |-> "walked", opts |-> run.opts, walk |-> Walked(paths)]
    /\ UNCHANGED <<source, device>>

(* publication *)

Entries(m) == IF m = Absent THEN <<>> ELSE m.entries
Unknown(m) == IF m = Absent THEN {} ELSE m.unknown

Without(entries, dbids) ==
    [p \in {q \in DOMAIN entries : entries[q].dbid \notin dbids} |-> entries[p]]

(* the tracks of the iTunesDB: unlinked from every playlist, added with a  *)
(* dbid of their own, retagged in place.                                   *)
UnlinkTracks(state, dbids) ==
    [state EXCEPT
        !.rows = [d \in DOMAIN @ \ dbids |-> @[d]],
        !.media = @ \ dbids,
        !.playlists = [i \in DOMAIN @ |->
            [@[i] EXCEPT !.members = SelectSeq(@, LAMBDA d : d \notin dbids)]]]

InsertTrack(state, row) ==
    [state EXCEPT !.rows = (state.nextId :> row) @@ @,
                  !.media = @ \cup {state.nextId}, !.nextId = @ + 1]

RetagTrack(state, dbid, tags) == [state EXCEPT !.rows[dbid].tags = tags]

RemoveTracks(state, dbids) ==
    [UnlinkTracks(state, dbids) EXCEPT !.entries = Without(@, dbids),
                                       !.unknown = @ \ dbids]

AddTrack(state, staged) ==
    [InsertTrack(state, staged.row) EXCEPT
        !.entries = (staged.path :> [staged.entry EXCEPT !.dbid = state.nextId]) @@ @]

(* A metadata update needs the entry it was staged from, its audio and its *)
(* encoder unchanged.                                                      *)
UpdateTrack(state, update) ==
    LET p == update.path
        same == /\ p \in DOMAIN state.entries
                /\ state.entries[p].dbid = update.entry.dbid
                /\ state.entries[p].audio_fingerprint = update.entry.audio_fingerprint
                /\ state.entries[p].target = update.entry.target
    IN IF ~state.ok \/ ~same \/ update.entry.dbid \notin DOMAIN state.rows
       THEN [state EXCEPT !.ok = FALSE]
       ELSE [RetagTrack(state, update.entry.dbid, update.tags) EXCEPT
                !.entries[p] = update.entry]

VerifiedTracks(state) ==
    state.unknown \cup {state.entries[p].dbid : p \in DOMAIN state.entries}
        \subseteq DOMAIN state.rows

(* The tracks of a journal in the database and the candidate manifest,     *)
(* which must name only tracks the database has.                           *)
Prepared(journal, entries, unknown) ==
    LET start == [rows |-> device.rows, media |-> device.media,
                  playlists |-> device.playlists, nextId |-> device.nextId,
                  entries |-> entries, unknown |-> unknown, ok |-> TRUE]
        removed == RemoveTracks(start, journal.obsolete)
        added == FoldLeft(AddTrack, removed, journal.staged)
        done == FoldLeft(UpdateTrack, added, journal.updates)
    IN [done EXCEPT !.ok = @ /\ VerifiedTracks(done)]

(* A list as the device gets it: the members the manifest has, by dbid. *)
Desired(lists, entries) ==
    [i \in DOMAIN lists |->
        LET held == SelectSeq(lists[i].members, LAMBDA p : p \in DOMAIN entries)
        IN [slug |-> lists[i].slug, name |-> lists[i].name,
            members |-> [k \in DOMAIN held |-> entries[held[k]].dbid]]]

(* The database, the playlists of wanted (at most one list of lists, none  *)
(* at a checkpoint) and the manifest.                                      *)
Published(prepared, wanted) ==
    LET manifest == [entries |-> prepared.entries, unknown |-> prepared.unknown,
                     root |-> host.root]
        tracks == [device EXCEPT
            !.rows = prepared.rows, !.media = prepared.media,
            !.playlists = prepared.playlists, !.nextId = prepared.nextId,
            !.manifest = manifest, !.pending = {}]
        lists == CHOOSE l \in wanted : TRUE
        settled == Reconcile(prepared.playlists, device.owned,
                             Desired(lists, prepared.entries), prepared.nextId)
    IN IF wanted = {} THEN tracks
       ELSE [tracks EXCEPT !.playlists = settled.playlists,
                           !.nextId = settled.nextId,
                           !.lists = {[stage |-> "plan", owned |-> settled.owned]}]

(* What is left to do for the playlists: the projections are planned under *)
(* the display names of this run, then carried out as recorded.            *)
Names(wanted) == UNION {{<<l[i].slug, l[i].name>> : i \in DOMAIN l} : l \in wanted}

Execute(dev) ==
    LET work == CHOOSE w \in dev.lists : TRUE
        done == ExecuteOperations(dev.files, work.operations)
    IN [dev EXCEPT !.files = done.files,
                   !.lists = IF done.done THEN {} ELSE @]

Finished(dev, wanted) ==
    LET work == CHOOSE w \in dev.lists : TRUE
        slugs == DOMAIN work.owned
        named == slugs \subseteq {n[1] : n \in Names(wanted)}
        names == [s \in slugs |-> (CHOOSE n \in Names(wanted) : n[1] = s)[2]]
        hashes == [s \in slugs |-> dev.playlists[work.owned[s].id].members]
        plan == PlanProjection(host.rockbox, hashes, names, dev.owned,
                               work.owned, dev.files)
    IN IF dev.lists = {} THEN dev
       ELSE IF work.stage = "execute" THEN Execute(dev)
       ELSE IF ~named \/ ~plan.chosen THEN dev
       ELSE Execute([dev EXCEPT !.owned = plan.owned,
                                !.lists = {[stage |-> "execute",
                                            operations |-> plan.operations]}])

(* The ways the publication of a journal ends.  Rolled back, its journal   *)
(* waits for the next run; torn, the manifest is out and the playlists are *)
(* not finished.                                                           *)
RollsBack(journal) ==
    /\ device' = [device EXCEPT !.pending = {journal}]
    /\ UNCHANGED host

Completes(prepared, wanted, cached) ==
    /\ prepared.ok
    /\ device' = Finished(Published(prepared, wanted), wanted)
    /\ host' = IF cached THEN [host EXCEPT !.cache = device'.manifest] ELSE host

StopsShort(prepared, wanted) ==
    /\ prepared.ok /\ wanted # {}
    /\ device' = Published(prepared, wanted)
    /\ host' = [host EXCEPT !.cache = device'.manifest]

(* recovery *)

Loaded ==
    IF device.manifest # Absent THEN [manifest |-> device.manifest, needs |-> FALSE]
    ELSE [manifest |-> host.cache, needs |-> TRUE]

Unfinished == device.pending # {} \/ device.lists # {}

RunLists(opens) ==
    IF opens THEN {Resolved(host.subs.slugs, host.store, run.walk, IndexFiles)}
    ELSE {}

Restart == run' = [phase |-> "start", opts |-> run.opts]

(* A run that finds a journal publishes it, with the lists of now, and     *)
(* starts over.                                                            *)
RecoverJournal(opens) ==
    /\ run.phase = "walked" /\ device.pending # {}
    /\ LET journal == CHOOSE j \in device.pending : TRUE
           prepared == Prepared(journal, Entries(Loaded.manifest),
                                Unknown(Loaded.manifest))
       IN \/ /\ Completes(prepared, RunLists(opens), TRUE)
             /\ IF device'.lists = {} THEN Restart ELSE Fails
             /\ IF opens THEN UNCHANGED ghost ELSE Fault
          \/ /\ RollsBack(journal) /\ Fails
             /\ IF prepared.ok THEN Fault ELSE UNCHANGED ghost
    /\ UNCHANGED source

RecoverLists(opens) ==
    /\ run.phase = "walked" /\ device.lists # {} /\ device.pending = {}
    /\ device' = Finished(device, RunLists(opens))
    /\ IF device'.lists = {} THEN Restart ELSE Fails
    /\ IF opens THEN UNCHANGED ghost ELSE Fault
    /\ UNCHANGED <<source, host>>

(* planning *)

Present(dbid) == dbid \in DOMAIN device.rows \cap device.media

AllUnknown == [entries |-> <<>>, unknown |-> DOMAIN device.rows, root |-> host.root]

SourceChanged(m) ==
    m # Absent /\ (DOMAIN m.entries # {} \/ m.unknown # {}) /\ m.root # host.root

Room == device.free - Cardinality(device.media)

(* The tags a run plans with: without a playlist store it probes the files *)
(* the index does not know.                                                *)
PlanFiles(opens) ==
    IF opens THEN IndexFiles
    ELSE Probed(run.walk, host.selection, IndexFiles, source)

EffectiveSet(opens, files) ==
    IF opens THEN Compute(run.walk, host.selection, host.subs.slugs, host.store, files)
    ELSE [sources |-> SelectSeq(run.walk, LAMBDA src :
                          InScope(src, host.selection, files)),
          lists |-> <<>>]

(* A rebuild takes every track of the device for one of unknown source. *)
PlanManifest == IF run.opts.rebuild THEN [manifest |-> AllUnknown, needs |-> FALSE]
                ELSE Loaded

(* Entries whose track or media the device has lost are discarded. *)
Lost(m) == {d \in Unknown(m) \cup {Entries(m)[p].dbid : p \in DOMAIN Entries(m)} :
                ~Present(d)}

Reviewed(opens, loaded, set, entries, files) ==
    LET m == loaded.manifest
        lost == Lost(m)
        actions == Diff(entries, set.sources, source, host.target,
                        run.opts.force, DOMAIN entries)
    IN [phase |-> "review", opts |-> run.opts,
        changed |-> SourceChanged(m), rooted |-> m # Absent,
        needs |-> loaded.needs \/ lost # {},
        wanted |-> IF opens THEN {set.lists} ELSE {},
        entries |-> entries, unknown |-> Unknown(m) \ lost,
        actions |-> Kept(actions, Deferred(actions, Room, files), files)]

Plan(opens) ==
    /\ run.phase = "walked" /\ ~Unfinished
    /\ IF opens THEN ghost' = [ghost EXCEPT !.room = Room] ELSE Fault
    /\ LET files == PlanFiles(opens)
           set == EffectiveSet(opens, files)
           loaded == PlanManifest
           m == loaded.manifest
           entries == Without(Entries(m), Lost(m))
       IN /\ host' = [host EXCEPT
                 !.index = IF opens THEN @ ELSE [root |-> host.root, files |-> files],
                 !.cache = IF run.opts.rebuild THEN m ELSE @]
          /\ device' = IF run.opts.rebuild THEN [device EXCEPT !.manifest = m]
                       ELSE device
          /\ IF Unreadable(entries, set.sources, source, DOMAIN entries) THEN Fails
             ELSE run' = Reviewed(opens, loaded, set, entries, files)
    /\ UNCHANGED source

Decline ==
    /\ run.phase = "review"
    /\ Fails
    /\ UNCHANGED <<source, host, device, ghost>>

Follows(published) ==
    ghost' = [ghost EXCEPT !.follows = IF ghost.quiet THEN published ELSE "no"]

NothingToDo(noDelete) ==
    /\ ~run.needs
    /\ \A i \in DOMAIN run.actions :
           \/ run.actions[i].kind = "unchanged"
           \/ run.actions[i].kind = "remove" /\ noDelete

(* Artwork of every entry that stays is read again first; a file that is   *)
(* gone fails the run.                                                     *)
ArtworkReadable ==
    LET replaced == {run.actions[i].src.path : i \in
                        {k \in DOMAIN run.actions :
                            run.actions[k].kind \in {"remove", "modify"}}}
    IN DOMAIN run.entries \ replaced \subseteq DOMAIN source

(* A changed source is confirmed, or applied without deletions, first. *)
Proceed(noDelete) ==
    /\ run.phase = "review"
    /\ run.opts.noDelete => noDelete
    /\ ~run.changed => noDelete = run.opts.noDelete
    /\ IF NothingToDo(noDelete)
       THEN /\ run' = NoRun
            /\ IF noDelete THEN UNCHANGED ghost ELSE Follows("unpublished")
       ELSE /\ UNCHANGED ghost
            /\ IF ~ArtworkReadable THEN Fails
               ELSE run' = [phase |-> "apply", noDelete |-> noDelete,
                            rooted |-> run.rooted, wanted |-> run.wanted,
                            entries |-> run.entries, unknown |-> run.unknown,
                            queue |-> Batches(run.actions, IndexFiles),
                            batch |-> <<>>, reads |-> <<>>, journal |-> NoJournal,
                            albums |-> FALSE, stopped |-> FALSE]
    /\ UNCHANGED <<source, host, device>>

(* applying *)

Applying == run.phase = "apply" /\ ~run.stopped

Admit ==
    /\ Applying /\ run.batch = <<>> /\ run.queue # <<>>
    /\ run' = [run EXCEPT !.batch = Head(run.queue), !.queue = Tail(@),
                          !.albums = TRUE, !.reads = <<>>]
    /\ UNCHANGED <<source, host, device, ghost>>

(* The reads of a file and its fingerprints are apart, and the file may    *)
(* change in between.  Jobs of an album are read ahead of their turn.      *)
Jobs == {i \in DOMAIN run.batch :
            \/ run.batch[i].kind = "add"
            \/ run.batch[i].kind = "modify" /\ ~run.noDelete
            \/ run.batch[i].kind = "metadata" /\ i = 1}

Content(p) == IF p \in DOMAIN source
              THEN {[audio |-> source[p].audio, tags |-> source[p].tags]} ELSE {}

Read(p) ==
    /\ Applying
    /\ p \in {run.batch[i].src.path : i \in Jobs} \ DOMAIN run.reads
    /\ run' = [run EXCEPT !.reads = (p :> Content(p)) @@ @]
    /\ UNCHANGED <<source, host, device, ghost>>

Done(journal) == run' = [run EXCEPT !.batch = Tail(@), !.journal = journal]

Action == Head(run.batch)
StagedEntry(src, dbid, afp, target) ==
    [mtime |-> src.mtime, size |-> src.size, fingerprint |-> Fingerprint(source[src.path]),
     audio_fingerprint |-> afp, target |-> target, dbid |-> dbid]

(* The dbid of the track a path replaces. *)
Prior(p) == IF p \in DOMAIN run.entries THEN {run.entries[p].dbid} ELSE {}

(* Mutant: a replacement keeps the audio fingerprint of its entry. *)
KeptAudio(p) == IF p \in DOMAIN run.entries THEN run.entries[p].audio_fingerprint
                ELSE AudioFingerprint(source[p])

StagedAudio(p) == AudioFingerprint(source[p])

(* What was read, under the stat of the walk and the fingerprints of now. *)
StageTrack ==
    /\ Applying /\ run.batch # <<>> /\ Action.kind \in {"add", "modify"}
    /\ Action.kind = "modify" => ~run.noDelete
    /\ LET p == Action.src.path
           row == CHOOSE c \in run.reads[p] : TRUE
       IN /\ p \in DOMAIN run.reads /\ run.reads[p] # {} /\ p \in DOMAIN source
          /\ Done([run.journal EXCEPT
                 !.obsolete = @ \cup Prior(p),
                 !.staged = Append(@, [path |-> p,
                     entry |-> StagedEntry(Action.src, 0,
                                   StagedAudio(p), host.target),
                     row |-> row])])
          /\ ghost' = [ghost EXCEPT !.raced =
                 IF {row} = Content(p) THEN @ ELSE @ \cup {p}]
    /\ UNCHANGED <<source, host, device>>

(* A tag edit keeps the audio, its fingerprint and its encoder; audio that *)
(* changed since the diff goes unnoticed.                                  *)
StageMetadata ==
    /\ Applying /\ run.batch # <<>> /\ Action.kind = "metadata"
    /\ LET p == Action.src.path
           entry == run.entries[p]
           read == CHOOSE c \in run.reads[p] : TRUE
       IN /\ p \in DOMAIN run.reads /\ run.reads[p] # {} /\ p \in DOMAIN source
          /\ Done([run.journal EXCEPT !.updates = Append(@, [path |-> p,
                     entry |-> StagedEntry(Action.src, entry.dbid,
                                   entry.audio_fingerprint, entry.target),
                     tags |-> read.tags])])
          /\ ghost' = [ghost EXCEPT !.missed =
                 IF /\ {read} = Content(p)
                    /\ AudioFingerprint(source[p]) = entry.audio_fingerprint
                 THEN @ ELSE @ \cup {p}]
    /\ UNCHANGED <<source, host, device>>

(* A file that cannot be read is skipped and the run goes on. *)
Skip ==
    /\ Applying /\ run.batch # <<>> /\ Action.kind \in {"add", "modify", "metadata"}
    /\ Action.src.path \in DOMAIN run.reads
    /\ run.reads[Action.src.path] = {} \/ Action.src.path \notin DOMAIN source
    /\ Done(run.journal)
    /\ UNCHANGED <<source, host, device, ghost>>

StageRemoval ==
    /\ Applying /\ run.batch # <<>> /\ Action.kind = "remove" /\ ~run.noDelete
    /\ Done([run.journal EXCEPT !.obsolete = @ \cup Prior(Action.src.path)])
    /\ UNCHANGED <<source, host, device, ghost>>

(* Without deletions neither removals nor replacements are applied. *)
Pass ==
    /\ Applying /\ run.batch # <<>> /\ Action.kind \in {"remove", "modify"}
    /\ run.noDelete
    /\ Done(run.journal)
    /\ UNCHANGED <<source, host, device, ghost>>

(* A stop is polled at every action and album; what is staged is published. *)
Stop ==
    /\ Applying
    /\ run' = [run EXCEPT !.stopped = TRUE]
    /\ ghost' = [ghost EXCEPT !.quiet = FALSE]
    /\ UNCHANGED <<source, host, device>>

Staged == Prepared(run.journal, run.entries, run.unknown)

(* Ten tracks or a minute into the albums, without the playlists.  The     *)
(* manifest of a first sync names no source root yet and is refused.       *)
Checkpoint ==
    /\ Applying /\ run.batch = <<>> /\ run.albums
    /\ IF run.rooted
       THEN \/ /\ Completes(Staged, {}, TRUE)
               /\ run' = [run EXCEPT !.journal = NoJournal, !.albums = FALSE,
                              !.entries = Staged.entries, !.unknown = Staged.unknown]
               /\ UNCHANGED ghost
            \/ RollsBack(run.journal) /\ Fails /\ Fault
       ELSE RollsBack(run.journal) /\ Fails /\ UNCHANGED ghost
    /\ UNCHANGED source

Mirrored(dev) ==
    [dev EXCEPT !.mirror = [
        store |-> [s \in Slugs |-> IF host.store[s].kind = "absent" THEN @.store[s]
                                   ELSE host.store[s]],
        subs |-> IF host.subs.set THEN host.subs ELSE @.subs]]

Ends == /\ run.phase = "apply"
        /\ run.stopped \/ (run.batch = <<>> /\ run.queue = <<>>)

(* The last publication carries the playlists; with nothing admitted and   *)
(* no playlists known there is none.  A run that succeeds mirrors the      *)
(* host's playlists onto the device.                                       *)
FinishUnpublished ==
    /\ Ends /\ ~run.albums /\ run.wanted = {}
    /\ device' = Mirrored(device)
    /\ run' = NoRun
    /\ ghost' = [ghost EXCEPT !.follows = "no"]
    /\ UNCHANGED <<source, host>>

Succeeds(prepared) ==
    LET after == Finished(Published(prepared, run.wanted), run.wanted)
    IN /\ prepared.ok
       /\ device' = IF after.lists = {} THEN Mirrored(after) ELSE after

Finish ==
    /\ Ends /\ (run.albums \/ run.wanted # {})
    /\ \/ /\ Succeeds(Staged)
          /\ host' = [host EXCEPT !.cache = device'.manifest]
          /\ IF device'.lists = {} /\ run.wanted # {} /\ ~run.noDelete
             THEN Follows("published") ELSE UNCHANGED ghost
       \/ Succeeds(Staged) /\ Fault /\ UNCHANGED host
       \/ StopsShort(Staged, run.wanted) /\ Fault
       \/ RollsBack(run.journal) /\ Fault
    /\ run' = NoRun
    /\ UNCHANGED source

(* The worker dies, or the device goes; what is staged is abandoned.       *)
Crash ==
    /\ ~Idle /\ run.phase = "apply" /\ Fault
    /\ run' = NoRun
    /\ UNCHANGED <<source, host, device>>

Run == \/ \E opts \in ghost.options : Begin(opts)
       \/ \E missed \in {{}} \cup {{p} : p \in Path} : Walk(missed)
       \/ \E opens \in BOOLEAN : RecoverJournal(opens) \/ RecoverLists(opens) \/ Plan(opens)
       \/ \E noDelete \in BOOLEAN : Proceed(noDelete)
       \/ Decline \/ Admit \/ StageTrack \/ StageMetadata \/ Skip \/ StageRemoval \/ Pass
       \/ \E p \in Path : Read(p)
       \/ Stop \/ Checkpoint \/ FinishUnpublished \/ Finish \/ Crash

(* what the daemon shows of it meanwhile, the device being connected *)

KnownManifest == Loaded.manifest

LibraryShown == Aggregate(IndexFiles)

TracksShown(rules) == ResolveTracks(IndexFiles, rules)

PlaylistsShown == Summaries(host.store, IndexFiles)

SelectionShown(selection) ==
    SelectionPreview(IndexFiles, Entries(KnownManifest), selection)

DeviceShown == DevicePreview(IndexFiles, host.selection, host.subs.slugs, host.store,
                             Entries(KnownManifest), Room)

(* X of Y tracks synced, Y from the last walk of the source unless the     *)
(* selection is partial.                                                   *)
StatusShown ==
    [synced |-> SyncedCount(Entries(KnownManifest), Unknown(KnownManifest)),
     library |-> LibraryCount(IndexFiles, host.selection, Cardinality(DOMAIN source))]

(* the user, the scanner and other programs *)

Edit == /\ ghost.edits > 0
        /\ ghost' = [ghost EXCEPT !.edits = @ - 1, !.clock = @ + 1, !.quiet = FALSE, !.follows = "no"]

(* A write advances the seconds of a file's mtime. *)
Write(p, audio, tags) ==
    source' = (p :> [mtime |-> ghost.clock + 1, audio |-> audio, tags |-> tags]) @@ source

EditFile ==
    /\ Edit
    /\ \E p \in Path :
          \/ \E a \in Audios, t \in TagSets : p \notin DOMAIN source /\ Write(p, a, t)
          \/ /\ p \in DOMAIN source
             /\ \/ \E a \in Audios : Write(p, a, source[p].tags)
                \/ \E t \in TagSets \ {source[p].tags} : Write(p, source[p].audio, t)
                \/ source' = [q \in DOMAIN source \ {p} |-> source[q]]
    /\ UNCHANGED <<host, device, run>>

EditHost ==
    /\ Edit /\ Idle
    /\ \/ \E s \in Selections \ {host.selection} : host' = [host EXCEPT !.selection = s]
       \/ \E s \in Subscribed : host' = [host EXCEPT !.subs = [set |-> TRUE, slugs |-> s]]
       \/ \E s \in Slugs, d \in Definitions : host' = [host EXCEPT !.store[s] = d]
       \/ \E t \in Targets \ {host.target} : host' = [host EXCEPT !.target = t]
       \/ host' = [host EXCEPT !.rockbox = ~@]
       \/ \E r \in {1, 2} \ {host.root} : host' = [host EXCEPT !.root = r]
       \/ \E unreadable \in {{}} \cup {{p} : p \in DOMAIN source} :
             host' = [host EXCEPT !.index = [root |-> host.root,
                 files |-> Scanned(Walked(DOMAIN source), IndexFiles, source,
                                   unreadable, NoTags)]]
       \/ host' = [host EXCEPT !.cache = Absent, !.subs = [set |-> FALSE, slugs |-> <<>>],
                               !.store = [s \in Slugs |-> [kind |-> "absent"]]]
    /\ UNCHANGED <<source, device, run>>

(* Another program at the device.  While a journal waits, a changed        *)
(* database stops the recovery, which Checkpoint models; the projections   *)
(* may be edited at any time.                                              *)
EditDevice ==
    /\ Edit /\ Idle
    /\ \/ /\ ~Unfinished
          /\ \/ \E d \in device.media \ {Foreign} :
                    device' = [device EXCEPT !.media = @ \ {d}]
             \/ \E s \in DOMAIN device.owned :
                    device' = [device EXCEPT !.playlists =
                        [i \in DOMAIN @ \ {device.owned[s].id} |-> @[i]]]
             \/ device' = [device EXCEPT !.manifest = Absent]
       \/ \E f \in {g \in DOMAIN device.files : device.files[g] # Foreign} :
             \/ device' = [device EXCEPT !.files[f] = Edited]
             \/ device' = [device EXCEPT !.files = [g \in DOMAIN @ \ {f} |-> @[g]]]
    /\ UNCHANGED <<source, host, run>>

Init == /\ source = SourceInit
        /\ run = NoRun
        /\ \E s \in Scenarios :
              /\ host = s.host /\ device = s.device
              /\ ghost = [quiet |-> FALSE, follows |-> "no", raced |-> {}, missed |-> {},
                          room |-> 0, clock |-> 0, edits |-> s.edits, syncs |-> s.syncs,
                          faults |-> s.faults, options |-> s.options]

Next == Run \/ EditFile \/ EditHost \/ EditDevice

Spec == Init /\ [][Next]_vars

(* Properties *)

(* The manifest is what the next diff trusts: unless the source was written
   between the reads of one staging, the audio it records for a track is the
   audio of that very track on the device (stage_transcoded_result and
   stage_metadata_update, through rollbacks, recoveries and lost manifests). *)
AudioTruthful ==
    device.manifest # Absent =>
        \A p \in DOMAIN device.manifest.entries \ ghost.raced :
            LET entry == device.manifest.entries[p]
            IN /\ entry.dbid \in DOMAIN device.rows
               /\ entry.audio_fingerprint = AudioFingerprint(device.rows[entry.dbid])

ListFollows(list, m) ==
    /\ list.slug \in DOMAIN device.owned
    /\ LET own == device.owned[list.slug]
           playlist == device.playlists[own.id]
       IN /\ own.id \in DOMAIN device.playlists
          /\ playlist.name = list.name
          /\ playlist.members = Desired(<<list>>, m.entries)[1].members
          /\ IF host.rockbox
             THEN \E r \in own.rockbox : r.file \in DOMAIN device.files
                                          /\ device.files[r.file] = playlist.members
             ELSE own.rockbox = {}

(* Two versions of a file that its size and its fingerprint do not tell
   apart: an edit from one to the other leaves the device with the old one. *)
Alike(row, file) ==
    Fingerprint(row) = Fingerprint(file) /\ SizeOf[row.audio] = SizeOf[file.audio]

(* After a run that nothing disturbed the device holds what the source, the
   selection and the playlists ask for, with the current audio and tags up to
   an edit that changed neither the size nor the first MiB of its file, and
   leaves nothing out while there was room for all of it; if it published,
   its playlists and their projections are those of the subscriptions and no
   other file of Classick's remains (run_connected as a whole). *)
DeviceFollows ==
    ghost.follows # "no" =>
        LET m == device.manifest
            set == Compute(Walked(DOMAIN source), host.selection, host.subs.slugs,
                           host.store, IndexFiles)
            wanted == Paths(set.sources)
            lists == set.lists
        IN /\ DOMAIN m.entries \subseteq wanted
           /\ wanted \subseteq DOMAIN m.entries \/ ghost.room < Cardinality(wanted)
           /\ \A p \in DOMAIN m.entries \ (ghost.raced \cup ghost.missed) :
                 Alike(device.rows[m.entries[p].dbid], source[p])
           /\ ghost.follows = "published" =>
                 /\ \A i \in DOMAIN lists : ListFollows(lists[i], m)
                 /\ DOMAIN device.owned = {lists[i].slug : i \in DOMAIN lists}
                 /\ \A f \in DOMAIN device.files \ Authorized(device.owned) :
                        device.files[f] \in {Foreign, Edited}

Current(files) ==
    /\ DOMAIN files = DOMAIN source
    /\ \A p \in DOMAIN source : Fresh(files, Stat(p))

AddedBy(actions) == {OfKind(actions, "add")[i].src.path : i \in DOMAIN OfKind(actions, "add")}
RemovedBy(actions) ==
    {OfKind(actions, "remove")[i].src.path : i \in DOMAIN OfKind(actions, "remove")}

(* What the daemon shows of a sync, out of the index and by rules of its own,
   is what the worker then plans out of its walk, when the index is current,
   nothing was disturbed and no entry has lost its track: the tracks of the
   scope and of the playlists, the new ones (all of them if the projection
   leaves room), the removals of a selection without playlists, the lengths
   of the playlists, the playlists that do not resolve (compute_device_preview,
   preview, build_playlist_summaries).  A pick in the catalogue stands for the
   tracks it is shown with (aggregate, resolve_tracks); and X of Y synced says
   all of Y once the device follows (build_status_update). *)
ViewsTruthful ==
    LET seen == DeviceShown
        lists == Resolved(host.subs.slugs, host.store, Walked(DOMAIN source), IndexFiles)
        planned == run.phase = "review" /\ ghost.quiet /\ Lost(KnownManifest) = {}
        followed == ghost.follows # "no" /\ Unknown(KnownManifest) = {}
                      /\ ghost.room >= Cardinality(DOMAIN source)
    IN /\ planned /\ Current(IndexFiles) =>
            /\ seen.selected \cup seen.extra =
                 ({run.actions[i].src.path : i \in DOMAIN run.actions}
                    \ RemovedBy(run.actions)) \cup seen.fresh
            /\ AddedBy(run.actions) \subseteq seen.fresh
            /\ seen.left > 0 /\ host.target = "alac" => AddedBy(run.actions) = seen.fresh
            /\ RemovedBy(run.actions) = SelectionShown(host.selection).removes \ seen.extra
            /\ seen.unresolved = Range(host.subs.slugs) \ {lists[i].slug : i \in DOMAIN lists}
            /\ \A i \in DOMAIN lists : PlaylistsShown[lists[i].slug].tracks = lists[i].members
       /\ \A album \in LibraryShown.albums :
            TracksShown({[kind |-> "album", artist |-> album.artist,
                          name |-> album.name]}) = album.tracks
       /\ \A genre \in LibraryShown.genres :
            TracksShown({[kind |-> "genre", artist |-> 0, name |-> genre.name]})
              = genre.tracks
       /\ followed /\ Current(IndexFiles) =>
            StatusShown.synced = StatusShown.library + Cardinality(seen.extra)

(* A track, a playlist and a projection file Classick did not make survive
   every sync, even under the names Classick wants (ensure_managed_playlist,
   plan_projection, remove_recorded). *)
ForeignKept ==
    /\ Foreign \in DOMAIN device.rows /\ Foreign \in device.media
    /\ Foreign \in DOMAIN device.playlists
    /\ device.playlists[Foreign].members = <<Foreign>>
    /\ \E f \in DOMAIN device.files : device.files[f] = Foreign
=============================================================================
