------------------------------- MODULE Preview -------------------------------
(***************************************************************************)
(* What the daemon tells its clients about a library it does not walk: the *)
(* catalogue, the summaries of the playlists, the tracks behind a pick, the*)
(* previews of a selection and of a device, and the two counts of the      *)
(* status line (daemon/library.rs and the arms of daemon/runtime.rs that   *)
(* call it).  All of it reads the tag index of the last scan where the     *)
(* worker walks the source, and resolves playlists by a rule of its own.   *)
(* A count is given as the set it counts, bytes as source sizes (the sizes *)
(* AAC will take are estimated from durations, which are left out).        *)
(***************************************************************************)
EXTENDS SyncSet

(* what a client browses *)

AlbumsShown(files) ==
    {<<EffectiveArtist(files[p].tags), files[p].tags.album>> : p \in DOMAIN files}

OfShown(files, album) ==
    {p \in DOMAIN files :
        album = <<EffectiveArtist(files[p].tags), files[p].tags.album>>}

(* The genre an album is shown under; none when two are as frequent. *)
MajorityGenre(files, album) ==
    LET Count(g) == Cardinality({p \in OfShown(files, album) : files[p].tags.genre = g})
        genres == {files[p].tags.genre : p \in OfShown(files, album)}
    IN {g \in genres \ {0} : \A h \in genres \ {g} : Count(h) < Count(g)}

(* The browser's lists, in no order; every track is in one album. *)
Aggregate(files) ==
    [albums |-> {[artist |-> a[1], name |-> a[2], genre |-> MajorityGenre(files, a),
                  tracks |-> OfShown(files, a)] : a \in AlbumsShown(files)},
     genres |-> {[name |-> g, tracks |-> {p \in DOMAIN files : files[p].tags.genre = g}] :
                    g \in {files[p].tags.genre : p \in DOMAIN files}},
     total |-> DOMAIN files]

Selected(files, selection) == {p \in DOMAIN files : Wants(selection, files[p].tags)}

(* The tracks behind the rules a client picked, to list them one by one. *)
ResolveTracks(files, rules) == Selected(files, [mode |-> "include", rules |-> rules])

(* playlists *)

(* Members by the index alone: a smart playlist without the walk's word. *)
ResolvedByIndex(playlist, files) ==
    IF playlist.kind = "manual"
    THEN SelectSeq(playlist.tracks, LAMBDA p : p \in DOMAIN files)
    ELSE Evaluate(playlist.rules, files)

Unresolvable(playlist) == playlist.kind \in {"absent", "unreadable"}

(* One line to a playlist; one that does not parse is shown empty, in error.*)
Summaries(store, files) ==
    [slug \in {s \in DOMAIN store : store[s].kind # "absent"} |->
        IF store[slug].kind = "unreadable" THEN [tracks |-> <<>>, error |-> TRUE]
        ELSE [tracks |-> ResolvedByIndex(store[slug], files), error |-> FALSE]]

(* previews *)

(* Mutant: what the device has already is counted as new. *)
NetNew_All(paths, entries) == paths

NetNew(paths, entries) == paths \ DOMAIN entries

(* Of a selection that is being edited, before it is saved. *)
SelectionPreview(files, entries, selection) ==
    LET selected == Selected(files, selection)
    IN [selected |-> selected, adds |-> NetNew(selected, entries),
        removes |-> DOMAIN entries \ selected]

SubscribedExtra(subs, store, files, selected) ==
    UNION {Range(ResolvedByIndex(store[s], files)) :
              s \in {t \in Range(subs) : ~Unresolvable(store[t])}} \ selected

(* Of the next sync of a device, as it is configured. *)
DevicePreview(files, selection, subs, store, entries, free) ==
    LET selected == Selected(files, selection)
        extra == SubscribedExtra(subs, store, files, selected)
        fresh == NetNew(selected \cup extra, entries)
        bytes == MapThenSumSet(LAMBDA p : files[p].size, fresh)
    IN [selected |-> selected, extra |-> extra, fresh |-> fresh,
        left |-> IF bytes <= free THEN free - bytes ELSE 0,
        unresolved |-> {s \in Range(subs) : Unresolvable(store[s])}]

(* the status line: X of Y tracks synced *)

SyncedCount(entries, unknown) == Cardinality(DOMAIN entries) + Cardinality(unknown)

(* Y is a count of the last walk, or of the index for a partial selection. *)
LibraryCount(files, selection, walked) ==
    IF selection.mode = "all" THEN walked ELSE Cardinality(Selected(files, selection))
=============================================================================
