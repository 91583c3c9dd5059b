------------------------------- MODULE SyncSet -------------------------------
(***************************************************************************)
(* What one sync wants on the device, computed from the walked source, the *)
(* cached tags, the selection, the subscribed playlists and the manifest:  *)
(* selection.rs, playlist_rules.rs, playlist.rs, sync_set.rs, the diff of  *)
(* manifest.rs, fit.rs and the grouping of apply_loop.rs.  All of it is    *)
(* pure; SyncPlan runs it.                                                 *)
(*                                                                         *)
(* A path is a natural, so that < is the order of PathBuf.  Text is a      *)
(* natural too, case already folded, 0 the empty string; a year is 0 when  *)
(* the file has none.                                                      *)
(***************************************************************************)
EXTENDS Naturals, SequencesExt, FiniteSetsExt

CONSTANTS
    Path,        \* source-relative paths
    Dir,         \* [Path -> Nat]: the parent directory of a path
    SizeOf,      \* [audio -> Nat]: a FLAC's size; a tag edit fits its padding
    Prefix,      \* [audio \X tags -> the first MiB of a file with them]
    Within,      \* pairs <<part, whole>> of text with part inside whole
    StableHash   \* [Path -> Nat]: the seeded hash of the random order

ASSUME PathAssumption ==
    /\ Path \subseteq Nat
    /\ DOMAIN Dir = Path /\ DOMAIN StableHash = Path

(* A walk is a sequence of [path, mtime, size]. *)
Paths(walk) == {walk[i].path : i \in DOMAIN walk}
EntryOf(walk, p) == walk[CHOOSE i \in DOMAIN walk : walk[i].path = p]

(* selection *)

EffectiveArtist(tags) ==
    IF tags.album_artist = 0 THEN tags.artist ELSE tags.album_artist

SelectionMatches(rule, tags) ==
    \/ rule.kind = "artist" /\ rule.name = EffectiveArtist(tags)
    \/ rule.kind = "album" /\ rule.artist = EffectiveArtist(tags)
                           /\ rule.name = tags.album
    \/ rule.kind = "genre" /\ rule.name = tags.genre

Wants(selection, tags) ==
    LET matches == \E rule \in selection.rules : SelectionMatches(rule, tags)
    IN \/ selection.mode = "all"
       \/ selection.mode = "include" /\ matches
       \/ selection.mode = "exclude" /\ ~matches

(* The cached tags of a walked file count while its (mtime, size) match. *)
Fresh(files, src) ==
    src.path \in DOMAIN files /\ files[src.path].mtime = src.mtime
                              /\ files[src.path].size = src.size

(* A file whose tags are not known stays in scope. *)
InScope(src, selection, files) ==
    \/ selection.mode = "all"
    \/ ~Fresh(files, src)
    \/ Wants(selection, files[src.path].tags)

(* The fallback without a playlist store reads the tags the index lacks; a *)
(* file it cannot read is kept and stays unknown.                          *)
Probed(walk, selection, files, source) ==
    LET stale == {p \in Paths(walk) : ~Fresh(files, EntryOf(walk, p))
                                        /\ p \in DOMAIN source}
    IN IF selection.mode = "all" THEN files
       ELSE [p \in DOMAIN files \cup stale |->
                IF p \in stale
                THEN [mtime |-> EntryOf(walk, p).mtime,
                      size |-> EntryOf(walk, p).size, tags |-> source[p].tags]
                ELSE files[p]]

(* A scan reads what is stale, empty tags where it cannot, and forgets the *)
(* files that are gone.                                                    *)
Scanned(walk, files, source, unreadable, noTags) ==
    [p \in Paths(walk) |->
        IF Fresh(files, EntryOf(walk, p)) THEN files[p]
        ELSE [mtime |-> EntryOf(walk, p).mtime, size |-> EntryOf(walk, p).size,
              tags |-> IF p \in unreadable THEN noTags ELSE source[p].tags]]

(* smart playlists *)

TextMatches(op, value, text) ==
    \/ op = "is" /\ text = value
    \/ op = "contains" /\ (text = value \/ value = 0 \/ <<value, text>> \in Within)
    \/ op = "gte" /\ text >= value
    \/ op = "lte" /\ text <= value

YearMatches(op, value, year) ==
    /\ year # 0 /\ value # 0
    /\ \/ op \in {"is", "contains"} /\ year = value
       \/ op = "gte" /\ year >= value
       \/ op = "lte" /\ year <= value

RuleMatches(rule, tags) ==
    IF rule.field = "year" THEN YearMatches(rule.op, rule.value, tags.year)
    ELSE TextMatches(rule.op, rule.value, tags[rule.field])

MatchesRules(rules, tags) ==
    IF rules.matching = "all"
    THEN \A rule \in rules.rules : RuleMatches(rule, tags)
    ELSE \E rule \in rules.rules : RuleMatches(rule, tags)

Precedes(order, files, p, q) ==
    \/ order = "alpha" /\ p < q
    \/ order = "recent" /\ \/ files[p].mtime > files[q].mtime
                           \/ files[p].mtime = files[q].mtime /\ p < q
    \/ order = "random" /\ \/ StableHash[p] < StableHash[q]
                           \/ StableHash[p] = StableHash[q] /\ p < q

BytesOf(paths, files) == FoldLeft(LAMBDA sum, p : sum + files[p].size, 0, paths)

(* The limit keeps a prefix: the first tracks, or those that fit together. *)
ApplyLimit(paths, limit, files) ==
    LET Fits(k) == \/ limit.kind = "none"
                   \/ limit.kind = "tracks" /\ k <= limit.value
                   \/ limit.kind = "bytes"
                        /\ BytesOf(SubSeq(paths, 1, k), files) <= limit.value
    IN SubSeq(paths, 1, CHOOSE k \in 0..Len(paths) :
                            /\ Fits(k)
                            /\ \A l \in 0..Len(paths) : Fits(l) => l <= k)

Evaluate(rules, files) ==
    LET matched == {p \in DOMAIN files : MatchesRules(rules, files[p].tags)}
        ordered == SetToSortSeq(matched,
                                LAMBDA p, q : Precedes(rules.order, files, p, q))
    IN ApplyLimit(ordered, rules.limit, files)

(* the sync set *)

(* An unsafe or absent reference of a manual playlist is dropped, and so is *)
(* a smart playlist's match the walk never saw.                            *)
Members(playlist, walk, files) ==
    SelectSeq(IF playlist.kind = "manual" THEN playlist.tracks
              ELSE Evaluate(playlist.rules, files),
              LAMBDA p : p \in Path /\ p \in Paths(walk))

(* A slug that is absent or does not parse is skipped, not emptied. *)
Resolved(subs, store, walk, files) ==
    LET Add(lists, slug) ==
            IF store[slug].kind \in {"absent", "unreadable"} THEN lists
            ELSE Append(lists, [slug |-> slug, name |-> store[slug].name,
                                members |-> Members(store[slug], walk, files)])
    IN FoldLeft(Add, <<>>, subs)

(* The scope in walk order, then what the playlists add, in their order. *)
Compute(walk, selection, subs, store, files) ==
    LET scope == SelectSeq(walk, LAMBDA src : InScope(src, selection, files))
        lists == Resolved(subs, store, walk, files)
        AddPath(sources, p) == IF p \in Paths(sources) THEN sources
                               ELSE Append(sources, EntryOf(walk, p))
        AddList(sources, list) == FoldLeft(AddPath, sources, list.members)
    IN [sources |-> FoldLeft(AddList, scope, lists), lists |-> lists]

(* the diff *)

(* Only the first MiB is hashed: what differs beyond it goes unnoticed.    *)
Fingerprint(file) == Prefix[<<file.audio, file.tags>>]
AudioFingerprint(file) == <<file.audio>>
NoAudioFingerprint == <<>>

IsOutputMismatch(entry, target, force) ==
    \/ force
    \/ entry.target # "unknown" /\ entry.target # target

(* Mutant: the stat is the size alone. *)
JudgedBySize(src, entry, file, target, force, present) ==
    IF entry.size = src.size /\ present
    THEN IF IsOutputMismatch(entry, target, force) THEN "modify" ELSE "unchanged"
    ELSE "modify"

(* What the diff makes of a source that has an entry. *)
Judged(src, entry, file, target, force, present) ==
    LET statMatches == entry.mtime = src.mtime /\ entry.size = src.size
        unchanged == \/ statMatches
                     \/ /\ Fingerprint(file) = entry.fingerprint
                        /\ src.size = entry.size
    IN IF ~present THEN "modify"
       ELSE IF unchanged
       THEN IF IsOutputMismatch(entry, target, force) THEN "modify" ELSE "unchanged"
       ELSE IF /\ entry.audio_fingerprint # NoAudioFingerprint
               /\ AudioFingerprint(file) = entry.audio_fingerprint
       THEN "metadata" ELSE "modify"

(* The diff reads a file only when its stat differs from its entry; one it *)
(* then cannot open fails the whole diff.                                  *)
Unreadable(entries, sources, source, present) ==
    \E i \in DOMAIN sources :
        LET src == sources[i]
        IN /\ src.path \in (DOMAIN entries \cap present) \ DOMAIN source
           /\ \/ entries[src.path].mtime # src.mtime
              \/ entries[src.path].size # src.size

Diff(entries, sources, source, target, force, present) ==
    LET Of(src) ==
            [kind |-> IF src.path \notin DOMAIN entries THEN "add"
                      ELSE Judged(src, entries[src.path],
                                  IF src.path \in DOMAIN source THEN source[src.path]
                                  ELSE [audio |-> 0, tags |-> 0],
                                  target, force, src.path \in present),
             src |-> src]
        gone == DOMAIN entries \ Paths(sources)
        Removal(p) == [kind |-> "remove",
                       src |-> [path |-> p, mtime |-> entries[p].mtime,
                                size |-> entries[p].size]]
        removals == SetToSortSeq(gone, <)
    IN [i \in DOMAIN sources |-> Of(sources[i])]
       \o [i \in DOMAIN removals |-> Removal(removals[i])]

(* albums *)

AlbumKey(p, files) ==
    IF p \in DOMAIN files /\ files[p].tags.album # 0
    THEN <<files[p].tags.album, 0>> ELSE <<0, Dir[p]>>

(* The albums of a list of actions, each once, as first seen. *)
Albums(actions, files) ==
    FoldLeft(LAMBDA seen, action :
                 LET key == AlbumKey(action.src.path, files)
                 IN IF key \in Range(seen) THEN seen ELSE Append(seen, key),
             <<>>, actions)

OfKind(actions, kind) == SelectSeq(actions, LAMBDA action : action.kind = kind)

OfAlbum(actions, key, files) ==
    SelectSeq(actions, LAMBDA action : AlbumKey(action.src.path, files) = key)

(* First fit over whole albums: an album is kept when its additions fit    *)
(* what the albums kept before it have left.                               *)
Deferred(actions, budget, files) ==
    LET adds == OfKind(actions, "add")
        Bytes(key) == FoldLeft(LAMBDA sum, action : sum + action.src.size, 0,
                               OfAlbum(adds, key, files))
        Place(acc, key) == IF Bytes(key) <= acc.left
                           THEN [acc EXCEPT !.left = @ - Bytes(key)]
                           ELSE [acc EXCEPT !.out = @ \cup {key}]
    IN FoldLeft(Place, [left |-> budget, out |-> {}], Albums(adds, files)).out

(* What the fit pass keeps; only additions compete for space. *)
Kept(actions, deferred, files) ==
    SelectSeq(actions,
              LAMBDA action : \/ action.kind # "add"
                              \/ AlbumKey(action.src.path, files) \notin deferred)

(* The work of a run, one batch to an album; unchanged tracks are in none. *)
Batches(actions, files) ==
    LET work == SelectSeq(actions, LAMBDA action : action.kind # "unchanged")
        keys == Albums(work, files)
    IN [i \in DOMAIN keys |-> OfAlbum(work, keys[i], files)]
=============================================================================
