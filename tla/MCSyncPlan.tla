------------------------------ MODULE MCSyncPlan ------------------------------
EXTENDS SyncPlan, TLC

Tags(artist, album, genre) ==
    [artist |-> artist, album_artist |-> 0, album |-> album, genre |-> genre, year |-> 0]
T1 == Tags(1, 1, 1)
T2 == Tags(1, 1, 2)
MCTagSets == {T1, T2}
MCNoTags == Tags(0, 0, 0)
MCDir == [p \in Path |-> p]
MCSizeOf == [a \in {1, 2} |-> 1]
(* With the tags T2 comes artwork that fills the first MiB. *)
MCPrefix == [c \in {1, 2} \X MCTagSets |-> IF c[2] = T2 THEN <<0, T2>> ELSE c]
MCStableHash == [p \in Path |-> 3 - p]
MCSourceInit == [p \in Path |-> [mtime |-> 0, audio |-> 1, tags |-> IF p = 1 THEN T1 ELSE T2]]

Manual(tracks) == [kind |-> "manual", name |-> 1, tracks |-> tracks]
GenreList == [kind |-> "smart", name |-> 1,
              rules |-> [matching |-> "all", rules |-> {[field |-> "genre", op |-> "is", value |-> 2]},
                         order |-> "recent", limit |-> [kind |-> "tracks", value |-> 1]]]
NoList == [kind |-> "absent"]
MCDefinitions == {NoList, Manual(<<1>>), GenreList}
MCStore == [s \in Slugs |-> Manual(<<2, 1>>)]

All == [mode |-> "all", rules |-> {}]
OnlyGenre == [mode |-> "include", rules |-> {[kind |-> "genre", name |-> 1, artist |-> 0]}]
MCSelections == {All, OnlyGenre}
MCSubscribed == {<<>>, <<1>>}
HostWith(selection, subs, rockbox) ==
    [root |-> 1, index |-> [root |-> 1, files |-> <<>>], selection |-> selection,
     subs |-> subs, store |-> MCStore, target |-> "alac", rockbox |-> rockbox,
     cache |-> Absent]

DeviceWith(free) ==
    [manifest |-> Absent, rows |-> Foreign :> [audio |-> 1, tags |-> T1],
     media |-> {Foreign},
     playlists |-> Foreign :> [name |-> 1, members |-> <<Foreign>>, kind |-> "normal"],
     owned |-> <<>>, files |-> CandidateFilename(1, 1, 0) :> Foreign,
     mirror |-> [store |-> [s \in Slugs |-> NoList], subs |-> [set |-> FALSE, slugs |-> <<>>]],
     nextId |-> 1, pending |-> {}, lists |-> {}, free |-> free]

Plain == [force |-> FALSE, rebuild |-> FALSE, noDelete |-> FALSE]
Subscriber == HostWith(All, [set |-> TRUE, slugs |-> <<1>>], TRUE)
Scenario(host0, free, options, edits, syncs, faults) ==
    [host |-> host0, device |-> DeviceWith(free), options |-> options,
     edits |-> edits, syncs |-> syncs, faults |-> faults]

(* A tag edit rolled back, and both manifests lost since. *)
Orphan == [staged |-> <<>>, obsolete |-> {},
           updates |-> <<[path |-> 1, tags |-> T2,
               entry |-> [mtime |-> 0, size |-> 1, fingerprint |-> <<0, T2>>,
                          audio_fingerprint |-> <<1>>, target |-> "alac", dbid |-> 9]]>>]

MCScenarios == {
    Scenario(Subscriber, 4, {Plain}, 2, 2, 0),
    Scenario(Subscriber, 4, {Plain}, 1, 3, 1),
    Scenario(Subscriber, 2, {Plain}, 1, 2, 0),
    Scenario(Subscriber, 5, {Plain, [Plain EXCEPT !.force = TRUE],
                             [Plain EXCEPT !.rebuild = TRUE],
                             [Plain EXCEPT !.noDelete = TRUE]}, 1, 2, 0),
    [Scenario(Subscriber, 4, {Plain}, 0, 1, 1) EXCEPT !.device.pending = {Orphan}]}
===============================================================================
