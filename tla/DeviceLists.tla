----------------------------- MODULE DeviceLists -----------------------------
(***************************************************************************)
(* The playlists Classick keeps on a device: the iTunesDB playlists it     *)
(* owns by identifier (device_playlists/reconcile.rs, ipod/db.rs) and the  *)
(* .m3u8 projections for Rockbox it owns by name and hash                  *)
(* (rockbox_projection.rs, rockbox_projection_fs.rs).  Pure; SyncPlan runs *)
(* it in the publication of a sync.                                        *)
(*                                                                         *)
(* playlists: id -> [name, members, kind];                                 *)
(* owned:     slug -> [id, rockbox], rockbox a set of at most one record   *)
(*            [file, hash]; files: file name -> content.                   *)
(***************************************************************************)
EXTENDS Naturals, SequencesExt, FiniteSetsExt

CONSTANT MaxCollisions   \* names tried for one projection (256 in the code)

(* the owned iTunesDB playlists *)

IsNormal(playlists, id) == id \in DOMAIN playlists /\ playlists[id].kind = "normal"

(* A recorded id is reused while it names a normal playlist no slug before *)
(* took; otherwise a playlist is created.                                  *)
Reusable(acc, owned, slug) ==
    /\ slug \in DOMAIN owned
    /\ IsNormal(acc.playlists, owned[slug].id)
    /\ owned[slug].id \notin acc.reused

(* Mutant: a playlist of the same name is taken over. *)
EnsureNamed(acc, owned, item) ==
    LET named == {i \in DOMAIN acc.playlists : acc.playlists[i].name = item.name}
        id == IF named # {} THEN CHOOSE i \in named : TRUE ELSE acc.nextId
    IN [acc EXCEPT
           !.playlists = (id :> [name |-> item.name, members |-> item.members,
                                 kind |-> "normal"]) @@ @,
           !.owned = (item.slug :> [id |-> id, rockbox |-> {}]) @@ @,
           !.nextId = @ + 1]

EnsureManaged(acc, owned, item) ==
    LET reuse == Reusable(acc, owned, item.slug)
        id == IF reuse THEN owned[item.slug].id ELSE acc.nextId
        rockbox == IF item.slug \in DOMAIN owned THEN owned[item.slug].rockbox
                   ELSE {}
        playlist == [name |-> item.name, members |-> item.members,
                     kind |-> "normal"]
    IN [playlists |-> [i \in DOMAIN acc.playlists \cup {id} |->
                           IF i = id THEN playlist ELSE acc.playlists[i]],
        owned |-> [s \in DOMAIN acc.owned \cup {item.slug} |->
                       IF s = item.slug THEN [id |-> id, rockbox |-> rockbox]
                       ELSE acc.owned[s]],
        nextId |-> IF reuse THEN acc.nextId ELSE acc.nextId + 1,
        reused |-> acc.reused \cup {id}]

(* The playlists of slugs no longer desired go, by id and while normal. *)
Reconcile(playlists, owned, desired, nextId) ==
    LET Ensure(acc, item) == EnsureManaged(acc, owned, item)
        done == FoldLeft(Ensure, [playlists |-> playlists, owned |-> <<>>,
                                  nextId |-> nextId, reused |-> {}], desired)
        retained == {done.owned[s].id : s \in DOMAIN done.owned}
        dropped == {id \in {owned[s].id : s \in DOMAIN owned \ DOMAIN done.owned} :
                        IsNormal(playlists, id) /\ id \notin retained}
    IN [playlists |-> [i \in DOMAIN done.playlists \ dropped |-> done.playlists[i]],
        owned |-> done.owned, nextId |-> done.nextId]

(* Rockbox projections *)

CandidateFilename(name, slug, index) == <<name, slug, index>>

(* A file no record names is foreign. *)
TargetState(files, file, authorized) ==
    IF file \notin DOMAIN files THEN "missing"
    ELSE IF file \in authorized THEN "recorded" ELSE "foreign"

Authorized(owned) ==
    {record.file : record \in UNION {owned[s].rockbox : s \in DOMAIN owned}}

ContentMatches(files, record) ==
    record.file \in DOMAIN files /\ files[record.file] = record.hash

(* A candidate name is taken when it is free, or the slug's own recorded   *)
(* file with the wanted content already in it: a file is never rewritten.  *)
Usable(files, owned, selected, slug, record) ==
    LET owners == {s \in DOMAIN owned :
                       \E r \in owned[s].rockbox : r.file = record.file}
        state == TargetState(files, record.file, Authorized(owned))
    IN /\ record.file \notin selected
       /\ owners \subseteq {slug}
       /\ \/ state = "missing"
          \/ state = "recorded" /\ ContentMatches(files, record)

RecordAt(name, slug, hash, index) ==
    [file |-> CandidateFilename(name, slug, index), hash |-> hash]

(* The first usable name; none within the bound fails the publication. *)
ChooseRecord(files, owned, selected, slug, name, hash) ==
    LET usable == {i \in 0..MaxCollisions-1 :
                       Usable(files, owned, selected, slug,
                              RecordAt(name, slug, hash, i))}
    IN IF usable = {} THEN {}
       ELSE {RecordAt(name, slug, hash, CHOOSE i \in usable :
                                            \A j \in usable : i <= j)}

(* The old file of a slug is deleted unless it drifted from its record. *)
VerifiedPrevious(files, previous) ==
    {record \in previous : \/ record.file \notin DOMAIN files
                           \/ ContentMatches(files, record)}

(* The plan: who owns which file afterwards, and the operations by slug.   *)
(* hashes: slug -> content of its playlist; names: slug -> display name.   *)
PlanProjection(enabled, hashes, names, settled, candidate, files) ==
    LET Choose(acc, slug) ==
            LET record == ChooseRecord(files, candidate,
                              {r.file : r \in UNION {acc[s] : s \in DOMAIN acc}},
                              slug, names[slug], hashes[slug])
            IN [s \in DOMAIN acc \cup {slug} |->
                    IF s = slug THEN record ELSE acc[s]]
        chosen == IF enabled THEN FoldLeft(Choose, <<>>, SetToSeq(DOMAIN candidate))
                  ELSE [s \in DOMAIN candidate |-> {}]
        Before(s) == IF s \in DOMAIN settled THEN settled[s].rockbox ELSE {}
        AlreadySettled(s) == /\ enabled /\ s \in DOMAIN candidate
                             /\ chosen[s] = Before(s)
                             /\ \A r \in chosen[s] : ContentMatches(files, r)
        slugs == {s \in DOMAIN settled \cup DOMAIN candidate :
                      /\ ~AlreadySettled(s)
                      /\ Before(s) # {} \/ (s \in DOMAIN candidate /\ enabled)}
    IN [owned |-> [s \in DOMAIN candidate |->
                       [candidate[s] EXCEPT !.rockbox = chosen[s]]],
        operations |-> [s \in slugs |->
            IF s \in DOMAIN candidate /\ enabled
            THEN [previous |-> VerifiedPrevious(files, Before(s)),
                  desired |-> chosen[s]]
            ELSE [previous |-> Before(s), desired |-> {}]],
        chosen |-> \A s \in DOMAIN candidate : enabled => chosen[s] # {}]

(* An operation writes the new file unless it is already there, then       *)
(* removes the old one.  A file in either place that does not hold what    *)
(* its record says is left alone and stops the execution there.            *)
ExecuteOperation(acc, op) ==
    LET written == {r \in op.desired : r.file \notin DOMAIN acc.files}
        files == [f \in DOMAIN acc.files \cup {r.file : r \in written} |->
                      IF f \in DOMAIN acc.files THEN acc.files[f]
                      ELSE (CHOOSE r \in written : r.file = f).hash]
        obsolete == {r \in op.previous : /\ r.file \in DOMAIN files
                                         /\ \A d \in op.desired : d.file # r.file}
        published == \A r \in op.desired : ContentMatches(files, r)
        removable == \A r \in obsolete : ContentMatches(files, r)
    IN IF ~acc.done THEN acc
       ELSE IF ~published \/ ~removable
       THEN [files |-> files, done |-> FALSE]
       ELSE [files |-> [f \in DOMAIN files \ {r.file : r \in obsolete} |-> files[f]],
             done |-> TRUE]

ExecuteOperations(files, operations) ==
    FoldLeft(LAMBDA acc, s : ExecuteOperation(acc, operations[s]),
             [files |-> files, done |-> TRUE], SetToSeq(DOMAIN operations))
=============================================================================
