---------------------------- MODULE HostPromise ----------------------------
(***************************************************************************)
(* What holds between a request, its journal and what a reader is entitled *)
(* to see, whatever fails and whatever profile is imported, as long as no  *)
(* library drop is at work while the journal of another command is         *)
(* pending: the loop refuses every other command then.                     *)
(***************************************************************************)
EXTENDS HostInvariant

Serial == task.kind = "library" => commit = None /\ drop = None

Fields == (Devices \X Components) \union (Slugs \X {"list"})
Awaited(r) == reply[r] # "done"

(* One journal at most is pending, and a start has settled what it passed. *)
Alone ==
  /\ commit # None => drop = None /\ library = None
  /\ drop # None => library = None
  /\ daemon \in {"playlists", "library"} => commit = None
  /\ daemon = "library" => drop = None
  /\ daemon = "reconcile" =>
       drop = None /\ library = None /\ (task.kind # "config" => commit = None)
  /\ task.kind = "config" => drop = None /\ library = None
  /\ task.kind = "delete" => commit = None /\ library = None
  /\ task.kind = "save" => Settled

(* Subscriptions name playlists. *)
Named == \A d \in Devices : config[d].subscriptions \subseteq Slugs
NamedParts(parts) ==
  "subscriptions" \in DOMAIN parts =>
    parts["subscriptions"].old \subseteq Slugs /\ parts["subscriptions"].new \subseteq Slugs

-----------------------------------------------------------------------------
(* A configuration commit: of a client or of the startup repair.             *)
Present(subs) == {s \in subs : Loaded(s) # NoList}

ConfigAsked ==
  /\ task.step = "journal" => commit = None
  /\ task.who # "boot" =>
       /\ "subscriptions" \in DOMAIN task.edit => task.edit["subscriptions"] \subseteq Slugs
       /\ task.step # "journal" => commit.req = task.req /\ commit.device = task.device
       /\ task.step \in {"advance", "remove"} =>
            /\ DOMAIN commit.parts = task.done
            /\ \A c \in task.done : commit.parts[c].new = task.edit[c]
  /\ task.who = "client" =>
       /\ task.req \in Requests /\ Awaited(task.req)
       /\ ask[task.req].kind = "config" /\ ask[task.req].device = task.device
       /\ DOMAIN task.edit \subseteq DOMAIN ask[task.req].edit
       /\ \A c \in DOMAIN ask[task.req].edit :
            IF c \in DOMAIN task.edit THEN task.edit[c] = ask[task.req].edit[c]
            ELSE task.step # "restore" => config[task.device][c] = ask[task.req].edit[c]
  /\ task.who = "repair" =>
       /\ task.req = "repair" /\ DOMAIN task.edit = {"subscriptions"}
       /\ task.step = "journal" =>
            task.edit["subscriptions"] = Present(config[task.device].subscriptions)

OfClient ==
  /\ commit.req \in Requests /\ Awaited(commit.req)
  /\ ask[commit.req].kind = "config" /\ ask[commit.req].device = commit.device
  /\ DOMAIN commit.parts \subseteq DOMAIN ask[commit.req].edit
  /\ \A c \in DOMAIN commit.parts : commit.parts[c].new = ask[commit.req].edit[c]

OfRepair ==
  /\ commit.req = "repair" /\ DOMAIN commit.parts = {"subscriptions"}
  /\ commit.parts["subscriptions"].new = Present(commit.parts["subscriptions"].old)

CommitKept ==
  /\ OfClient \/ OfRepair
  /\ NamedParts(commit.parts)
  /\ LiveParts({"old", "new"})
  /\ ~ Undoable =>
       \A c \in DOMAIN commit.parts :
         Part(c) # commit.parts[c].old => before[<<commit.device, c>>] = commit.parts[c].old

CommitPart ==
  /\ task.kind = "config" => ConfigAsked
  /\ commit # None => CommitKept

-----------------------------------------------------------------------------
(* A deletion.                                                               *)
Exclusive(s, list) ==
  /\ list # NoList
  /\ IF list = Smart THEN manual[s] = NoList ELSE s \notin smart

DeleteAsked ==
  /\ task.who = "client" => Awaited(task.req)
  /\ task.step \in {"stage", "prepare"} =>
       LET s == ask[task.req].slug IN drop = None /\ Exclusive(s, Loaded(s))
  /\ task.step \notin {"stage", "prepare"} => drop.req = task.req
  /\ task.step = "publish" =>
       /\ drop.phase = "prepared"
       /\ \A d \in Devices \ Subs : drop.slug \notin config[d].subscriptions
  /\ task.step \in {"subscriptions", "revisions"} => drop.phase = "publishing"

DropKept ==
  /\ Awaited(drop.req) /\ ask[drop.req].kind = "delete" /\ ask[drop.req].slug = drop.slug
  /\ Exclusive(drop.slug, drop.list)
  /\ \A d \in Subs :
       /\ drop.subs[d].old \subseteq Slugs /\ drop.slug \in drop.subs[d].old
       /\ drop.subs[d].new = drop.subs[d].old \ {drop.slug}
  /\ drop.phase = "prepared" =>
       /\ Live(drop.slug) = drop.list
       /\ \A d \in Subs : config[d].subscriptions = drop.subs[d].old
  /\ drop.phase = "publishing" =>
       /\ before[<<drop.slug, "list">>] = drop.list
       /\ \A d \in Subs : before[<<d, "subscriptions">>] = drop.subs[d].old

DropPart ==
  /\ task.kind = "delete" => DeleteAsked
  /\ drop # None => DropKept

-----------------------------------------------------------------------------
(* A library drop.                                                           *)
LibraryLive ==
  LET a == ask[library.req] IN
  IF a.kind = "add" THEN config[a.device].selection = library.new
  ELSE manual[a.slug] = library.new

LibraryAsked ==
  /\ task.who = "client" => Awaited(task.req)
  /\ task.step = "answer" => ask[task.req].kind = "add" /\ task.req \in Known
  /\ task.written => LibraryLive

LibraryKept ==
  LET a == ask[library.req] IN
  /\ IF a.kind = "add" THEN a.rules \subseteq library.new ELSE a.tracks \subseteq library.new
  /\ library.phase # "prepared" => LibraryLive

LibraryPart ==
  /\ task.kind = "library" => LibraryAsked
  /\ library # None => LibraryKept

-----------------------------------------------------------------------------
(* A save.                                                                   *)
SaveAsked ==
  LET a == ask[task.req] IN
  /\ Awaited(task.req)
  /\ task.step # "write" => IF a.tracks = Smart THEN a.slug \in smart ELSE manual[a.slug] = a.tracks
  /\ task.step = "saved" /\ a.tracks = Smart => manual[a.slug] = NoList

SavePart == task.kind = "save" => SaveAsked

Whole == before = [f \in Fields |-> before[f]]

PInv ==
  /\ Serial /\ Alone /\ Named /\ Whole
  /\ CommitPart /\ DropPart /\ LibraryPart /\ SavePart
=============================================================================
