--------------------------- MODULE HostInvariant ---------------------------
(***************************************************************************)
(* What holds between the host's journals, its files and the task that is  *)
(* at work: what a task has done by the step it is at, where an            *)
(* acknowledged request is recorded, and, while no write failed and no     *)
(* profile was imported, that a pending journal is one a start can settle. *)
(***************************************************************************)
EXTENDS Host

Contents == SUBSET (Names \union Slugs)
Registries == [Devices -> [Components -> Nat]]
Drops == {"add", "append"}

-----------------------------------------------------------------------------
(* Shapes: the values, the journals and the tasks.                           *)

Values ==
  /\ ask \in Scripts
  /\ daemon \in Booting \union {"up", "down", "refused"}
  /\ revs \in Registries /\ saved \in Registries
  /\ imported \in [Devices -> Nat]
  /\ config \in [Devices -> [Components -> Contents]]
  /\ DOMAIN manual = Slugs /\ \A s \in Slugs : Listed(manual[s])
  /\ smart \subseteq Slugs
  /\ listRev \in [Slugs -> Nat]
  /\ DOMAIN staged = Requests
  /\ ledger \in Seq(Requests)
  /\ reply \in [Requests -> {"none", "done", "failed"}]
  /\ prepared \in [Requests -> Nat]
  /\ evicted \subseteq Requests
  /\ crashes \in Nat /\ crashes <= MaxCrashes
  /\ faults \in Nat /\ faults <= MaxFaults(ask)

IsCommit(j) ==
  /\ DOMAIN j = {"req", "device", "revs", "parts"}
  /\ j.device \in Devices
  /\ j.revs \in [Components -> Nat]
  /\ DOMAIN j.parts # {} /\ DOMAIN j.parts \subseteq Components
  /\ j.parts \in [DOMAIN j.parts -> [old : Contents, new : Contents]]

IsDrop(j) ==
  /\ DOMAIN j = {"req", "slug", "phase", "list", "subs"}
  /\ j.req \in Requests /\ j.slug \in Slugs
  /\ j.phase \in {"prepared", "publishing"}
  /\ j.list = Smart \/ Listed(j.list)
  /\ DOMAIN j.subs \subseteq Devices
  /\ j.subs \in [DOMAIN j.subs -> [old : Contents, new : Contents, rev : Nat]]

IsLibrary(j) ==
  /\ DOMAIN j = {"req", "phase", "new", "rev"}
  /\ j.req \in Requests /\ ask[j.req].kind \in Drops
  /\ j.phase \in {"prepared", "payload", "revision", "ledger"}
  /\ j.rev \in Nat
  /\ j.new \subseteq Names \union Slugs
  /\ ask[j.req].kind = "append" => j.new \subseteq Names

Journals ==
  /\ commit # None => IsCommit(commit)
  /\ drop # None => IsDrop(drop)
  /\ library # None => IsLibrary(library)

ConfigTask(t) ==
  /\ t.kind = "config"
  /\ DOMAIN t = {"kind", "who", "req", "device", "edit", "left", "done", "step"}
  /\ t.who \in {"client", "repair", "boot"}
  /\ t.device \in Devices
  /\ t.who # "boot" => Edits(t.edit) /\ DOMAIN t.edit # {}
  /\ t.left \subseteq Components /\ t.done \subseteq Components
  /\ t.step \in {"journal", "publish", "advance", "restore", "remove"}
  /\ t.who = "boot" => t.step \in {"restore", "remove"}

DeleteTask(t) ==
  /\ t.kind = "delete"
  /\ DOMAIN t = {"kind", "req", "step", "who", "left"}
  /\ t.who \in {"client", "boot"}
  /\ t.left \subseteq Devices
  /\ t.step \in {"stage", "prepare", "publish", "subscriptions", "revisions", "restore", "undone"}
  /\ t.step \in {"stage", "prepare", "publish"} => t.who = "client"
  /\ t.req \in Requests
  /\ t.step \in {"stage", "prepare"} => ask[t.req].kind = "delete"

SaveTask(t) ==
  /\ t.kind = "save"
  /\ DOMAIN t = {"kind", "req", "step"}
  /\ t.req \in Requests /\ ask[t.req].kind = "save"
  /\ t.step \in {"write", "other", "saved"}

LibraryTask(t) ==
  /\ t.kind = "library"
  /\ DOMAIN t = {"kind", "req", "who", "records", "step", "written"}
  /\ t.who \in {"client", "boot"}
  /\ t.req \in Requests /\ ask[t.req].kind \in Drops
  /\ t.records \in Registries
  /\ t.step \in {"evaluate", "journal", "forward", "recover", "answer"}
  /\ t.who = "boot" => t.step = "recover"
  /\ t.written \in BOOLEAN

(* Where a task runs: the recovery of a journal in the phase of its kind. *)
Runs(boot) ==
  /\ task.who = "client" => daemon = "up"
  /\ task.who = "boot" => daemon = boot
  /\ task.who = "repair" => daemon = "reconcile"

Tasks ==
  \/ task = NoTask
  \/ ConfigTask(task) /\ Runs("config")
  \/ DeleteTask(task) /\ Runs("playlists")
  \/ SaveTask(task) /\ daemon = "up"
  \/ LibraryTask(task) /\ Runs("library")

Shapes == Values /\ Journals /\ Tasks

-----------------------------------------------------------------------------
(* A configuration commit at each of its steps.                              *)

Part(c) == config[commit.device][c]

CommitAt ==
  /\ task.kind = "config" /\ task.step = "journal" =>
       task.left = DOMAIN task.edit /\ task.done = {}
  /\ task.kind = "config" /\ task.step # "journal" =>
       /\ commit # None
       /\ task.step = "publish" =>
            /\ commit.device = task.device
            /\ AtOriginal
            /\ DOMAIN commit.parts = DOMAIN task.edit
            /\ task.left \union task.done \subseteq DOMAIN commit.parts
            /\ task.left \cap task.done = {}
            /\ \A c \in DOMAIN commit.parts :
                 /\ commit.parts[c].new = task.edit[c]
                 /\ Part(c) = IF c \in task.done THEN commit.parts[c].new ELSE commit.parts[c].old
       /\ task.step = "advance" =>
            commit.device = task.device /\ AtOriginal /\ LiveParts({"new"})
       /\ task.step = "restore" =>
            /\ AtOriginal
            /\ task.left \subseteq DOMAIN commit.parts
            /\ \A c \in DOMAIN commit.parts \ task.left : Part(c) = commit.parts[c].old
       /\ task.step = "remove" => AtTarget /\ LiveParts({"new"})

-----------------------------------------------------------------------------
(* A deletion at each of its steps.                                          *)

Subs == DOMAIN drop.subs
Scrubbed(d) == config[d].subscriptions = drop.subs[d].new
Original(d) ==
  /\ config[d].subscriptions = drop.subs[d].old
  /\ revs[d].subscriptions = drop.subs[d].rev

DropAt ==
  /\ task.kind = "delete" /\ task.step \in {"stage", "prepare"} => task.left = {}
  /\ task.kind = "delete" /\ task.step \notin {"stage", "prepare"} =>
       /\ drop # None
       /\ task.left \subseteq Subs
       /\ task.step = "subscriptions" => \A d \in Subs \ task.left : Scrubbed(d)
       /\ task.step = "revisions" =>
            /\ Live(drop.slug) = NoList
            /\ \A d \in Subs : Scrubbed(d)
            /\ \A d \in Subs \ task.left : revs[d].subscriptions = drop.subs[d].rev + 1
       /\ task.step = "restore" => \A d \in Subs \ task.left : Original(d)
       /\ task.step = "undone" => Live(drop.slug) = drop.list /\ \A d \in Subs : Original(d)

-----------------------------------------------------------------------------
(* A library drop: what was journalled is remembered or still pending.       *)

Known == ToSet(ledger) \union evicted
Unique == \A i, j \in DOMAIN ledger : ledger[i] = ledger[j] => i = j
Entries(x) == {r \in ToSet(ledger) : Target(r) = x}
Within == \A x \in Devices \union Slugs : Cardinality(Entries(x)) <= MaxPerTarget

Recorded ==
  \A r \in Requests : prepared[r] > 0 => r \in Known \/ (library # None /\ library.req = r)

Ledgered ==
  /\ Unique /\ Within /\ Recorded /\ AppliedOnce
  /\ library # None /\ library.phase = "ledger" => library.req \in Known

LibraryAt ==
  task.kind = "library" =>
    /\ task.step \in {"evaluate", "journal", "answer"} => library = None
    /\ task.step = "journal" =>
         /\ task.req \notin ToSet(ledger)
         /\ ask[task.req].kind = "append" => manual[ask[task.req].slug] # NoList
    /\ task.step \in {"forward", "recover"} => library # None
    /\ task.step = "forward" => library.req = task.req
    /\ task.written => task.step \in {"forward", "recover"} /\ library.phase # "ledger"
    /\ task.written /\ library.phase = "revision" => library.req \in Known

-----------------------------------------------------------------------------
(* While no write failed and no profile was imported.                        *)

(* One journal at most is pending, that of the task or of a start. *)
OneJournal ==
  /\ commit # None => drop = None /\ library = None
  /\ drop # None => library = None
  /\ commit # None => daemon \in {"config", "down", "refused"} \/ task.kind = "config"
  /\ drop # None => daemon \in {"config", "playlists", "down", "refused"} \/ task.kind = "delete"
  /\ library # None => daemon \notin {"reconcile", "up"} \/ task.kind = "library"
  /\ task.kind = "config" =>
       drop = None /\ library = None /\ (task.step = "journal" => commit = None)
  /\ task.kind = "delete" =>
       commit = None /\ library = None /\ (task.step \in {"stage", "prepare"} => drop = None)
  /\ task.kind = "library" =>
       commit = None /\ drop = None /\ (task.step = "recover" => task.who = "boot")

(* The registry in memory is the one in the file. *)
Mirrored ==
  \/ revs = saved
  \/ /\ task.kind = "library" /\ task.step # "answer"
     /\ task.who = "boot" \/ ask[task.req].kind = "add"

(* A start can undo or complete the commit. *)
CommitSettles ==
  /\ commit # None => Undoable \/ Complete
  /\ task.kind = "config" =>
       /\ task.step = "restore" => task.who = "boot"
       /\ task.step = "publish" => task.left \union task.done = DOMAIN task.edit

(* A start can undo or complete the deletion. *)
Ready(s, r) ==
  Subscribed(s) # {} => Dir \in staged[r] /\ \A d \in Subscribed(s) : <<d, "new">> \in staged[r]

Untouched == Live(drop.slug) = drop.list /\ \A d \in Subs : Original(d)

Completable ==
  /\ \A d \in Subs :
       /\ Scrubbed(d) \/ (config[d].subscriptions = drop.subs[d].old /\ <<d, "new">> \in Mine)
       /\ revs[d].subscriptions \in {drop.subs[d].rev, drop.subs[d].rev + 1}
  /\ Subs # {} => Dir \in Mine
  /\ Live(drop.slug) = drop.list \/ (Live(drop.slug) = NoList /\ ListFile \in Mine)

DropSettles ==
  /\ task.kind = "delete" /\ task.step = "prepare" => Ready(ask[task.req].slug, task.req)
  /\ drop # None =>
       /\ drop.phase = "prepared" => Untouched
       /\ drop.phase = "publishing" => Completable
  /\ task.kind = "delete" =>
       /\ task.step = "publish" =>
            /\ drop.phase = "prepared"
            /\ Subs # {} => Dir \in Mine /\ \A d \in Subs : <<d, "new">> \in Mine
       /\ task.step \in {"subscriptions", "revisions"} => drop.phase = "publishing"
       /\ task.step \in {"restore", "undone"} => drop.phase = "prepared" \/ Subs = {}

(* It cannot only when the deletion has no subscribers. *)
Refusal == daemon = "refused" => drop # None /\ Subs = {}

Settling == OneJournal /\ Mirrored /\ CommitSettles /\ DropSettles /\ Refusal

IInv == Shapes /\ CommitAt /\ DropAt /\ Ledgered /\ LibraryAt /\ (OnlyCrashed => Settling)
=============================================================================
