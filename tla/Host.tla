------------------------------- MODULE Host -------------------------------
(***************************************************************************)
(* The daemon's host-side transactions: a device-configuration commit      *)
(* (device_config_transaction.rs), a playlist deletion (playlist_commands/), *)
(* a library drop on a device or a playlist (library_mutations.rs with its  *)
(* acknowledgement ledger), a playlist save, the registry's revision        *)
(* counters, and the recovery of their journals when the daemon starts.    *)
(* The daemon runs one of them at a time; it may crash between any two      *)
(* durable writes, and a write may fail.                                    *)
(***************************************************************************)
EXTENDS Naturals, Sequences, FiniteSets, SequencesExt

CONSTANTS
  Devices, Slugs,   \* configured devices; playlist names
  Requests,         \* request identifiers of clients
  Names,            \* what selection rules and playlists are made of
  NoList, Smart,    \* an absent playlist; one defined by rules
  MaxPerTarget,     \* acknowledgements kept per target
  Scripts,          \* what the requests of one behaviour may ask for
  MaxCrashes,       \* crashes in one behaviour
  MaxFaults(_)      \* failing writes in the behaviours of one script

Components == {"selection", "subscriptions"}
Listed(x) == x = NoList \/ x \subseteq Names

(* What a request may say. *)
Edits(e) == DOMAIN e \subseteq Components /\ e \in [DOMAIN e -> SUBSET (Names \union Slugs)]

Wellformed(a) ==
  /\ a.kind \in {"config", "import", "add", "append", "save", "delete"}
  /\ a.kind \in {"config", "import", "add"} => a.device \in Devices
  /\ a.kind \in {"append", "save", "delete"} => a.slug \in Slugs
  /\ a.kind = "config" => Edits(a.edit)
  /\ a.kind = "config" /\ "subscriptions" \in DOMAIN a.edit => a.edit["subscriptions"] \subseteq Slugs
  /\ a.kind = "import" => a.revision \in Nat \ {0}
  /\ a.kind = "add" => a.rules \subseteq Names
  /\ a.kind = "append" => a.tracks \subseteq Names
  /\ a.kind = "save" => a.tracks = Smart \/ a.tracks \subseteq Names

ASSUME HostAssumption ==
  /\ NoList # Smart
  /\ Devices \cap Slugs = {} /\ "repair" \notin Requests
  /\ \A names \in SUBSET Names : names # NoList /\ names # Smart
  /\ MaxPerTarget \in Nat \ {0}
  /\ MaxCrashes \in Nat
  /\ \A script \in Scripts :
       /\ MaxFaults(script) \in Nat
       /\ \A r \in Requests : Wellformed(script[r])

VARIABLES
  ask,      \* what each request asks for
  daemon,   \* "down", a phase of starting, "up", or "refused": it cannot start
  task,     \* the command or recovery the daemon is in the middle of
  revs,     \* the registry in memory: a revision per device and component
  saved,    \* the registry in its file, as a load would read it
  imported, \* revision of the portable profile last imported, 0 for none
  config,   \* the live selection and subscription files
  manual,   \* the .m3u8 file of each playlist, or NoList
  smart,    \* slugs with a .rules.json file
  listRev,  \* revisions.json of the playlist store
  commit,   \* the configuration journal, or None
  drop,     \* the playlist-deletion journal, or None
  staged,   \* the files of each deletion's staging directory, and Dir if
            \* it exists: writing a file creates it, moving one there does not
  library,  \* the library journal, or None
  ledger,   \* acknowledged library requests, oldest first
  reply,    \* the last answer to each request
  before,   \* history: the content before its last change
  prepared, \* history: how often each library request was journalled
  evicted,  \* history: requests the ledger has forgotten
  crashes, faults

registry == <<revs, saved, imported>>
files == <<config, manual, smart, listRev>>
journals == <<commit, drop, staged, library>>
answers == <<ledger, reply, prepared, evicted>>
vars == <<ask, daemon, task, registry, files, journals, answers, before,
          crashes, faults>>

None == [none |-> TRUE]
NoTask == [kind |-> "idle"]
Dir == <<"dir">>
ListFile == <<"list">>

Booting == {"config", "playlists", "library", "reconcile"}
Idle == daemon = "up" /\ task = NoTask

(* A write that may fail: Ok when it lands, Bad when it does not. *)
Landed == UNCHANGED faults
Failed == faults < MaxFaults(ask) /\ faults' = faults + 1

Missing(s) == manual[s] = NoList /\ s \notin smart

(* The playlist a load of a slug yields: the manual file wins. *)
Loaded(s) == IF manual[s] # NoList THEN manual[s]
             ELSE IF s \in smart THEN Smart ELSE NoList
-----------------------------------------------------------------------------
(* The registry file keeps a configured device's own revisions only until a
   portable profile was imported: from then on it keeps the profile's. *)
Persist(records, profile) ==
  [d \in Devices |-> [c \in Components |->
     IF profile[d] > 0 THEN profile[d] ELSE records[d][c]]]

Advanced(records, d, parts) ==
  [records EXCEPT ![d] = [c \in Components |->
     IF c \in parts THEN @[c] + 1 ELSE @[c]]]

(* The answer to a command, and the daemon free for the next. *)
Answer(r, how) ==
  /\ task' = NoTask
  /\ reply' = [reply EXCEPT ![r] = how]

(* Commands that change host state or start a session are refused while a
   journal is pending; the two library drops are not among them. *)
Settled == commit = None /\ drop = None /\ library = None

(* Mutant: a playlist may be saved while a deletion is pending. *)
Guarded_NotSave(kind) == kind \in {"config", "delete"}

Guarded(kind) == kind \in {"config", "delete", "save"}
-----------------------------------------------------------------------------
(* SaveDeviceConfig: only the components that differ are committed. *)
Differing(d, edit) == {c \in DOMAIN edit : config[d][c] # edit[c]}

CommitTask(who, r, d, edit) ==
  [kind |-> "config", who |-> who, req |-> r, device |-> d, edit |-> edit,
   left |-> DOMAIN edit, done |-> {}, step |-> "journal"]

StartConfig(r) ==
  LET a == ask[r]
      parts == Differing(a.device, a.edit) IN
  IF parts = {}
  THEN Answer(r, "done")
  ELSE task' = CommitTask("client", r, a.device, [c \in parts |-> a.edit[c]])
       /\ UNCHANGED reply

(* DeletePlaylist: absent is success, both kinds at once is an error. *)
StartDelete(r) ==
  LET s == ask[r].slug IN
  CASE Missing(s) -> Answer(r, "done")
    [] (manual[s] # NoList /\ s \in smart) \/ staged[r] # {} -> Answer(r, "failed")
    [] OTHER -> task' = [kind |-> "delete", req |-> r, step |-> "stage",
                         who |-> "client", left |-> {}] /\ UNCHANGED reply

StartSave(r) ==
  task' = [kind |-> "save", req |-> r, step |-> "write"] /\ UNCHANGED reply

(* A library drop: it opens a registry of its own, finishes a pending
   mutation first, and only then looks at the request. *)
StartLibrary(r, who) ==
  /\ task' = [kind |-> "library", req |-> r, who |-> who, records |-> saved,
              step |-> IF library = None THEN "evaluate" ELSE "recover",
              written |-> FALSE]
  /\ UNCHANGED reply

Command(r) ==
  /\ Idle
  /\ ask[r].kind # "import" /\ reply[r] # "done"
  /\ IF Guarded(ask[r].kind) /\ ~Settled
     THEN Answer(r, "failed")
     ELSE CASE ask[r].kind = "config" -> StartConfig(r)
            [] ask[r].kind = "delete" -> StartDelete(r)
            [] ask[r].kind = "save" -> StartSave(r)
            [] OTHER -> StartLibrary(r, "client")
  /\ UNCHANGED <<ask, daemon, registry, files, journals, ledger, prepared,
                 evicted, crashes, faults>>
-----------------------------------------------------------------------------
(* device_config_transaction::commit, one durable write at a time. *)
InCommit(step) == task.kind = "config" /\ task.step = step
To(step) == task' = [task EXCEPT !.step = step]

(* How a commit ends: a client gets its answer; the startup repair goes on,
   and gives up at the first failure; recovery fails the start. *)
EndCommit(how) ==
  CASE task.who = "client" -> Answer(task.req, how) /\ UNCHANGED daemon
    [] task.who = "repair" ->
         /\ task' = NoTask
         /\ daemon' = IF how = "done" THEN daemon ELSE "up"
         /\ UNCHANGED reply
    [] task.who = "boot" ->
         /\ task' = NoTask
         /\ daemon' = IF how = "done" THEN daemon ELSE "down"
         /\ UNCHANGED reply

(* The journal names every component with its original and its target. *)
JournalCommit ==
  /\ InCommit("journal")
  /\ \/ /\ Landed
        /\ commit' = [req |-> task.req, device |-> task.device,
                      revs |-> revs[task.device],
                      parts |-> [c \in DOMAIN task.edit |->
                                   [old |-> config[task.device][c],
                                    new |-> task.edit[c]]]]
        /\ To("publish")
        /\ UNCHANGED <<daemon, reply>>
     \/ Failed /\ EndCommit("failed") /\ UNCHANGED commit
  /\ UNCHANGED <<ask, registry, files, drop, staged, library, ledger,
                 prepared, evicted, crashes>>

PublishComponent ==
  /\ InCommit("publish")
  /\ \E c \in task.left :
       \/ /\ Landed
          /\ config' = [config EXCEPT ![task.device][c] = task.edit[c]]
          /\ task' = [task EXCEPT !.left = @ \ {c}, !.done = @ \union {c}]
       \/ /\ Failed
          /\ task' = [task EXCEPT !.left = @ \ {c}]
          /\ UNCHANGED config
  /\ UNCHANGED <<ask, daemon, registry, manual, smart, listRev, journals,
                 answers, crashes>>

(* Mutant: the journal keeps the components that were not written. *)
Restricted_Keeps(j, parts) == j

(* The journal is narrowed to the components that were written. *)
Restricted(j, parts) == [j EXCEPT !.parts = [c \in parts |-> @[c]]]

Narrow ==
  /\ InCommit("publish")
  /\ task.left = {}
  /\ CASE task.done = DOMAIN commit.parts ->
            To("advance") /\ Landed /\ UNCHANGED <<daemon, reply, commit>>
       [] task.done = {} ->
            \/ commit' = None /\ Landed /\ EndCommit("failed")
            \/ Failed /\ EndCommit("failed") /\ UNCHANGED commit
       [] OTHER ->
            \/ commit' = Restricted(commit, task.done) /\ To("advance")
               /\ Landed /\ UNCHANGED <<daemon, reply>>
            \/ Failed /\ task' = [task EXCEPT !.step = "restore", !.left = task.done]
               /\ UNCHANGED <<daemon, reply, commit>>
  /\ UNCHANGED <<ask, registry, files, drop, staged, library, ledger,
                 prepared, evicted, crashes>>

Advance ==
  /\ InCommit("advance")
  /\ LET next == Advanced(revs, task.device, DOMAIN commit.parts) IN
     \/ /\ Landed
        /\ saved' = Persist(next, imported)
        /\ revs' = next
        /\ To("remove")
     \/ /\ Failed
        /\ task' = [task EXCEPT !.step = "restore", !.left = DOMAIN commit.parts]
        /\ UNCHANGED <<saved, revs>>
  /\ UNCHANGED <<ask, daemon, imported, files, journals, answers, crashes>>

(* A rollback that cannot finish leaves the journal for the next start. *)
RestoreComponent ==
  /\ InCommit("restore")
  /\ \E c \in task.left :
       \/ /\ Landed
          /\ config' = [config EXCEPT ![commit.device][c] = commit.parts[c].old]
          /\ task' = [task EXCEPT !.left = @ \ {c}]
          /\ UNCHANGED <<daemon, reply>>
       \/ Failed /\ EndCommit("failed") /\ UNCHANGED config
  /\ UNCHANGED <<ask, registry, manual, smart, listRev, journals, ledger,
                 prepared, evicted, crashes>>

(* The journal goes; a commit whose every component was written succeeded. *)
RemoveCommit ==
  /\ \/ InCommit("remove")
     \/ InCommit("restore") /\ task.left = {}
  /\ \/ /\ Landed
        /\ commit' = None
        /\ EndCommit(IF task.who = "boot"
                        \/ (task.step = "remove" /\ task.done = DOMAIN task.edit)
                     THEN "done" ELSE "failed")
     \/ Failed /\ EndCommit("failed") /\ UNCHANGED commit
  /\ UNCHANGED <<ask, registry, files, drop, staged, library, ledger,
                 prepared, evicted, crashes>>

CommitStep == \/ JournalCommit \/ PublishComponent \/ Narrow \/ Advance
              \/ RestoreComponent \/ RemoveCommit
-----------------------------------------------------------------------------
(* playlist_commands::transaction. *)
InDelete(step) == task.kind = "delete" /\ task.step = step

EndDelete(how) ==
  IF task.who = "client" THEN Answer(task.req, how) /\ UNCHANGED daemon
  ELSE /\ task' = NoTask
       /\ daemon' = CASE how = "done" -> daemon
                      [] how = "failed" -> "down"
                      [] how = "refused" -> "refused"
       /\ UNCHANGED reply

Subscribed(s) == {d \in Devices : s \in config[d].subscriptions}

Stage ==
  /\ InDelete("stage")
  /\ LET s == ask[task.req].slug
         pairs == {<<d, w>> : d \in Subscribed(s), w \in {"old", "new"}}
         whole == IF pairs = {} THEN {} ELSE pairs \union {Dir} IN
     \/ /\ Landed
        /\ staged' = [staged EXCEPT ![task.req] = whole]
        /\ To("prepare")
        /\ UNCHANGED reply
     \/ /\ Failed
        /\ whole # {}
        /\ staged' = [staged EXCEPT ![task.req] = {Dir}]
        /\ Answer(task.req, "failed")
  /\ UNCHANGED <<ask, daemon, registry, files, commit, drop, library, ledger,
                 prepared, evicted, crashes>>

(* Journalled as prepared, then as publishing; a failure of the second
   write leaves the prepared journal behind. *)
Prepare ==
  /\ InDelete("prepare")
  /\ LET s == ask[task.req].slug IN
     \/ /\ Landed
        /\ drop' = [req |-> task.req, slug |-> s, phase |-> "prepared",
                    list |-> Loaded(s),
                    subs |-> [d \in Subscribed(s) |->
                                [old |-> config[d].subscriptions,
                                 new |-> config[d].subscriptions \ {s},
                                 rev |-> revs[d].subscriptions]]]
        /\ To("publish")
        /\ UNCHANGED reply
     \/ Failed /\ Answer(task.req, "failed") /\ UNCHANGED drop
  /\ UNCHANGED <<ask, daemon, registry, files, commit, staged, library,
                 ledger, prepared, evicted, crashes>>

Publish ==
  /\ InDelete("publish")
  /\ \/ /\ Landed
        /\ drop' = [drop EXCEPT !.phase = "publishing"]
        /\ task' = [task EXCEPT !.step = "subscriptions", !.left = DOMAIN drop.subs]
        /\ UNCHANGED reply
     \/ Failed /\ Answer(task.req, "failed") /\ UNCHANGED drop
  /\ UNCHANGED <<ask, daemon, registry, files, commit, staged, library,
                 ledger, prepared, evicted, crashes>>

(* A failure while publishing: a command rolls back; recovery stops. *)
PublishFails(how) ==
  IF task.who = "client"
  THEN task' = [task EXCEPT !.step = "restore", !.left = DOMAIN drop.subs]
       /\ UNCHANGED <<daemon, reply>>
  ELSE EndDelete(how)

Mine == staged[drop.req]
Moved(file) == staged' = [staged EXCEPT ![drop.req] = @ \ {file}]

(* A subscription file becomes its target: the staged file is moved there. *)
ScrubSubscriptions ==
  /\ InDelete("subscriptions")
  /\ \E d \in task.left :
       LET live == config[d].subscriptions  sub == drop.subs[d] IN
       \/ /\ live = sub.new
          /\ task' = [task EXCEPT !.left = @ \ {d}]
          /\ Landed /\ UNCHANGED <<config, staged, daemon, reply>>
       \/ /\ live # sub.new /\ live = sub.old /\ <<d, "new">> \in Mine
          /\ \/ /\ Landed
                /\ config' = [config EXCEPT ![d].subscriptions = sub.new]
                /\ Moved(<<d, "new">>)
                /\ task' = [task EXCEPT !.left = @ \ {d}]
                /\ UNCHANGED <<daemon, reply>>
             \/ Failed /\ PublishFails("failed") /\ UNCHANGED <<config, staged>>
       \/ /\ live # sub.new /\ (live # sub.old \/ <<d, "new">> \notin Mine)
          /\ Landed /\ PublishFails("refused") /\ UNCHANGED <<config, staged>>
  /\ UNCHANGED <<ask, registry, manual, smart, listRev, commit, drop, library,
                 ledger, prepared, evicted, crashes>>

Unlinked(s) ==
  IF drop.list = Smart THEN smart' = smart \ {s} /\ UNCHANGED manual
  ELSE manual' = [manual EXCEPT ![s] = NoList] /\ UNCHANGED smart

Live(s) == IF drop.list = Smart THEN IF s \in smart THEN Smart ELSE NoList
           ELSE manual[s]

(* The playlist file moves into the staging directory, if there is one. *)
StagePlaylist ==
  /\ InDelete("subscriptions") /\ task.left = {}
  /\ LET s == drop.slug IN
     \/ /\ Live(s) = drop.list
        /\ \/ /\ Landed /\ Dir \in Mine
              /\ Unlinked(s)
              /\ staged' = [staged EXCEPT ![drop.req] = @ \union {ListFile}]
              /\ task' = [task EXCEPT !.step = "revisions", !.left = DOMAIN drop.subs]
              /\ UNCHANGED <<daemon, reply>>
           \/ /\ Landed /\ Dir \notin Mine
              /\ PublishFails("refused") /\ UNCHANGED <<manual, smart, staged>>
           \/ Failed /\ PublishFails("failed") /\ UNCHANGED <<manual, smart, staged>>
     \/ /\ Live(s) = NoList /\ ListFile \in Mine
        /\ task' = [task EXCEPT !.step = "revisions", !.left = DOMAIN drop.subs]
        /\ Landed /\ UNCHANGED <<manual, smart, staged, daemon, reply>>
     \/ /\ Live(s) # drop.list /\ ~(Live(s) = NoList /\ ListFile \in Mine)
        /\ Landed /\ PublishFails("refused") /\ UNCHANGED <<manual, smart, staged>>
  /\ UNCHANGED <<ask, registry, config, listRev, commit, drop, library, ledger,
                 prepared, evicted, crashes>>

(* The subscription revision of each device advances, one save at a time. *)
AdvanceSubscription ==
  /\ InDelete("revisions")
  /\ \E d \in task.left :
       LET now == revs[d].subscriptions
           next == Advanced(revs, d, {"subscriptions"}) IN
       \/ /\ now = drop.subs[d].rev + 1
          /\ task' = [task EXCEPT !.left = @ \ {d}]
          /\ Landed /\ UNCHANGED <<revs, saved, daemon, reply>>
       \/ /\ now = drop.subs[d].rev
          /\ \/ /\ Landed
                /\ saved' = Persist(next, imported)
                /\ revs' = next
                /\ task' = [task EXCEPT !.left = @ \ {d}]
                /\ UNCHANGED <<daemon, reply>>
             \/ Failed /\ PublishFails("failed") /\ UNCHANGED <<revs, saved>>
       \/ /\ now \notin {drop.subs[d].rev, drop.subs[d].rev + 1}
          /\ Landed /\ PublishFails("refused") /\ UNCHANGED <<revs, saved>>
  /\ UNCHANGED <<ask, imported, files, journals, ledger, prepared, evicted,
                 crashes>>

(* Rollback: refused once a device's revision moved. *)
Restorable(d) ==
  /\ revs[d].subscriptions = drop.subs[d].rev
  /\ \/ config[d].subscriptions = drop.subs[d].old
     \/ config[d].subscriptions = drop.subs[d].new /\ <<d, "old">> \in Mine

RestoreSubscriptions ==
  /\ InDelete("restore")
  /\ \E d \in task.left :
       LET unchanged == config[d].subscriptions = drop.subs[d].old IN
       \/ /\ Restorable(d)
          /\ Landed
          /\ config' = [config EXCEPT ![d].subscriptions = drop.subs[d].old]
          /\ IF unchanged THEN UNCHANGED staged ELSE Moved(<<d, "old">>)
          /\ task' = [task EXCEPT !.left = @ \ {d}]
          /\ UNCHANGED <<daemon, reply>>
       \/ /\ Restorable(d) /\ ~unchanged
          /\ Failed /\ EndDelete("failed") /\ UNCHANGED <<config, staged>>
       \/ /\ ~Restorable(d)
          /\ Landed /\ EndDelete(IF task.who = "boot" THEN "refused" ELSE "failed")
          /\ UNCHANGED <<config, staged>>
  /\ UNCHANGED <<ask, registry, manual, smart, listRev, commit, drop, library,
                 ledger, prepared, evicted, crashes>>

Relinked(s) ==
  IF drop.list = Smart THEN smart' = smart \union {s} /\ UNCHANGED manual
  ELSE manual' = [manual EXCEPT ![s] = drop.list] /\ UNCHANGED smart

RestorePlaylist ==
  /\ InDelete("restore") /\ task.left = {}
  /\ LET s == drop.slug IN
     \/ /\ Live(s) = drop.list
        /\ To("undone") /\ Landed /\ UNCHANGED <<manual, smart, staged, daemon, reply>>
     \/ /\ Live(s) = NoList /\ ListFile \in Mine
        /\ \/ /\ Landed /\ Relinked(s) /\ Moved(ListFile) /\ To("undone")
              /\ UNCHANGED <<daemon, reply>>
           \/ Failed /\ EndDelete("failed") /\ UNCHANGED <<manual, smart, staged>>
     \/ /\ Live(s) # drop.list /\ ~(Live(s) = NoList /\ ListFile \in Mine)
        /\ Landed /\ EndDelete(IF task.who = "boot" THEN "refused" ELSE "failed")
        /\ UNCHANGED <<manual, smart, staged>>
  /\ UNCHANGED <<ask, registry, config, listRev, commit, drop, library, ledger,
                 prepared, evicted, crashes>>

(* cleanup: the journal goes first, then the staging directory. *)
Cleanup ==
  /\ \/ InDelete("revisions") /\ task.left = {}
     \/ InDelete("undone")
  /\ \/ /\ Landed
        /\ drop' = None
        /\ staged' = [staged EXCEPT ![drop.req] = {}]
        /\ EndDelete(IF task.step = "revisions" \/ task.who = "boot"
                     THEN "done" ELSE "failed")
     \/ Failed /\ EndDelete("failed") /\ UNCHANGED <<drop, staged>>
  /\ UNCHANGED <<ask, registry, files, commit, library, ledger, prepared,
                 evicted, crashes>>

DeleteStep == \/ Stage \/ Prepare \/ Publish \/ ScrubSubscriptions
              \/ StagePlaylist \/ AdvanceSubscription \/ RestoreSubscriptions
              \/ RestorePlaylist \/ Cleanup
-----------------------------------------------------------------------------
(* PlaylistStore::save: the file of the new kind, then the other's removal. *)
SaveStep ==
  /\ task.kind = "save"
  /\ LET a == ask[task.req] IN
     CASE task.step = "write" ->
            \/ /\ Landed
               /\ IF a.tracks = Smart
                  THEN smart' = smart \union {a.slug} /\ UNCHANGED manual
                  ELSE manual' = [manual EXCEPT ![a.slug] = a.tracks] /\ UNCHANGED smart
               /\ To("other") /\ UNCHANGED reply
            \/ Failed /\ Answer(task.req, "failed") /\ UNCHANGED <<manual, smart>>
       [] task.step = "other" ->
            \/ /\ Landed
               /\ IF a.tracks = Smart
                  THEN manual' = [manual EXCEPT ![a.slug] = NoList] /\ UNCHANGED smart
                  ELSE smart' = smart \ {a.slug} /\ UNCHANGED manual
               /\ To("saved") /\ UNCHANGED reply
            \/ Failed /\ Answer(task.req, "failed") /\ UNCHANGED <<manual, smart>>
       [] task.step = "saved" ->
            Answer(task.req, "done") /\ Landed /\ UNCHANGED <<manual, smart>>
  /\ UNCHANGED <<ask, daemon, registry, config, listRev, journals, ledger,
                 prepared, evicted, crashes>>
-----------------------------------------------------------------------------
(* library_mutations.rs. *)
InLibrary(step) == task.kind = "library" /\ task.step = step
Target(r) == IF ask[r].kind = "add" THEN ask[r].device ELSE ask[r].slug

(* A command that fails keeps the daemon's own registry; one that succeeds
   on a device reloads it before it answers; the start reloads it whatever
   was recovered. *)
EndLibrary(how) ==
  IF task.who = "client"
  THEN /\ IF how = "done" /\ ask[task.req].kind = "add"
          THEN revs' = saved /\ task' = [task EXCEPT !.step = "answer"] /\ UNCHANGED reply
          ELSE Answer(task.req, how) /\ UNCHANGED revs
       /\ UNCHANGED daemon
  ELSE /\ task' = NoTask
       /\ revs' = saved
       /\ daemon' = IF how = "done" THEN "reconcile" ELSE "down"
       /\ UNCHANGED reply

(* Mutant: the ledger is not consulted. *)
Remembered_Never(r) == FALSE

(* A request in the ledger is answered again and changes nothing. *)
Remembered(r) == r \in ToSet(ledger)

Evaluate ==
  /\ InLibrary("evaluate")
  /\ LET r == task.req  a == ask[r] IN
     CASE Remembered(r) -> EndLibrary("done")
       [] ~Remembered(r) /\ a.kind = "append"
            /\ (manual[a.slug] = NoList \/ a.tracks \subseteq manual[a.slug]) ->
            EndLibrary("failed")
       [] OTHER -> To("journal") /\ UNCHANGED <<daemon, revs, reply>>
  /\ UNCHANGED <<ask, saved, imported, files, journals, ledger, prepared,
                 evicted, crashes, faults>>

(* The mutation is journalled with the whole new payload and revision. *)
Mutation(r) ==
  LET a == ask[r] IN
  IF a.kind = "add"
  THEN LET now == config[a.device].selection IN
       [req |-> r, phase |-> "prepared", new |-> now \union a.rules,
        rev |-> task.records[a.device].selection
                  + IF a.rules \subseteq now THEN 0 ELSE 1]
  ELSE [req |-> r, phase |-> "prepared", new |-> manual[a.slug] \union a.tracks,
        rev |-> listRev[a.slug] + 1]

JournalMutation ==
  /\ InLibrary("journal")
  /\ \/ /\ Landed
        /\ library' = Mutation(task.req)
        /\ prepared' = [prepared EXCEPT ![task.req] = @ + 1]
        /\ To("forward")
        /\ UNCHANGED <<daemon, revs, reply>>
     \/ Failed /\ EndLibrary("failed") /\ UNCHANGED <<library, prepared>>
  /\ UNCHANGED <<ask, saved, imported, files, commit, drop, staged, ledger,
                 evicted, crashes>>

Rolling == task.kind = "library" /\ task.step \in {"recover", "forward"}

(* Mutant: nothing is evicted. *)
Kept_All(entries) == entries

(* MutationLedger::publish: the newest acknowledgements of each target stay.
   One is added at a time, so one at most has to go. *)
Kept(entries) ==
  LET mine == {i \in DOMAIN entries : Target(entries[i]) = Target(library.req)} IN
  IF Cardinality(mine) <= MaxPerTarget THEN entries ELSE RemoveAt(entries, Min(mine))

(* A request is acknowledged once: an earlier entry of it gives way. *)
Acknowledged ==
  LET r == library.req
      others == IF r \in ToSet(ledger)
                THEN RemoveAt(ledger, CHOOSE i \in DOMAIN ledger : ledger[i] = r)
                ELSE ledger IN
  Kept(Append(others, r))

NextPhase == [prepared |-> "payload", payload |-> "revision", revision |-> "ledger"]

(* What each phase of roll_forward writes before it is journalled. *)
WritePayload ==
  /\ library.phase = "prepared"
  /\ LET a == ask[library.req] IN
     IF a.kind = "add"
     THEN config' = [config EXCEPT ![a.device].selection = library.new]
          /\ UNCHANGED manual
     ELSE manual' = [manual EXCEPT ![a.slug] = library.new] /\ UNCHANGED config
  /\ task' = [task EXCEPT !.written = TRUE]
  /\ UNCHANGED <<saved, listRev, ledger, evicted>>

WriteRevision ==
  /\ library.phase = "payload"
  /\ LET a == ask[library.req] IN
     IF a.kind = "add"
     THEN LET next == [task.records EXCEPT ![a.device].selection = library.rev] IN
          /\ saved' = Persist(next, imported)
          /\ task' = [task EXCEPT !.written = TRUE, !.records = next]
          /\ UNCHANGED listRev
     ELSE /\ listRev' = [listRev EXCEPT ![a.slug] = library.rev]
          /\ task' = [task EXCEPT !.written = TRUE]
          /\ UNCHANGED saved
  /\ UNCHANGED <<config, manual, ledger, evicted>>

WriteLedger ==
  /\ library.phase = "revision"
  /\ ledger' = Acknowledged
  /\ evicted' = evicted \union (ToSet(ledger) \ ToSet(Acknowledged))
  /\ task' = [task EXCEPT !.written = TRUE]
  /\ UNCHANGED <<config, manual, saved, listRev>>

RollWrite ==
  /\ Rolling /\ ~task.written
  /\ \/ /\ Landed
        /\ WritePayload \/ WriteRevision \/ WriteLedger
        /\ UNCHANGED <<daemon, revs, reply>>
     \/ /\ library.phase # "ledger"
        /\ Failed /\ EndLibrary("failed")
        /\ UNCHANGED <<config, manual, saved, listRev, ledger, evicted>>
  /\ UNCHANGED <<ask, imported, smart, journals, prepared, crashes>>

RollMark ==
  /\ Rolling /\ task.written
  /\ \/ /\ Landed
        /\ library' = [library EXCEPT !.phase = NextPhase[@]]
        /\ task' = [task EXCEPT !.written = FALSE]
        /\ UNCHANGED <<daemon, revs, reply>>
     \/ Failed /\ EndLibrary("failed") /\ UNCHANGED library
  /\ UNCHANGED <<ask, saved, imported, files, commit, drop, staged, ledger,
                 prepared, evicted, crashes>>

(* The journal goes; a command that recovered another's now looks at its own. *)
RollDone ==
  /\ Rolling /\ library.phase = "ledger"
  /\ \/ /\ Landed
        /\ library' = None
        /\ IF task.step = "recover" /\ task.who = "client"
           THEN To("evaluate") /\ UNCHANGED <<daemon, revs, reply>>
           ELSE EndLibrary("done")
     \/ Failed /\ EndLibrary("failed") /\ UNCHANGED library
  /\ UNCHANGED <<ask, saved, imported, files, commit, drop, staged, ledger,
                 prepared, evicted, crashes>>

Respond ==
  /\ InLibrary("answer")
  /\ Answer(task.req, "done")
  /\ UNCHANGED <<ask, daemon, registry, files, journals, ledger, prepared,
                 evicted, crashes, faults>>

LibraryStep == \/ Evaluate \/ JournalMutation \/ RollWrite \/ RollMark \/ RollDone
               \/ Respond
-----------------------------------------------------------------------------
(* run_daemon_with_deps recovers before the first command is accepted. *)
Start ==
  /\ daemon = "down"
  /\ daemon' = "config"
  /\ revs' = saved
  /\ UNCHANGED <<ask, task, saved, imported, files, journals, answers, crashes,
                 faults>>

(* device_config_transaction::recover_pending: the registry decides. *)
AtOriginal == revs[commit.device] = commit.revs
AtTarget == revs[commit.device] =
              [c \in Components |-> commit.revs[c]
                 + IF c \in DOMAIN commit.parts THEN 1 ELSE 0]
LiveParts(ends) ==
  \A c \in DOMAIN commit.parts :
    config[commit.device][c] \in {commit.parts[c][e] : e \in ends}

(* Mutant: a component already at its target cannot be undone. *)
Undoable_Untouched == AtOriginal /\ LiveParts({"old"})

Undoable == AtOriginal /\ LiveParts({"old", "new"})
Complete == ~AtOriginal /\ AtTarget /\ LiveParts({"new"})

RecoverConfig ==
  /\ daemon = "config" /\ task = NoTask
  /\ IF commit = None THEN daemon' = "playlists" /\ UNCHANGED task
     ELSE IF Undoable \/ Complete
     THEN /\ task' = [kind |-> "config", who |-> "boot", req |-> commit.req,
                      device |-> commit.device, edit |-> <<>>, done |-> {},
                      step |-> IF Undoable THEN "restore" ELSE "remove",
                      left |-> IF Undoable THEN DOMAIN commit.parts ELSE {}]
          /\ UNCHANGED daemon
     ELSE daemon' = "refused" /\ UNCHANGED task
  /\ UNCHANGED <<ask, registry, files, journals, answers, crashes, faults>>

(* A prepared deletion is undone, a publishing one is completed. *)
RecoverDeletion ==
  /\ daemon = "playlists" /\ task = NoTask
  /\ IF drop = None THEN daemon' = "library" /\ UNCHANGED task
     ELSE /\ task' = [kind |-> "delete", req |-> drop.req, who |-> "boot",
                      left |-> DOMAIN drop.subs,
                      step |-> IF drop.phase = "prepared" THEN "restore"
                               ELSE "subscriptions"]
          /\ UNCHANGED daemon
  /\ UNCHANGED <<ask, registry, files, journals, answers, crashes, faults>>

RecoverLibrary ==
  /\ daemon = "library" /\ task = NoTask
  /\ IF library = None
     THEN daemon' = "reconcile" /\ revs' = saved /\ UNCHANGED task
     ELSE /\ task' = [kind |-> "library", req |-> library.req, who |-> "boot",
                      records |-> saved, step |-> "recover", written |-> FALSE]
          /\ UNCHANGED <<daemon, revs>>
  /\ UNCHANGED <<ask, saved, imported, files, journals, answers, crashes, faults>>

(* reconcile_missing_subscriptions: one commit per device that subscribes to
   a playlist that is gone. *)
Lost(d) == {s \in config[d].subscriptions : Missing(s)}

Repair ==
  /\ daemon = "reconcile" /\ task = NoTask
  /\ \/ /\ \A d \in Devices : Lost(d) = {}
        /\ daemon' = "up" /\ UNCHANGED task
     \/ \E d \in Devices :
          /\ Lost(d) # {}
          /\ task' = CommitTask("repair", "repair", d,
                       [c \in {"subscriptions"} |-> config[d][c] \ Lost(d)])
          /\ UNCHANGED daemon
  /\ UNCHANGED <<ask, registry, files, journals, answers, crashes, faults>>

Boot == Start \/ RecoverConfig \/ RecoverDeletion \/ RecoverLibrary \/ Repair

(* A sync or a config delivery imports the device's portable profile; the
   registry file is refreshed at once only by the latter. *)
Import(r) ==
  /\ Idle /\ Settled
  /\ ask[r].kind = "import" /\ reply[r] = "none"
  /\ Answer(r, "done")
  /\ imported' = [imported EXCEPT ![ask[r].device] = ask[r].revision]
  /\ saved' \in {saved, Persist(revs, imported')}
  /\ UNCHANGED <<ask, daemon, revs, files, journals, ledger, prepared, evicted,
                 crashes, faults>>

Crash ==
  /\ daemon \notin {"down", "refused"}
  /\ crashes < MaxCrashes
  /\ crashes' = crashes + 1
  /\ daemon' = "down"
  /\ task' = NoTask
  /\ revs' = saved
  /\ UNCHANGED <<ask, saved, imported, files, journals, answers, faults>>
-----------------------------------------------------------------------------
(* The content a reader is entitled to: what is live, except where a pending
   journal decides otherwise. *)
CommitDecides(d, c) ==
  commit # None /\ Undoable /\ commit.device = d /\ c \in DOMAIN commit.parts
DropDecides(d, c) ==
  /\ drop # None /\ drop.phase = "publishing"
  /\ c = "subscriptions" /\ d \in DOMAIN drop.subs
LibraryDecides(x) == library # None /\ Target(library.req) = x

ConfigView(d, c) ==
  IF c = "selection" /\ LibraryDecides(d) THEN library.new
  ELSE IF DropDecides(d, c) THEN drop.subs[d].new
  ELSE IF CommitDecides(d, c) THEN commit.parts[c].old
  ELSE config[d][c]

ListView(s) ==
  IF drop # None /\ drop.slug = s /\ drop.phase = "publishing" THEN NoList
  ELSE IF LibraryDecides(s) THEN library.new
  ELSE Loaded(s)

Content ==
  [f \in (Devices \X Components) \union (Slugs \X {"list"}) |->
     IF f[2] = "list" THEN ListView(f[1]) ELSE ConfigView(f[1], f[2])]

Told == {r \in Requests : reply[r] = "done"}

(* A value is settled once a request that touches it is acknowledged. *)
Touches(r, f) ==
  LET a == ask[r] IN
  CASE a.kind = "config" -> f[1] = a.device /\ f[2] \in DOMAIN a.edit
    [] a.kind = "import" -> FALSE
    [] a.kind = "add" -> f = <<a.device, "selection">>
    [] a.kind \in {"append", "save"} -> f = <<a.slug, "list">>
    [] a.kind = "delete" ->
         \/ f = <<a.slug, "list">>
         \/ f[2] = "subscriptions" /\ Content[<<a.slug, "list">>] # NoList

Remember ==
  before' = [f \in DOMAIN Content |->
    IF Content'[f] # Content[f] THEN Content[f]
    ELSE IF \E r \in Told' \ Told : Touches(r, f) THEN Content[f]
    ELSE before[f]]

Init ==
  /\ ask \in Scripts
  /\ daemon = "up"
  /\ task = NoTask
  /\ revs = [d \in Devices |-> [c \in Components |-> 0]]
  /\ saved = revs
  /\ imported = [d \in Devices |-> 0]
  /\ config \in [Devices -> [Components -> SUBSET Slugs]]
  /\ \A d \in Devices : config[d].selection = {}
  /\ manual \in [Slugs -> {{}, NoList}]
  /\ smart = {}
  /\ listRev = [s \in Slugs |-> 0]
  /\ commit = None /\ drop = None /\ library = None
  /\ staged = [r \in Requests |-> {}]
  /\ ledger = <<>>
  /\ reply = [r \in Requests |-> "none"]
  /\ before = Content
  /\ prepared = [r \in Requests |-> 0]
  /\ evicted = {}
  /\ crashes = 0
  /\ faults = 0

Step ==
  \/ \E r \in Requests : Command(r)
  \/ CommitStep \/ DeleteStep \/ SaveStep \/ LibraryStep
  \/ Boot
  \/ \E r \in Requests : Import(r)
  \/ Crash

Next == Step /\ Remember

Spec == Init /\ [][Next]_vars
-----------------------------------------------------------------------------
(* Types, and the bound on remembered acknowledgements. *)
TypeOK ==
  /\ daemon \in Booting \union {"up", "down", "refused"}
  /\ revs \in [Devices -> [Components -> Nat]]
  /\ saved \in [Devices -> [Components -> Nat]]
  /\ \A s \in Slugs : manual[s] # Smart
  /\ smart \subseteq Slugs
  /\ \A x \in Devices \union Slugs :
       Cardinality({r \in ToSet(ledger) : Target(r) = x}) <= MaxPerTarget
  /\ reply \in [Requests -> {"none", "done", "failed"}]
  /\ faults <= MaxFaults(ask) /\ crashes <= MaxCrashes

(* A library request is journalled, and so applied, once, however often a
   client retries it across failures and crashes; unless the ledger has
   forgotten it (library_mutations.rs replay, recover_pending). *)
AppliedOnce ==
  \A r \in Requests : prepared[r] <= 1 \/ r \in evicted

(* A crash alone, wherever it falls, leaves journals that the next start can
   settle: it refuses to start only after a write failed, once a portable
   profile replaced the revisions the registry keeps, or on the deletion of a
   playlist without subscribers: nothing creates the staging directory then,
   so neither the command nor any later start can move the playlist there. *)
OnlyCrashed == faults = 0 /\ \A d \in Devices : imported[d] = 0
CrashRecovers ==
  OnlyCrashed /\ daemon = "refused" => drop # None /\ DOMAIN drop.subs = {}

(* A journal goes only when all it names is done, or all is as it was.  A
   configuration commit: every component it names has reached its target
   together with the revisions, or none has (device_config_transaction.rs
   commit and recover_pending).  A deletion: the playlist is gone, no device
   of the journal subscribes to it and every revision moved
   (playlist_commands/transaction.rs publish and restore). *)
CommitEnds ==
  \/ LiveParts({"new"}) /\ AtTarget
  \/ LiveParts({"old"}) /\ AtOriginal

DeletionEnds ==
  \/ /\ Live(drop.slug) = NoList
     /\ \A d \in DOMAIN drop.subs :
          /\ config[d].subscriptions = drop.subs[d].new
          /\ revs[d].subscriptions = drop.subs[d].rev + 1
  \/ /\ Live(drop.slug) = drop.list
     /\ \A d \in DOMAIN drop.subs :
          /\ config[d].subscriptions = drop.subs[d].old
          /\ revs[d].subscriptions = drop.subs[d].rev

JournalsEndWhole ==
  [][/\ commit # None /\ commit' = None => CommitEnds
     /\ drop # None /\ drop' = None => DeletionEnds]_vars

(* The host transactions implement the promise of HostStore: every request
   takes effect once and whole, a change that was not acknowledged may be
   taken back by a rollback or by recovery, an acknowledged one never is. *)
Promise == INSTANCE HostStore WITH
  content <- Content, noted <- evicted \union ToSet(ledger), told <- Told
ImplementsStore == Promise!Spec
=============================================================================
