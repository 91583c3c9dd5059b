----------------------------- MODULE HostProofs -----------------------------
(***************************************************************************)
(* The host's transactions keep HostInvariant, for every set of devices,   *)
(* playlists and requests, every script of commands, every number of       *)
(* crashes and of failing writes.  One lemma per durable step of a commit, *)
(* a deletion, a save and a library drop, and per phase of a start; then   *)
(* what the run checks follows from the invariant.  The second half shows  *)
(* that they implement HostStore: what a reader is entitled to see while a *)
(* journal of each kind is pending, then, per step again, what it does to  *)
(* HostPromise and which step of HostStore it is.                          *)
(***************************************************************************)
EXTENDS HostPromise, FiniteSetTheorems, WellFoundedInduction, SequenceTheorems, TLAPS

-----------------------------------------------------------------------------
(* What the values of the host are.                                          *)

(* The variables of the library's acknowledgements.                        *)
Acks == <<ask, ledger, prepared, evicted, library>>

(* What the requests of a behaviour are.                                   *)
LEMMA Asked ==
  ASSUME Values
  PROVE  /\ \A r \in Requests : Wellformed(ask[r])
         /\ MaxFaults(ask) \in Nat
<1> QED BY HostAssumption DEF Values

(* A journal is not the absence of one.                                    *)
LEMMA JournalsDiffer ==
  ASSUME NEW j
  PROVE  /\ IsCommit(j) => j # None
         /\ IsDrop(j) => j # None
         /\ IsLibrary(j) => j # None
<1>1. IsCommit(j) => j # None BY DEF IsCommit, None
<1>2. IsDrop(j) => j # None BY DEF IsDrop, None
<1>3. IsLibrary(j) => j # None BY DEF IsLibrary, None
<1> QED BY <1>1, <1>2, <1>3

(* The kind of a task says what it is.                                     *)
LEMMA TaskKinds ==
  ASSUME Tasks
  PROVE  /\ task.kind \in {"idle", "config", "delete", "save", "library"}
         /\ task.kind = "idle" => task = NoTask
         /\ task.kind = "config" => ConfigTask(task) /\ Runs("config")
         /\ task.kind = "delete" => DeleteTask(task) /\ Runs("playlists")
         /\ task.kind = "save" => SaveTask(task) /\ daemon = "up"
         /\ task.kind = "library" => LibraryTask(task) /\ Runs("library")
<1>1. CASE task = NoTask BY <1>1 DEF NoTask
<1>2. CASE ConfigTask(task) /\ Runs("config") BY <1>2 DEF ConfigTask
<1>3. CASE DeleteTask(task) /\ Runs("playlists") BY <1>3 DEF DeleteTask
<1>4. CASE SaveTask(task) /\ daemon = "up" BY <1>4 DEF SaveTask
<1>5. CASE LibraryTask(task) /\ Runs("library") BY <1>5 DEF LibraryTask
<1> QED BY <1>1, <1>2, <1>3, <1>4, <1>5 DEF Tasks

(* A daemon that is free has a task of its own kind.                        *)
LEMMA IdleKind == NoTask.kind = "idle"
BY DEF NoTask

(* What the file keeps of the registry.                                    *)
LEMMA Persisted ==
  ASSUME NEW records \in Registries, NEW profile \in [Devices -> Nat]
  PROVE  /\ Persist(records, profile) \in Registries
         /\ (\A d \in Devices : profile[d] = 0) => Persist(records, profile) = records
<1>1. Persist(records, profile) \in Registries BY DEF Persist, Registries
<1>2. ASSUME \A d \in Devices : profile[d] = 0
      PROVE  Persist(records, profile) = records
  <2>1. \A d \in Devices : \A c \in Components : Persist(records, profile)[d][c] = records[d][c]
    BY <1>2 DEF Persist, Registries
  <2>2. \A d \in Devices : Persist(records, profile)[d] = records[d]
    BY <2>1, <1>1 DEF Registries
  <2> QED BY <2>2, <1>1 DEF Registries
<1> QED BY <1>1, <1>2

(* A commit advances the revisions of its parts.                           *)
LEMMA AdvancedBy ==
  ASSUME NEW records \in Registries, NEW d \in Devices, NEW parts
  PROVE  /\ Advanced(records, d, parts) \in Registries
         /\ \A e \in Devices : e # d => Advanced(records, d, parts)[e] = records[e]
         /\ \A c \in Components : Advanced(records, d, parts)[d][c]
                = IF c \in parts THEN records[d][c] + 1 ELSE records[d][c]
BY DEF Advanced, Registries

(* What concerns a task at work does not concern an idle one.              *)
LEMMA IdleAt ==
  ASSUME task' = NoTask
  PROVE  CommitAt' /\ DropAt' /\ LibraryAt' /\ Tasks' /\ task'.kind = "idle"
<1>1. task'.kind = "idle" BY IdleKind
<1> QED BY <1>1 DEF CommitAt, DropAt, LibraryAt, Tasks

(* Each kind of task has its own part of the invariant.                    *)
LEMMA OthersAt ==
         /\ task'.kind # "config" => CommitAt'
         /\ task'.kind # "delete" => DropAt'
         /\ task'.kind # "library" => LibraryAt'
BY DEF CommitAt, DropAt, LibraryAt

(* What is acknowledged changes only with these variables.                  *)
LEMMA LedgerFrame ==
  ASSUME Ledgered, UNCHANGED Acks
  PROVE  Ledgered'
BY DEF Ledgered, Acks, Unique, Within, Recorded, AppliedOnce, Entries, Target, Known

(* The journals keep their shape while they are left alone.                 *)
LEMMA JournalFrame ==
  ASSUME Journals, UNCHANGED <<ask, commit, drop, library>>
  PROVE  Journals'
BY DEF Journals, IsCommit, IsDrop, IsLibrary

(* A step after which a fault has happened has nothing to settle.          *)
LEMMA Faulted ==
  ASSUME Values, Failed, UNCHANGED ask
  PROVE  ~ OnlyCrashed' /\ faults' \in Nat /\ faults' <= MaxFaults(ask)'
<1>1. faults' = faults + 1 /\ faults < MaxFaults(ask) BY DEF Failed
<1>2. MaxFaults(ask) \in Nat /\ faults \in Nat BY Asked DEF Values
<1>3. MaxFaults(ask)' = MaxFaults(ask) OBVIOUS
<1> QED BY <1>1, <1>2, <1>3 DEF OnlyCrashed

(* With no journal pending there is nothing to settle but the registry.    *)
LEMMA NothingPending ==
  ASSUME commit' = None, drop' = None, library' = None,
         Mirrored', daemon' # "refused", 
         task'.kind = "config" => task'.step = "journal",
         task'.kind = "delete" => task'.step = "stage",
         task'.kind = "library" => task'.step = "evaluate"
  PROVE  Settling'
BY DEF Settling, OneJournal, CommitSettles, DropSettles, Refusal

-----------------------------------------------------------------------------
(* A configuration commit.                                                   *)

(* The live parts of a commit at one of its ends.                          *)
LEMMA LiveEnds ==
  /\ LiveParts({"new"}) <=> \A c \in DOMAIN commit.parts : Part(c) = commit.parts[c].new
  /\ LiveParts({"old"}) <=> \A c \in DOMAIN commit.parts : Part(c) = commit.parts[c].old
  /\ LiveParts({"old", "new"}) <=>
       \A c \in DOMAIN commit.parts : Part(c) = commit.parts[c].old \/ Part(c) = commit.parts[c].new
BY DEF LiveParts, Part

(* The same after a step.                                                   *)
LEMMA LiveEndsNext ==
  /\ LiveParts({"new"})' <=> \A c \in DOMAIN commit'.parts : Part(c)' = commit'.parts[c].new
  /\ LiveParts({"old"})' <=> \A c \in DOMAIN commit'.parts : Part(c)' = commit'.parts[c].old
  /\ LiveParts({"old", "new"})' <=>
       \A c \in DOMAIN commit'.parts : Part(c)' = commit'.parts[c].old \/ Part(c)' = commit'.parts[c].new
BY DEF LiveParts, Part

(* A journal of a commit is what its fields are.                           *)
LEMMA CommitShape ==
  ASSUME NEW j, DOMAIN j = {"req", "device", "revs", "parts"}, j.device \in Devices,
         j.revs \in [Components -> Nat], DOMAIN j.parts # {}, DOMAIN j.parts \subseteq Components,
         j.parts \in [DOMAIN j.parts -> [old : Contents, new : Contents]]
  PROVE  IsCommit(j)
BY DEF IsCommit

(* How the task of a commit ends.                                          *)
LEMMA CommitEnded ==
  ASSUME Values, Tasks, task.kind = "config", NEW how \in {"done", "failed"}, EndCommit(how)
  PROVE  /\ task' = NoTask
         /\ daemon' \in (Booting \union {"up", "down"})
         /\ reply' \in [Requests -> {"none", "done", "failed"}]
<1>1. ConfigTask(task) /\ Runs("config") BY TaskKinds
<1>2. CASE task.who = "client"
  <2>1. Answer(task.req, how) /\ UNCHANGED daemon BY <1>2, Zenon DEF EndCommit
  <2> QED BY <2>1, <1>1, <1>2 DEF Answer, Values, Runs
<1>3. CASE task.who = "repair"
  <2>1. task' = NoTask /\ daemon' = (IF how = "done" THEN daemon ELSE "up") /\ UNCHANGED reply
    BY <1>3, Zenon DEF EndCommit
  <2>2. daemon = "reconcile" BY <1>1, <1>3 DEF Runs
  <2> QED BY <2>1, <2>2 DEF Values, Booting
<1>4. CASE task.who = "boot"
  <2>1. task' = NoTask /\ daemon' = (IF how = "done" THEN daemon ELSE "down") /\ UNCHANGED reply
    BY <1>4, Zenon DEF EndCommit
  <2>2. daemon = "config" BY <1>1, <1>4 DEF Runs
  <2> QED BY <2>1, <2>2 DEF Values, Booting
<1> QED BY <1>1, <1>2, <1>3, <1>4 DEF ConfigTask

(* A commit that fails leaves the journal for the next start.              *)
LEMMA CommitFails ==
  ASSUME IInv, task.kind = "config", Failed, EndCommit("failed"),
         UNCHANGED <<ask, registry, files, journals, ledger, prepared, evicted, crashes>>
  PROVE  IInv'
<1> USE DEF IInv, Shapes
<1>1. /\ task' = NoTask
      /\ daemon' \in (Booting \union {"up", "down"})
      /\ reply' \in [Requests -> {"none", "done", "failed"}]
  BY CommitEnded
<1>2. ~ OnlyCrashed' /\ faults' \in Nat /\ faults' <= MaxFaults(ask)' BY Faulted
<1>3. Values' BY <1>1, <1>2 DEF Values, registry, files, journals
<1>4. Journals' BY JournalFrame DEF journals
<1>5. CommitAt' /\ DropAt' /\ LibraryAt' /\ Tasks' BY <1>1, IdleAt
<1>6. Ledgered' BY LedgerFrame DEF Acks, journals
<1> QED BY <1>2, <1>3, <1>4, <1>5, <1>6

(* The journal of a commit.                                                *)
LEMMA JournalCommitKept == ASSUME IInv, JournalCommit PROVE IInv'
<1> USE DEF IInv, Shapes
<1>1. task.kind = "config" /\ task.step = "journal" BY DEF JournalCommit, InCommit
<1>2. ConfigTask(task) /\ Runs("config") BY <1>1, TaskKinds
<1>3. CASE Failed /\ EndCommit("failed") /\ UNCHANGED commit
  BY <1>1, <1>3, CommitFails DEF JournalCommit, journals
<1>4. CASE ~ (Failed /\ EndCommit("failed") /\ UNCHANGED commit)
  <2>1. /\ Landed
        /\ commit' = [req |-> task.req, device |-> task.device,
                      revs |-> revs[task.device],
                      parts |-> [c \in DOMAIN task.edit |->
                                   [old |-> config[task.device][c],
                                    new |-> task.edit[c]]]]
        /\ To("publish")
        /\ UNCHANGED <<daemon, reply>>
        /\ UNCHANGED <<ask, registry, files, drop, staged, library, ledger,
                 prepared, evicted, crashes>>
    BY <1>4 DEF JournalCommit
  <2>2. /\ task'.kind = "config" /\ task'.step = "publish" /\ task'.who = task.who
        /\ task'.device = task.device /\ task'.edit = task.edit
        /\ task'.left = task.left /\ task'.done = task.done
        /\ DOMAIN task' = DOMAIN task
    BY <2>1, <1>1, <1>2 DEF To, ConfigTask
  <2>3. task.who # "boot" /\ Edits(task.edit) /\ DOMAIN task.edit # {}
    BY <1>1, <1>2 DEF ConfigTask
  <2>4. Tasks'
    BY <1>1, <1>2, <2>1, <2>2 DEF Tasks, ConfigTask, Runs
  <2>5. Values' BY <2>1 DEF Values, Landed, registry, files
  <2>6. commit'.device = task.device /\ commit'.revs = revs[task.device]
        /\ DOMAIN commit'.parts = DOMAIN task.edit
        /\ \A c \in DOMAIN task.edit : commit'.parts[c] = [old |-> config[task.device][c], new |-> task.edit[c]]
    BY <2>1
  <2>7. IsCommit(commit')
    <3>1. \A c \in DOMAIN task.edit : config[task.device][c] \in Contents /\ task.edit[c] \in Contents
      BY <1>2, <2>3 DEF ConfigTask, Edits, Values, Contents
    <3>2. commit'.parts \in [DOMAIN task.edit -> [old : Contents, new : Contents]]
      BY <3>1, <2>1
    <3>3. task.device \in Devices /\ revs[task.device] \in [Components -> Nat]
      BY <1>2 DEF ConfigTask, Values, Registries
    <3>4. DOMAIN task.edit \subseteq Components BY <2>3 DEF Edits
    <3>5. commit'.parts \in [DOMAIN commit'.parts -> [old : Contents, new : Contents]]
      BY <3>2, <2>6
    <3>6. commit'.device \in Devices /\ commit'.revs \in [Components -> Nat] BY <3>3, <2>6
    <3>7. DOMAIN commit'.parts # {} /\ DOMAIN commit'.parts \subseteq Components BY <3>4, <2>3, <2>6
    <3>8. DOMAIN commit' = {"req", "device", "revs", "parts"} BY <2>1
    <3> QED BY <3>5, <3>6, <3>7, <3>8, CommitShape
  <2>8. commit' # None BY <2>7, JournalsDiffer
  <2>9. Journals' BY <2>7, <2>1 DEF Journals, IsCommit, IsDrop, IsLibrary
  <2>10. task.left = DOMAIN task.edit /\ task.done = {} BY <1>1 DEF CommitAt
  <2>11. AtOriginal' BY <2>1, <2>6 DEF AtOriginal, registry
  <2>12. \A c \in DOMAIN commit'.parts : commit'.parts[c].new = task.edit[c] /\ Part(c)' = commit'.parts[c].old
    BY <2>1, <2>6 DEF Part, files
  <2>13. CommitAt'
    BY <2>2, <2>3, <2>6, <2>8, <2>10, <2>11, <2>12 DEF CommitAt
  <2>14. DropAt' /\ LibraryAt' BY <2>2, OthersAt
  <2>15. Ledgered' BY <2>1, LedgerFrame DEF Acks
  <2>16. ASSUME OnlyCrashed' PROVE Settling'
    <3>1. OnlyCrashed BY <2>1, <2>16 DEF OnlyCrashed, Landed, registry
    <3>2. Settling BY <3>1
    <3>3. OneJournal' BY <3>2, <2>1, <2>2, <1>1 DEF Settling, OneJournal
    <3>4. Mirrored' BY <3>2, <2>1, <2>2, <1>1 DEF Settling, Mirrored, registry
    <3>5. Undoable' BY <2>11, <2>12, LiveEndsNext DEF Undoable
    <3>6. CommitSettles' BY <3>5, <2>2, <2>3, <2>6, <2>10 DEF CommitSettles
    <3>7. DropSettles' BY <3>2, <2>1, <2>2, <1>1 DEF DropSettles, Settling, OneJournal
    <3>8. Refusal' BY <3>2, <2>1 DEF Settling, Refusal, Subs
    <3> QED BY <3>3, <3>4, <3>6, <3>7, <3>8 DEF Settling
  <2> QED BY <2>4, <2>5, <2>9, <2>13, <2>14, <2>15, <2>16
<1> QED BY <1>3, <1>4

(* A commit that goes on is still one.                                     *)
LEMMA CommitGoesOn ==
  ASSUME Tasks, task.kind = "config", UNCHANGED daemon, DOMAIN task' = DOMAIN task,
         task'.kind = task.kind, task'.who = task.who, task'.device = task.device,
         task'.edit = task.edit, task'.left \subseteq Components, task'.done \subseteq Components,
         task'.step \in {"publish", "advance", "restore", "remove"},
         task.who = "boot" => task'.step \in {"restore", "remove"}
  PROVE  Tasks'
<1>1. ConfigTask(task) /\ Runs("config") BY TaskKinds
<1>2. ConfigTask(task') BY <1>1 DEF ConfigTask
<1>3. Runs("config")' BY <1>1 DEF Runs
<1> QED BY <1>2, <1>3 DEF Tasks

(* A component of one device is replaced.                                  *)
LEMMA Replaced ==
  ASSUME config \in [Devices -> [Components -> Contents]], NEW d \in Devices,
         NEW c \in Components, NEW x \in Contents, config' = [config EXCEPT ![d][c] = x]
  PROVE  /\ config' \in [Devices -> [Components -> Contents]]
         /\ config'[d][c] = x
         /\ \A b \in Components : b # c => config'[d][b] = config[d][b]
         /\ \A e \in Devices : e # d => config'[e] = config[e]
OBVIOUS

(* While a commit settles nothing else is pending.                         *)
LEMMA CommitSettling ==
  ASSUME Settling, task.kind = "config", task.step # "journal", commit # None,
         UNCHANGED <<ask, daemon, drop, library>>,
         task'.kind = "config", task'.step # "journal", Mirrored', CommitSettles'
  PROVE  Settling'
<1>1. drop = None /\ library = None BY DEF Settling, OneJournal
<1>2. OneJournal' BY <1>1 DEF OneJournal
<1>3. DropSettles' BY <1>1 DEF DropSettles
<1>4. Refusal' BY <1>1 DEF Settling, Refusal, Subs
<1> QED BY <1>2, <1>3, <1>4 DEF Settling

(* A component is written, or cannot be.                                   *)
LEMMA PublishComponentKept == ASSUME IInv, PublishComponent PROVE IInv'
<1>0. Values /\ Journals /\ Tasks /\ CommitAt /\ DropAt /\ Ledgered /\ LibraryAt
      /\ (OnlyCrashed => Settling)
  BY DEF IInv, Shapes
<1>1. task.kind = "config" /\ task.step = "publish" BY DEF PublishComponent, InCommit
<1>2. ConfigTask(task) /\ Runs("config") BY <1>0, <1>1, TaskKinds
<1>3. PICK c \in task.left :
       \/ /\ Landed
          /\ config' = [config EXCEPT ![task.device][c] = task.edit[c]]
          /\ task' = [task EXCEPT !.left = @ \ {c}, !.done = @ \union {c}]
       \/ /\ Failed
          /\ task' = [task EXCEPT !.left = @ \ {c}]
          /\ UNCHANGED config
  BY DEF PublishComponent
<1>4. UNCHANGED <<ask, daemon, registry, manual, smart, listRev, journals, answers, crashes>>
  BY DEF PublishComponent
<1>5. /\ task'.kind = "config" /\ task'.step = "publish" /\ task'.who = task.who
      /\ task'.device = task.device /\ task'.edit = task.edit
      /\ task'.left = task.left \ {c}
      /\ DOMAIN task' = DOMAIN task
  BY <1>1, <1>2, <1>3 DEF ConfigTask
<1>6. \/ Landed /\ config' = [config EXCEPT ![task.device][c] = task.edit[c]]
         /\ task'.done = task.done \union {c}
      \/ Failed /\ config' = config /\ task'.done = task.done
  BY <1>1, <1>2, <1>3 DEF ConfigTask
<1>7. /\ commit # None /\ commit.device = task.device /\ AtOriginal
      /\ DOMAIN commit.parts = DOMAIN task.edit
      /\ task.left \union task.done \subseteq DOMAIN commit.parts
      /\ task.left \cap task.done = {}
      /\ \A b \in DOMAIN commit.parts :
              /\ commit.parts[b].new = task.edit[b]
              /\ Part(b) = IF b \in task.done THEN commit.parts[b].new ELSE commit.parts[b].old
  BY <1>0, <1>1 DEF CommitAt
<1>8. commit' = commit /\ revs' = revs /\ saved' = saved /\ imported' = imported /\ drop' = drop
      /\ library' = library
  BY <1>4 DEF journals, registry
<1>9. /\ task.device \in Devices /\ c \in Components /\ task.edit[c] \in Contents
  BY <1>1, <1>2, <1>7 DEF ConfigTask, Edits, Contents
<1>10. Values'
  <2>0. config \in [Devices -> [Components -> Contents]] BY <1>0 DEF Values
  <2>1. config' \in [Devices -> [Components -> Contents]] BY <2>0, <1>6, <1>9, Replaced
  <2>2. faults' \in Nat /\ faults' <= MaxFaults(ask)'
    BY <1>0, <1>4, <1>6, Faulted DEF Landed, Values
  <2> QED BY <1>0, <1>4, <2>1, <2>2 DEF Values, registry, journals, answers
<1>11. Journals' BY <1>0, <1>4, JournalFrame DEF journals
<1>12. task'.left \subseteq Components /\ task'.done \subseteq Components
  BY <1>2, <1>5, <1>6, <1>9 DEF ConfigTask
<1>13. Tasks'
  <2>1. task.who # "boot" BY <1>1, <1>2 DEF ConfigTask
  <2> QED BY <1>0, <1>1, <1>4, <1>5, <1>12, <2>1, CommitGoesOn
<1>14. AtOriginal' BY <1>7, <1>8 DEF AtOriginal
<1>15. ASSUME NEW b \in DOMAIN commit'.parts
       PROVE  /\ commit'.parts[b].new = task'.edit[b]
              /\ Part(b)' = IF b \in task'.done THEN commit'.parts[b].new ELSE commit'.parts[b].old
  <2>1. b \in Components BY <1>0, <1>7, <1>8 DEF Journals, IsCommit
  <2>2. CASE Landed /\ config' = [config EXCEPT ![task.device][c] = task.edit[c]]
              /\ task'.done = task.done \union {c}
    <3>1. config'[task.device][b] = IF b = c THEN task.edit[c] ELSE config[task.device][b]
      BY <2>1, <2>2, <1>0, <1>9 DEF Values
    <3> QED BY <3>1, <2>2, <1>5, <1>7, <1>8 DEF Part
  <2>3. CASE Failed /\ config' = config /\ task'.done = task.done
    BY <2>3, <1>5, <1>7, <1>8 DEF Part
  <2> QED BY <2>2, <2>3, <1>6
<1>16. task'.left \union task'.done \subseteq DOMAIN commit'.parts /\ task'.left \cap task'.done = {}
  BY <1>5, <1>6, <1>7, <1>8
<1>17. CommitAt' BY <1>5, <1>7, <1>8, <1>14, <1>15, <1>16 DEF CommitAt
<1>18. DropAt' /\ LibraryAt' BY <1>5, OthersAt
<1>19. Ledgered' BY <1>0, <1>4, LedgerFrame DEF Acks, answers, journals
<1>20. ASSUME OnlyCrashed' PROVE Settling'
  <2>1. Landed /\ task'.done = task.done \union {c} BY <1>0, <1>4, <1>6, <1>20, Faulted
  <2>2. Settling BY <1>0, <1>8, <1>20, <2>1 DEF OnlyCrashed, Landed
  <2>3. Mirrored' BY <2>2, <1>1, <1>8 DEF Settling, Mirrored
  <2>4. Undoable' BY <1>14, <1>15, LiveEndsNext DEF Undoable
  <2>5. CommitSettles' BY <2>1, <2>2, <2>4, <1>1, <1>5, <1>7, <1>8 DEF CommitSettles, Settling
  <2> QED BY <2>2, <2>3, <2>5, <1>1, <1>4, <1>5, <1>7, <1>8, CommitSettling
<1> QED BY <1>10, <1>11, <1>13, <1>17, <1>18, <1>19, <1>20 DEF IInv, Shapes

(* The journal is narrowed to what was written, or goes with it.           *)
LEMMA NarrowKept == ASSUME IInv, Narrow PROVE IInv'
<1>0. Values /\ Journals /\ Tasks /\ CommitAt /\ DropAt /\ Ledgered /\ LibraryAt
      /\ (OnlyCrashed => Settling)
  BY DEF IInv, Shapes
<1>1. task.kind = "config" /\ task.step = "publish" /\ task.left = {} BY DEF Narrow, InCommit
<1>2. ConfigTask(task) /\ Runs("config") BY <1>0, <1>1, TaskKinds
<1>3. UNCHANGED <<ask, registry, files, drop, staged, library, ledger, prepared, evicted, crashes>>
  BY DEF Narrow
<1>4. /\ commit # None /\ commit.device = task.device /\ AtOriginal
      /\ DOMAIN commit.parts = DOMAIN task.edit
      /\ task.done \subseteq DOMAIN commit.parts
      /\ \A b \in DOMAIN commit.parts :
              /\ commit.parts[b].new = task.edit[b]
              /\ Part(b) = IF b \in task.done THEN commit.parts[b].new ELSE commit.parts[b].old
  BY <1>0, <1>1 DEF CommitAt
<1>5. revs' = revs /\ saved' = saved /\ imported' = imported /\ config' = config
      /\ ask' = ask /\ drop' = drop /\ library' = library
  BY <1>3 DEF registry, files
<1>6. task.who # "boot" BY <1>1, <1>2 DEF ConfigTask
<1>7. Ledgered' BY <1>0, <1>3, LedgerFrame DEF Acks
<1>8. CASE Failed /\ EndCommit("failed") /\ UNCHANGED commit
  BY <1>8, <1>3, <1>1, CommitFails DEF journals
<1>9. CASE commit' = None /\ Landed /\ EndCommit("failed")
  <2>1. task' = NoTask /\ daemon' \in (Booting \union {"up", "down"})
        /\ reply' \in [Requests -> {"none", "done", "failed"}]
    BY <1>0, <1>1, <1>9, CommitEnded
  <2>2. CommitAt' /\ DropAt' /\ LibraryAt' /\ Tasks' /\ task'.kind = "idle" BY <2>1, IdleAt
  <2>3. Values' BY <1>0, <1>3, <1>9, <2>1 DEF Values, Landed, registry, files
  <2>4. Journals' BY <1>0, <1>5, <1>9 DEF Journals, IsDrop, IsLibrary
  <2>5. ASSUME OnlyCrashed' PROVE Settling'
    <3>1. Settling BY <1>0, <1>5, <1>9, <2>5 DEF OnlyCrashed, Landed
    <3>2. drop' = None /\ library' = None BY <3>1, <1>1, <1>5 DEF Settling, OneJournal
    <3>3. Mirrored' BY <3>1, <1>1, <1>5 DEF Settling, Mirrored
    <3>4. daemon' # "refused" BY <2>1 DEF Booting
    <3> QED BY <3>2, <3>3, <3>4, <2>2, <1>9, NothingPending
  <2> QED BY <1>7, <2>2, <2>3, <2>4, <2>5 DEF IInv, Shapes
<1>10. CASE task.done = DOMAIN commit.parts /\ To("advance") /\ Landed /\ UNCHANGED <<daemon, reply, commit>>
  <2>1. /\ task'.kind = "config" /\ task'.step = "advance" /\ task'.who = task.who
        /\ task'.device = task.device /\ task'.edit = task.edit
        /\ task'.left = task.left /\ task'.done = task.done
        /\ DOMAIN task' = DOMAIN task
    BY <1>10, <1>1, <1>2 DEF ConfigTask, To
  <2>2. Tasks' BY <1>0, <1>1, <1>2, <1>6, <1>10, <2>1, CommitGoesOn DEF ConfigTask
  <2>3. Values' BY <1>0, <1>3, <1>10 DEF Values, Landed, registry, files
  <2>4. Journals' BY <1>0, <1>5, <1>10, JournalFrame
  <2>5. AtOriginal' BY <1>4, <1>5, <1>10 DEF AtOriginal
  <2>6. \A b \in DOMAIN commit'.parts : Part(b)' = commit'.parts[b].new
    BY <1>4, <1>5, <1>10 DEF Part
  <2>7. LiveParts({"new"})' BY <2>6, LiveEndsNext
  <2>8. CommitAt' BY <2>1, <2>5, <2>7, <1>4, <1>10 DEF CommitAt
  <2>9. DropAt' /\ LibraryAt' BY <2>1, OthersAt
  <2>10. ASSUME OnlyCrashed' PROVE Settling'
    <3>1. Settling BY <1>0, <1>5, <1>10, <2>10 DEF OnlyCrashed, Landed
    <3>2. Mirrored' BY <3>1, <1>1, <1>5 DEF Settling, Mirrored
    <3>3. Undoable' BY <2>5, <2>6, LiveEndsNext DEF Undoable
    <3>4. CommitSettles' BY <3>3, <2>1, <1>4, <1>10 DEF CommitSettles
    <3> QED BY <3>1, <3>2, <3>4, <1>1, <1>4, <1>5, <1>10, <2>1, CommitSettling
  <2> QED BY <1>7, <2>2, <2>3, <2>4, <2>8, <2>9, <2>10 DEF IInv, Shapes
<1>11. CASE commit' = Restricted(commit, task.done) /\ To("advance") /\ Landed
            /\ UNCHANGED <<daemon, reply>> /\ task.done # {}
  <2>1. /\ task'.kind = "config" /\ task'.step = "advance" /\ task'.who = task.who
        /\ task'.device = task.device /\ task'.edit = task.edit
        /\ task'.left = task.left /\ task'.done = task.done
        /\ DOMAIN task' = DOMAIN task
    BY <1>11, <1>1, <1>2 DEF ConfigTask, To
  <2>2. Tasks' BY <1>0, <1>1, <1>2, <1>6, <1>11, <2>1, CommitGoesOn DEF ConfigTask
  <2>3. Values' BY <1>0, <1>3, <1>11 DEF Values, Landed, registry, files
  <2>4. IsCommit(commit) BY <1>0, <1>4 DEF Journals
  <2>5. DOMAIN commit' = DOMAIN commit /\ commit'.device = commit.device /\ commit'.revs = commit.revs
    BY <2>4, <1>11 DEF Restricted, IsCommit
  <2>6. commit'.parts = [c \in task.done |-> commit.parts[c]]
    BY <2>4, <1>11 DEF Restricted, IsCommit
  <2>7. IsCommit(commit')
    <3>1. \A c \in task.done : commit.parts[c] \in [old : Contents, new : Contents]
      BY <2>4, <1>4 DEF IsCommit
    <3>2. commit'.parts \in [DOMAIN commit'.parts -> [old : Contents, new : Contents]]
      BY <2>6, <3>1
    <3>3. DOMAIN commit'.parts # {} /\ DOMAIN commit'.parts \subseteq Components
      BY <2>4, <2>6, <1>4, <1>11 DEF IsCommit
    <3>4. commit'.device \in Devices /\ commit'.revs \in [Components -> Nat]
      BY <2>4, <2>5 DEF IsCommit
    <3>5. DOMAIN commit' = {"req", "device", "revs", "parts"} BY <2>4, <2>5 DEF IsCommit
    <3> QED BY <3>2, <3>3, <3>4, <3>5, CommitShape
  <2>8. commit' # None BY <2>7, JournalsDiffer
  <2>9. Journals' BY <2>7, <1>0, <1>5 DEF Journals, IsDrop, IsLibrary
  <2>10. AtOriginal' BY <1>4, <1>5, <2>5 DEF AtOriginal
  <2>11. \A b \in DOMAIN commit'.parts : Part(b)' = commit'.parts[b].new
    BY <1>4, <1>5, <2>5, <2>6 DEF Part
  <2>12. LiveParts({"new"})' BY <2>11, LiveEndsNext
  <2>13. commit'.device = task'.device
    BY <2>1, <2>5, <1>4
  <2>14. CommitAt' BY <2>1, <2>8, <2>10, <2>12, <2>13 DEF CommitAt
  <2>15. DropAt' /\ LibraryAt' BY <2>1, OthersAt
  <2>16. ASSUME OnlyCrashed' PROVE Settling'
    <3>1. Settling BY <1>0, <1>5, <1>11, <2>16 DEF OnlyCrashed, Landed
    <3>2. Mirrored' BY <3>1, <1>1, <1>5 DEF Settling, Mirrored
    <3>3. Undoable' BY <2>10, <2>11, LiveEndsNext DEF Undoable
    <3>4. CommitSettles' BY <3>3, <2>1, <2>13 DEF CommitSettles
    <3> QED BY <3>1, <3>2, <3>4, <1>1, <1>4, <1>5, <1>11, <2>1, CommitSettling
  <2> QED BY <1>7, <2>2, <2>3, <2>9, <2>14, <2>15, <2>16 DEF IInv, Shapes
<1>12. CASE Failed /\ task' = [task EXCEPT !.step = "restore", !.left = task.done]
            /\ UNCHANGED <<daemon, reply, commit>>
  <2>1. /\ task'.kind = "config" /\ task'.step = "restore" /\ task'.who = task.who
        /\ task'.device = task.device /\ task'.edit = task.edit
        /\ task'.left = task.done /\ task'.done = task.done
        /\ DOMAIN task' = DOMAIN task
    BY <1>12, <1>1, <1>2 DEF ConfigTask
  <2>2. Tasks' BY <1>0, <1>1, <1>2, <1>12, <2>1, CommitGoesOn DEF ConfigTask
  <2>3. ~ OnlyCrashed' /\ faults' \in Nat /\ faults' <= MaxFaults(ask)'
    BY <1>0, <1>5, <1>12, Faulted
  <2>4. Values' BY <1>0, <1>3, <1>12, <2>3 DEF Values, registry, files
  <2>5. Journals' BY <1>0, <1>5, <1>12, JournalFrame
  <2>6. AtOriginal' BY <1>4, <1>5, <1>12 DEF AtOriginal
  <2>7. \A b \in DOMAIN commit'.parts \ task'.left : Part(b)' = commit'.parts[b].old
    BY <1>4, <1>5, <1>12, <2>1 DEF Part
  <2>8. CommitAt' BY <2>1, <2>6, <2>7, <1>4, <1>12 DEF CommitAt
  <2>9. DropAt' /\ LibraryAt' BY <2>1, OthersAt
  <2> QED BY <1>7, <2>2, <2>3, <2>4, <2>5, <2>8, <2>9 DEF IInv, Shapes
<1>13. \/ task.done = DOMAIN commit.parts /\ To("advance") /\ Landed /\ UNCHANGED <<daemon, reply, commit>>
       \/ commit' = None /\ Landed /\ EndCommit("failed")
       \/ Failed /\ EndCommit("failed") /\ UNCHANGED commit
       \/ commit' = Restricted(commit, task.done) /\ To("advance") /\ Landed
            /\ UNCHANGED <<daemon, reply>> /\ task.done # {}
       \/ Failed /\ task' = [task EXCEPT !.step = "restore", !.left = task.done]
            /\ UNCHANGED <<daemon, reply, commit>>
  BY Zenon DEF Narrow
<1> QED BY <1>8, <1>9, <1>10, <1>11, <1>12, <1>13

(* The revisions advance with the file, or the parts are restored.         *)
LEMMA AdvanceKept == ASSUME IInv, Advance PROVE IInv'
<1>0. Values /\ Journals /\ Tasks /\ CommitAt /\ DropAt /\ Ledgered /\ LibraryAt
      /\ (OnlyCrashed => Settling)
  BY DEF IInv, Shapes
<1>1. task.kind = "config" /\ task.step = "advance" BY DEF Advance, InCommit
<1>2. ConfigTask(task) /\ Runs("config") BY <1>0, <1>1, TaskKinds
<1>3. UNCHANGED <<ask, daemon, imported, files, journals, answers, crashes>> BY DEF Advance
<1>4. /\ commit # None /\ commit.device = task.device /\ AtOriginal
      /\ LiveParts({"new"})
  BY <1>0, <1>1 DEF CommitAt
<1>5. commit' = commit /\ imported' = imported /\ config' = config
      /\ ask' = ask /\ daemon' = daemon /\ drop' = drop /\ library' = library
  BY <1>3 DEF journals, files
<1>6. task.who # "boot" BY <1>1, <1>2 DEF ConfigTask
<1>7. Ledgered' BY <1>0, <1>3, LedgerFrame DEF Acks, journals, answers
<1>8. Journals' BY <1>0, <1>5, JournalFrame
<1>9. IsCommit(commit) BY <1>0, <1>4 DEF Journals
<1>10. CASE /\ Landed
            /\ saved' = Persist(Advanced(revs, task.device, DOMAIN commit.parts), imported)
            /\ revs' = Advanced(revs, task.device, DOMAIN commit.parts)
            /\ To("remove")
  <2>1. /\ task'.kind = "config" /\ task'.step = "remove" /\ task'.who = task.who
        /\ task'.device = task.device /\ task'.edit = task.edit
        /\ task'.left = task.left /\ task'.done = task.done
        /\ DOMAIN task' = DOMAIN task
    BY <1>10, <1>1, <1>2 DEF ConfigTask, To
  <2>2. Tasks' BY <1>0, <1>1, <1>2, <1>5, <1>6, <2>1, CommitGoesOn DEF ConfigTask
  <2> DEFINE d == task.device
  <2>3. d \in Devices /\ revs \in Registries /\ imported \in [Devices -> Nat]
    BY <1>0, <1>2 DEF ConfigTask, Values
  <2>4. revs' \in Registries
        /\ \A c \in Components : revs'[d][c] = IF c \in DOMAIN commit.parts THEN revs[d][c] + 1 ELSE revs[d][c]
    BY <2>3, <1>10, AdvancedBy
  <2>5. saved' \in Registries /\ ((\A e \in Devices : imported[e] = 0) => saved' = revs')
    BY <2>3, <2>4, <1>10, Persisted
  <2>6. Values' BY <1>0, <1>3, <1>10, <2>4, <2>5 DEF Values, Landed, files, journals, answers
  <2>7. revs[d] = commit.revs BY <1>4 DEF AtOriginal
  <2>8. \A c \in Components : commit.revs[c] \in Nat BY <1>9 DEF IsCommit
  <2>9. AtTarget'
    <3>1. revs'[d] \in [Components -> Nat] BY <2>3, <2>4 DEF Registries
    <3>2. \A c \in Components : revs'[d][c] = commit.revs[c] + IF c \in DOMAIN commit.parts THEN 1 ELSE 0
      BY <2>4, <2>7, <2>8
    <3> HIDE DEF d
    <3>3. revs'[d] = [c \in Components |-> commit.revs[c] + IF c \in DOMAIN commit.parts THEN 1 ELSE 0]
      BY <3>1, <3>2
    <3> QED BY <3>3, <1>4, <1>5 DEF AtTarget, d
  <2>10. ~ AtOriginal'
    <3>1. PICK c \in DOMAIN commit.parts : TRUE BY <1>0, <1>4 DEF Journals, IsCommit
    <3>2. c \in Components BY <1>9 DEF IsCommit
    <3>3. revs'[d][c] = commit.revs[c] + 1 /\ commit.revs[c] \in Nat BY <2>4, <2>7, <2>8, <3>1, <3>2
    <3> QED BY <3>3, <1>4, <1>5 DEF AtOriginal
  <2>11. LiveParts({"new"})' BY <1>4, <1>5 DEF LiveParts
  <2>12. CommitAt' BY <2>1, <2>9, <2>11, <1>4, <1>5 DEF CommitAt
  <2>13. DropAt' /\ LibraryAt' BY <2>1, OthersAt
  <2>14. ASSUME OnlyCrashed' PROVE Settling'
    <3>1. OnlyCrashed BY <1>5, <1>10, <2>14 DEF OnlyCrashed, Landed
    <3>2. Settling BY <1>0, <3>1
    <3>3. Mirrored' BY <2>5, <3>1 DEF OnlyCrashed, Mirrored
    <3>4. Complete' BY <2>9, <2>10, <2>11 DEF Complete
    <3>5. CommitSettles' BY <3>4, <2>1, <1>4, <1>5 DEF CommitSettles
    <3> QED BY <3>2, <3>3, <3>5, <1>1, <1>4, <1>5, <2>1, CommitSettling
  <2> QED BY <1>7, <1>8, <2>2, <2>6, <2>12, <2>13, <2>14 DEF IInv, Shapes
<1>11. CASE /\ Failed
            /\ task' = [task EXCEPT !.step = "restore", !.left = DOMAIN commit.parts]
            /\ UNCHANGED <<saved, revs>>
  <2>1. /\ task'.kind = "config" /\ task'.step = "restore" /\ task'.who = task.who
        /\ task'.device = task.device /\ task'.edit = task.edit
        /\ task'.left = DOMAIN commit.parts /\ task'.done = task.done
        /\ DOMAIN task' = DOMAIN task
    BY <1>11, <1>1, <1>2 DEF ConfigTask
  <2>2. DOMAIN commit.parts \subseteq Components BY <1>9 DEF IsCommit
  <2>3. Tasks' BY <1>0, <1>1, <1>2, <1>5, <2>1, <2>2, CommitGoesOn DEF ConfigTask
  <2>4. ~ OnlyCrashed' /\ faults' \in Nat /\ faults' <= MaxFaults(ask)'
    BY <1>0, <1>5, <1>11, Faulted
  <2>5. Values' BY <1>0, <1>3, <1>11, <2>4 DEF Values, files, journals, answers
  <2>6. AtOriginal' BY <1>4, <1>5, <1>11 DEF AtOriginal
  <2>7. CommitAt' BY <2>1, <2>6, <1>4, <1>5 DEF CommitAt
  <2>8. DropAt' /\ LibraryAt' BY <2>1, OthersAt
  <2> QED BY <1>7, <1>8, <2>3, <2>4, <2>5, <2>7, <2>8 DEF IInv, Shapes
<1> QED BY <1>10, <1>11 DEF Advance

(* A part is restored to what it was.                                      *)
LEMMA RestoreComponentKept == ASSUME IInv, RestoreComponent PROVE IInv'
<1>0. Values /\ Journals /\ Tasks /\ CommitAt /\ DropAt /\ Ledgered /\ LibraryAt
      /\ (OnlyCrashed => Settling)
  BY DEF IInv, Shapes
<1>1. task.kind = "config" /\ task.step = "restore" BY DEF RestoreComponent, InCommit
<1>2. ConfigTask(task) /\ Runs("config") BY <1>0, <1>1, TaskKinds
<1>3. UNCHANGED <<ask, registry, manual, smart, listRev, journals, ledger,
                  prepared, evicted, crashes>>
  BY DEF RestoreComponent
<1>4. /\ commit # None /\ AtOriginal
      /\ task.left \subseteq DOMAIN commit.parts
      /\ \A b \in DOMAIN commit.parts \ task.left : Part(b) = commit.parts[b].old
  BY <1>0, <1>1 DEF CommitAt
<1>5. commit' = commit /\ revs' = revs /\ saved' = saved /\ imported' = imported
      /\ ask' = ask /\ drop' = drop /\ library' = library
  BY <1>3 DEF journals, registry
<1>6. IsCommit(commit) BY <1>0, <1>4 DEF Journals
<1>7. PICK c \in task.left :
       \/ /\ Landed
          /\ config' = [config EXCEPT ![commit.device][c] = commit.parts[c].old]
          /\ task' = [task EXCEPT !.left = @ \ {c}]
          /\ UNCHANGED <<daemon, reply>>
       \/ Failed /\ EndCommit("failed") /\ UNCHANGED config
  BY DEF RestoreComponent
<1>8. CASE Failed /\ EndCommit("failed") /\ UNCHANGED config
  BY <1>8, <1>3, <1>1, CommitFails DEF files
<1>9. CASE /\ Landed
          /\ config' = [config EXCEPT ![commit.device][c] = commit.parts[c].old]
          /\ task' = [task EXCEPT !.left = @ \ {c}]
          /\ UNCHANGED <<daemon, reply>>
  <2>1. /\ task'.kind = "config" /\ task'.step = "restore" /\ task'.who = task.who
        /\ task'.device = task.device /\ task'.edit = task.edit
        /\ task'.left = task.left \ {c} /\ task'.done = task.done
        /\ DOMAIN task' = DOMAIN task
    BY <1>9, <1>1, <1>2 DEF ConfigTask
  <2>2. Tasks' BY <1>0, <1>1, <1>2, <1>9, <2>1, CommitGoesOn DEF ConfigTask
  <2>3. /\ config \in [Devices -> [Components -> Contents]]
        /\ commit.device \in Devices /\ c \in Components /\ commit.parts[c].old \in Contents
    BY <1>0, <1>4, <1>6, <1>7 DEF Values, IsCommit
  <2>4. /\ config' \in [Devices -> [Components -> Contents]]
        /\ config'[commit.device][c] = commit.parts[c].old
        /\ \A b \in Components : b # c => config'[commit.device][b] = config[commit.device][b]
    BY <2>3, <1>9, Replaced
  <2>5. Values' BY <1>0, <1>3, <1>9, <2>4 DEF Values, Landed, registry, journals
  <2>6. Journals' BY <1>0, <1>5, JournalFrame
  <2>7. AtOriginal' BY <1>4, <1>5 DEF AtOriginal
  <2>8. \A b \in DOMAIN commit.parts : b # c => Part(b)' = Part(b)
    BY <2>4, <1>5, <1>6 DEF Part, IsCommit
  <2>9. Part(c)' = commit.parts[c].old BY <2>4, <1>5 DEF Part
  <2>10. \A b \in DOMAIN commit'.parts \ task'.left : Part(b)' = commit'.parts[b].old
    BY <2>8, <2>9, <2>1, <1>4, <1>5
  <2>11. CommitAt' BY <2>1, <2>7, <2>10, <1>4, <1>5 DEF CommitAt
  <2>12. DropAt' /\ LibraryAt' BY <2>1, OthersAt
  <2>13. Ledgered' BY <1>0, <1>3, LedgerFrame DEF Acks, journals
  <2>14. ASSUME OnlyCrashed' PROVE Settling'
    <3>1. OnlyCrashed BY <1>5, <1>9, <2>14 DEF OnlyCrashed, Landed
    <3>2. Settling BY <1>0, <3>1
    <3>3. Mirrored' BY <3>2, <1>1, <1>5 DEF Settling, Mirrored
    <3>4. AtOriginal => ~ Complete BY DEF Complete
    <3>5. Undoable BY <3>2, <3>4, <1>4 DEF Settling, CommitSettles
    <3>6. \A b \in DOMAIN commit.parts : Part(b) = commit.parts[b].old \/ Part(b) = commit.parts[b].new
      BY <3>5, LiveEnds DEF Undoable
    <3>7. \A b \in DOMAIN commit'.parts :
            Part(b)' = commit'.parts[b].old \/ Part(b)' = commit'.parts[b].new
      BY <3>6, <2>8, <2>9, <1>5
    <3>8. Undoable' BY <3>7, <2>7, LiveEndsNext DEF Undoable
    <3>9. CommitSettles' BY <3>2, <3>8, <2>1, <1>1, <1>4, <1>5 DEF CommitSettles, Settling
    <3> QED BY <3>2, <3>3, <3>9, <1>1, <1>4, <1>5, <1>9, <2>1, CommitSettling
  <2> QED BY <2>2, <2>5, <2>6, <2>11, <2>12, <2>13, <2>14 DEF IInv, Shapes
<1> QED BY <1>7, <1>8, <1>9

(* The journal of a commit goes.                                           *)
LEMMA RemoveCommitKept == ASSUME IInv, RemoveCommit PROVE IInv'
<1>0. Values /\ Journals /\ Tasks /\ CommitAt /\ DropAt /\ Ledgered /\ LibraryAt
      /\ (OnlyCrashed => Settling)
  BY DEF IInv, Shapes
<1>1. task.kind = "config" /\ task.step # "journal" BY DEF RemoveCommit, InCommit
<1>2. UNCHANGED <<ask, registry, files, drop, staged, library, ledger,
                 prepared, evicted, crashes>>
  BY DEF RemoveCommit
<1>3. CASE Failed /\ EndCommit("failed") /\ UNCHANGED commit
  BY <1>1, <1>2, <1>3, CommitFails DEF journals
<1>4. CASE Landed /\ commit' = None /\ \E how \in {"done", "failed"} : EndCommit(how)
  <2>1. task' = NoTask /\ daemon' \in (Booting \union {"up", "down"})
        /\ reply' \in [Requests -> {"none", "done", "failed"}]
    BY <1>0, <1>1, <1>4, CommitEnded
  <2>2. CommitAt' /\ DropAt' /\ LibraryAt' /\ Tasks' /\ task'.kind = "idle" BY <2>1, IdleAt
  <2>3. Values' BY <1>0, <1>2, <1>4, <2>1 DEF Values, Landed, registry, files
  <2>4. Journals' BY <1>0, <1>2, <1>4 DEF Journals, IsDrop, IsLibrary
  <2>5. Ledgered' BY <1>0, <1>2, LedgerFrame DEF Acks
  <2>6. ASSUME OnlyCrashed' PROVE Settling'
    <3>1. Settling BY <1>0, <1>2, <1>4, <2>6 DEF OnlyCrashed, Landed, registry
    <3>2. drop' = None /\ library' = None BY <3>1, <1>1, <1>2 DEF Settling, OneJournal
    <3>3. Mirrored' BY <3>1, <1>1, <1>2 DEF Settling, Mirrored, registry
    <3>4. daemon' # "refused" BY <2>1 DEF Booting
    <3> QED BY <3>2, <3>3, <3>4, <2>2, <1>4, NothingPending
  <2> QED BY <2>2, <2>3, <2>4, <2>5, <2>6 DEF IInv, Shapes
<1>5. \/ Failed /\ EndCommit("failed") /\ UNCHANGED commit
      \/ Landed /\ commit' = None /\ \E how \in {"done", "failed"} : EndCommit(how)
  BY DEF RemoveCommit
<1> QED BY <1>3, <1>4, <1>5

(* A commit keeps the invariant at every step.                             *)
LEMMA CommitStepKept == ASSUME IInv, CommitStep PROVE IInv'
BY JournalCommitKept, PublishComponentKept, NarrowKept, AdvanceKept, RestoreComponentKept,
   RemoveCommitKept DEF CommitStep

-----------------------------------------------------------------------------
(* A deletion.                                                               *)

(* A journal of a deletion is what its fields are.                         *)
LEMMA DropShape ==
  ASSUME NEW j, DOMAIN j = {"req", "slug", "phase", "list", "subs"}, j.req \in Requests,
         j.slug \in Slugs, j.phase \in {"prepared", "publishing"}, j.list = Smart \/ Listed(j.list),
         DOMAIN j.subs \subseteq Devices,
         j.subs \in [DOMAIN j.subs -> [old : Contents, new : Contents, rev : Nat]]
  PROVE  IsDrop(j)
BY DEF IsDrop

(* How the task of a deletion ends.                                        *)
LEMMA DeleteEnded ==
  ASSUME Values, Tasks, task.kind = "delete", NEW how \in {"done", "failed", "refused"},
         how = "refused" => task.who = "boot", EndDelete(how)
  PROVE  /\ task' = NoTask
         /\ daemon' \in Booting \union {"up", "down", "refused"}
         /\ daemon' = "refused" => how = "refused"
         /\ how = "failed" => daemon' \in {"up", "down"}
         /\ reply' \in [Requests -> {"none", "done", "failed"}]
<1>1. DeleteTask(task) /\ Runs("playlists") BY TaskKinds
<1>2. CASE task.who = "client"
  <2>1. Answer(task.req, how) /\ UNCHANGED daemon BY <1>2 DEF EndDelete
  <2>2. daemon = "up" BY <1>1, <1>2 DEF Runs
  <2> QED BY <2>1, <2>2, <1>2 DEF Answer, Values
<1>3. CASE task.who = "boot"
  <2>1. /\ task' = NoTask
        /\ daemon' = CASE how = "done" -> daemon
                       [] how = "failed" -> "down"
                       [] how = "refused" -> "refused"
        /\ UNCHANGED reply
    BY <1>3, Zenon DEF EndDelete
  <2>2. daemon = "playlists" BY <1>1, <1>3 DEF Runs
  <2>3. how = "done" => daemon' = daemon
    <3> SUFFICES ASSUME how = "done" PROVE daemon' = daemon OBVIOUS
    <3>1. how # "failed" /\ how # "refused" OBVIOUS
    <3> QED BY <2>1, <3>1, Zenon
  <2>4. how = "failed" => daemon' = "down"
    <3> SUFFICES ASSUME how = "failed" PROVE daemon' = "down" OBVIOUS
    <3>1. how # "done" /\ how # "refused" OBVIOUS
    <3> QED BY <2>1, <3>1, Zenon
  <2>5. how = "refused" => daemon' = "refused"
    <3> SUFFICES ASSUME how = "refused" PROVE daemon' = "refused" OBVIOUS
    <3>1. how # "done" /\ how # "failed" OBVIOUS
    <3> QED BY <2>1, <3>1, Zenon
  <2>6. task' = NoTask /\ reply' = reply BY <2>1
  <2> QED BY <2>2, <2>3, <2>4, <2>5, <2>6 DEF Values, Booting
<1> QED BY <1>1, <1>2, <1>3 DEF DeleteTask

(* A deletion that stops leaves its journal: a write failed, or there is   *)
(* nothing to settle without one.                                          *)
LEMMA DeleteStops ==
  ASSUME IInv, task.kind = "delete", NEW how \in {"failed", "refused"},
         how = "refused" => task.who = "boot", EndDelete(how),
         Failed \/ (Landed /\ ~ OnlyCrashed),
         UNCHANGED <<ask, registry, files, journals, ledger, prepared, evicted, crashes>>
  PROVE  IInv'
<1> USE DEF IInv, Shapes
<1>1. /\ task' = NoTask
      /\ daemon' \in Booting \union {"up", "down", "refused"}
      /\ reply' \in [Requests -> {"none", "done", "failed"}]
  BY DeleteEnded
<1>2. ~ OnlyCrashed' /\ faults' \in Nat /\ faults' <= MaxFaults(ask)'
  BY Faulted DEF Landed, OnlyCrashed, registry, Values
<1>3. Values' BY <1>1, <1>2 DEF Values, registry, files, journals
<1>4. Journals' BY JournalFrame DEF journals
<1>5. CommitAt' /\ DropAt' /\ LibraryAt' /\ Tasks' BY <1>1, IdleAt
<1>6. Ledgered' BY LedgerFrame DEF Acks, journals
<1> QED BY <1>2, <1>3, <1>4, <1>5, <1>6

(* A deletion that goes on is still one.                                   *)
LEMMA DeleteGoesOn ==
  ASSUME Tasks, task.kind = "delete", UNCHANGED <<ask, daemon>>, DOMAIN task' = DOMAIN task,
         task'.kind = task.kind, task'.who = task.who, task'.req = task.req,
         task'.left \subseteq Devices,
         task'.step \in {"prepare", "publish", "subscriptions", "revisions", "restore", "undone"},
         task'.step \in {"prepare", "publish"} => task.step \in {"stage", "prepare"}
  PROVE  Tasks'
<1>1. DeleteTask(task) /\ Runs("playlists") BY TaskKinds
<1>2. DeleteTask(task)' BY <1>1 DEF DeleteTask
<1>3. Runs("playlists")' BY <1>1 DEF Runs
<1> QED BY <1>2, <1>3 DEF Tasks

(* While a deletion settles nothing else is pending.                       *)
LEMMA DeleteSettling ==
  ASSUME Settling, Tasks, task.kind = "delete", UNCHANGED <<ask, daemon, commit, library>>,
         task'.kind = "delete", task'.step \in {"stage", "prepare"} => drop' = None,
         Mirrored', DropSettles'
  PROVE  Settling'
<1>1. commit = None /\ library = None BY DEF Settling, OneJournal
<1>2. OneJournal' BY <1>1 DEF OneJournal
<1>3. CommitSettles' BY <1>1 DEF CommitSettles
<1>4. daemon # "refused"
  <2>1. DeleteTask(task) /\ Runs("playlists") BY TaskKinds
  <2> QED BY <2>1 DEF DeleteTask, Runs
<1>5. Refusal' BY <1>4 DEF Refusal
<1> QED BY <1>2, <1>3, <1>5 DEF Settling

(* The subscription files are staged.                                      *)
LEMMA StageKept == ASSUME IInv, Stage PROVE IInv'
<1>0. Values /\ Journals /\ Tasks /\ CommitAt /\ DropAt /\ Ledgered /\ LibraryAt
      /\ (OnlyCrashed => Settling)
  BY DEF IInv, Shapes
<1>1. task.kind = "delete" /\ task.step = "stage" BY DEF Stage, InDelete
<1>2. DeleteTask(task) /\ Runs("playlists") BY <1>0, <1>1, TaskKinds
<1>3. UNCHANGED <<ask, daemon, registry, files, commit, drop, library, ledger,
                 prepared, evicted, crashes>>
  BY DEF Stage
<1> DEFINE s == ask[task.req].slug
<1> DEFINE pairs == {<<d, w>> : d \in Subscribed(s), w \in {"old", "new"}}
<1> DEFINE whole == IF pairs = {} THEN {} ELSE pairs \union {Dir}
<1>4. \/ Landed /\ staged' = [staged EXCEPT ![task.req] = whole] /\ To("prepare") /\ UNCHANGED reply
      \/ Failed /\ staged' = [staged EXCEPT ![task.req] = {Dir}] /\ Answer(task.req, "failed")
  BY DEF Stage
<1>5. Journals' BY <1>0, <1>3, JournalFrame
<1>6. Ledgered' BY <1>0, <1>3, LedgerFrame DEF Acks
<1>7. CASE Landed /\ staged' = [staged EXCEPT ![task.req] = whole] /\ To("prepare") /\ UNCHANGED reply
  <2>1. /\ task'.kind = "delete" /\ task'.step = "prepare" /\ task'.who = task.who
        /\ task'.req = task.req /\ task'.left = task.left /\ DOMAIN task' = DOMAIN task
    BY <1>7, <1>1, <1>2 DEF DeleteTask, To
  <2>2. Tasks' BY <1>0, <1>1, <1>2, <1>3, <2>1, DeleteGoesOn DEF DeleteTask
  <2>3. task.req \in Requests /\ DOMAIN staged = Requests BY <1>0, <1>2 DEF DeleteTask, Values
  <2>4. DOMAIN staged' = Requests /\ staged'[task.req] = whole
    <3> HIDE DEF whole
    <3> QED BY <1>7, <2>3
  <2>5. Values'
    <3> HIDE DEF whole
    <3> QED BY <1>0, <1>3, <1>7, <2>4 DEF Values, Landed, registry, files
  <2>6. CommitAt' /\ LibraryAt' BY <2>1, OthersAt
  <2>7. DropAt' BY <2>1, <1>0, <1>1 DEF DropAt
  <2>8. ASSUME OnlyCrashed' PROVE Settling'
    <3>1. Settling BY <1>0, <1>3, <1>7, <2>8 DEF OnlyCrashed, Landed, registry
    <3>2. drop' = None BY <3>1, <1>1, <1>3 DEF Settling, OneJournal
    <3>3. Mirrored' BY <3>1, <1>1, <1>3 DEF Settling, Mirrored, registry
    <3>4. config' = config /\ ask'[task'.req].slug = s /\ task'.req = task.req
      BY <1>3, <2>1 DEF files
    <3>5. \A d \in Subscribed(s) : <<d, "new">> \in pairs OBVIOUS
    <3> HIDE DEF pairs
    <3>6. Subscribed(s) # {} => pairs # {} BY <3>5
    <3>7. Subscribed(s) # {} => Dir \in whole /\ \A d \in Subscribed(s) : <<d, "new">> \in whole
      BY <3>5, <3>6
    <3> HIDE DEF whole, s
    <3>8. Ready(ask[task.req].slug, task.req)' BY <3>4, <3>7, <2>4 DEF Ready, Subscribed
    <3>9. DropSettles' BY <3>2, <3>8, <2>1, <1>3 DEF DropSettles
    <3> QED BY <1>0, <1>1, <1>3, <3>1, <3>2, <3>3, <3>9, <2>1, DeleteSettling
  <2> QED BY <1>5, <1>6, <2>2, <2>5, <2>6, <2>7, <2>8 DEF IInv, Shapes
<1>8. CASE Failed /\ staged' = [staged EXCEPT ![task.req] = {Dir}] /\ Answer(task.req, "failed")
  <2>1. task' = NoTask /\ reply' = [reply EXCEPT ![task.req] = "failed"] BY <1>8 DEF Answer
  <2>2. CommitAt' /\ DropAt' /\ LibraryAt' /\ Tasks' BY <2>1, IdleAt
  <2>3. ~ OnlyCrashed' /\ faults' \in Nat /\ faults' <= MaxFaults(ask)' BY <1>0, <1>3, <1>8, Faulted
  <2>4. reply' \in [Requests -> {"none", "done", "failed"}] BY <1>0, <2>1 DEF Values
  <2>5. Values' BY <1>0, <1>3, <1>8, <2>3, <2>4 DEF Values, registry, files
  <2> QED BY <1>5, <1>6, <2>2, <2>3, <2>5 DEF IInv, Shapes
<1> QED BY <1>4, <1>7, <1>8

(* An answer of failure ends a client's deletion.                          *)
LEMMA AnswerEnds ==
  ASSUME Tasks, task.kind = "delete", task.step \in {"stage", "prepare", "publish"},
         Answer(task.req, "failed"), UNCHANGED daemon
  PROVE  EndDelete("failed")
<1>1. DeleteTask(task) BY TaskKinds
<1> QED BY <1>1 DEF DeleteTask, EndDelete

(* The deletion is journalled.                                             *)
LEMMA PrepareKept == ASSUME IInv, Prepare PROVE IInv'
<1>0. Values /\ Journals /\ Tasks /\ CommitAt /\ DropAt /\ Ledgered /\ LibraryAt
      /\ (OnlyCrashed => Settling)
  BY DEF IInv, Shapes
<1>1. task.kind = "delete" /\ task.step = "prepare" BY DEF Prepare, InDelete
<1>2. DeleteTask(task) /\ Runs("playlists") BY <1>0, <1>1, TaskKinds
<1>3. UNCHANGED <<ask, daemon, registry, files, commit, staged, library,
                 ledger, prepared, evicted, crashes>>
  BY DEF Prepare
<1> DEFINE s == ask[task.req].slug
<1>4. \/ /\ Landed
         /\ drop' = [req |-> task.req, slug |-> s, phase |-> "prepared",
                     list |-> Loaded(s),
                     subs |-> [d \in Subscribed(s) |->
                                [old |-> config[d].subscriptions,
                                 new |-> config[d].subscriptions \ {s},
                                 rev |-> revs[d].subscriptions]]]
         /\ To("publish")
         /\ UNCHANGED reply
      \/ Failed /\ Answer(task.req, "failed") /\ UNCHANGED drop
  BY DEF Prepare
<1>5. CASE Failed /\ Answer(task.req, "failed") /\ UNCHANGED drop
  BY <1>0, <1>1, <1>3, <1>5, AnswerEnds, DeleteStops DEF journals
<1>6. CASE /\ Landed
           /\ drop' = [req |-> task.req, slug |-> s, phase |-> "prepared",
                       list |-> Loaded(s),
                       subs |-> [d \in Subscribed(s) |->
                                [old |-> config[d].subscriptions,
                                 new |-> config[d].subscriptions \ {s},
                                 rev |-> revs[d].subscriptions]]]
           /\ To("publish")
           /\ UNCHANGED reply
  <2>1. /\ task'.kind = "delete" /\ task'.step = "publish" /\ task'.who = task.who
        /\ task'.req = task.req /\ task'.left = task.left /\ DOMAIN task' = DOMAIN task
    BY <1>6, <1>1, <1>2 DEF DeleteTask, To
  <2>2. Tasks' BY <1>0, <1>1, <1>2, <1>3, <2>1, DeleteGoesOn DEF DeleteTask
  <2>3. Values' BY <1>0, <1>3, <1>6 DEF Values, Landed, registry, files
  <2>4. s \in Slugs
    <3>1. Wellformed(ask[task.req]) /\ ask[task.req].kind = "delete"
      BY <1>0, <1>1, <1>2, Asked DEF DeleteTask
    <3> QED BY <3>1 DEF Wellformed
  <2> HIDE DEF s
  <2>5. /\ drop'.req = task.req /\ drop'.slug = s /\ drop'.phase = "prepared" /\ drop'.list = Loaded(s)
        /\ DOMAIN drop'.subs = Subscribed(s)
    BY <1>6
  <2>6. \A d \in Subscribed(s) :
          drop'.subs[d] = [old |-> config[d].subscriptions, new |-> config[d].subscriptions \ {s},
                           rev |-> revs[d].subscriptions]
    BY <1>6
  <2>7. Subscribed(s) \subseteq Devices BY DEF Subscribed
  <2>8. \A d \in Devices : config[d].subscriptions \in Contents /\ revs[d].subscriptions \in Nat
    BY <1>0 DEF Values, Registries, Components
  <2>9. IsDrop(drop')
    <3>1. drop'.subs \in [Subscribed(s) -> [old : Contents, new : Contents, rev : Nat]]
      <4>1. \A d \in Subscribed(s) : config[d].subscriptions \ {s} \in Contents
        BY <2>7, <2>8 DEF Contents
      <4> QED BY <1>6, <2>7, <2>8, <4>1
    <3>2. Loaded(s) = Smart \/ Listed(Loaded(s)) BY <1>0, <2>4 DEF Loaded, Values, Listed
    <3>3. task.req \in Requests BY <1>2 DEF DeleteTask
    <3>4. DOMAIN drop' = {"req", "slug", "phase", "list", "subs"} BY <1>6
    <3>5. DOMAIN drop'.subs \subseteq Devices
          /\ drop'.subs \in [DOMAIN drop'.subs -> [old : Contents, new : Contents, rev : Nat]]
      BY <2>5, <2>7, <3>1
    <3> QED BY <2>4, <2>5, <3>2, <3>3, <3>4, <3>5, DropShape
  <2>10. drop' # None BY <2>9, JournalsDiffer
  <2>11. Journals' BY <2>9, <1>0, <1>3 DEF Journals, IsCommit, IsLibrary, IsDrop
  <2>12. Ledgered' BY <1>0, <1>3, LedgerFrame DEF Acks
  <2>13. CommitAt' /\ LibraryAt' BY <2>1, OthersAt
  <2>14. DropAt'
    <3>1. task'.left = {} BY <1>0, <1>1, <2>1 DEF DropAt
    <3> QED BY <2>1, <2>10, <3>1 DEF DropAt
  <2>15. ASSUME OnlyCrashed' PROVE Settling'
    <3>1. Settling BY <1>0, <1>3, <1>6, <2>15 DEF OnlyCrashed, Landed, registry
    <3>3. Mirrored' BY <3>1, <1>1, <1>3 DEF Settling, Mirrored, registry
    <3>4. Ready(s, task.req) BY <3>1, <1>1 DEF Settling, DropSettles, s
    <3>5. Subs' = Subscribed(s) BY <2>5 DEF Subs
    <3>6. \A d \in Subs' : Original(d)'
      <4>1. config' = config /\ revs' = revs BY <1>3 DEF files, registry
      <4>2. ASSUME NEW d \in Subscribed(s)
            PROVE drop'.subs[d].old = config[d].subscriptions
                  /\ drop'.subs[d].rev = revs[d].subscriptions
        <5>1. drop'.subs[d] = [old |-> config[d].subscriptions, new |-> config[d].subscriptions \ {s},
                               rev |-> revs[d].subscriptions]
          BY <2>6
        <5> QED BY <5>1
      <4> QED BY <3>5, <4>1, <4>2 DEF Original
    <3>7. Live(drop.slug)' = drop'.list
      <4>1. manual' = manual /\ smart' = smart BY <1>3 DEF files
      <4>2. manual[s] # Smart /\ NoList # Smart
        BY <1>0, <2>4, HostAssumption DEF Values, Listed
      <4> QED BY <2>5, <4>1, <4>2 DEF Live, Loaded
    <3>8. Mine' = staged[task.req] BY <1>3, <2>5 DEF Mine
    <3>9. DropSettles' BY <3>4, <3>5, <3>6, <3>7, <3>8, <2>1, <2>5 DEF DropSettles, Untouched, Ready
    <3> QED BY <1>0, <1>1, <1>3, <3>1, <3>3, <3>9, <2>1, DeleteSettling
  <2> QED BY <2>2, <2>3, <2>11, <2>12, <2>13, <2>14, <2>15 DEF IInv, Shapes
<1> QED BY <1>4, <1>5, <1>6

(* What moves in or out of the staging directory.                          *)
LEMMA MineNext ==
  ASSUME Values, IsDrop(drop), NEW S, staged' = [staged EXCEPT ![drop.req] = S],
         drop'.req = drop.req
  PROVE  Mine' = S /\ DOMAIN staged' = Requests
<1>1. drop.req \in DOMAIN staged BY DEF Values, IsDrop
<1>2. staged'[drop.req] = S BY <1>1
<1>3. DOMAIN staged' = Requests BY DEF Values
<1> QED BY <1>2, <1>3 DEF Mine

(* A task of a deletion past its journal.                                  *)
LEMMA DropTask ==
  ASSUME Values, Journals, Tasks, DropAt, task.kind = "delete",
         task.step \notin {"stage", "prepare"}
  PROVE  /\ DeleteTask(task) /\ Runs("playlists")
         /\ drop # None /\ IsDrop(drop)
         /\ drop.req \in Requests /\ drop.slug \in Slugs
         /\ Subs \subseteq Devices /\ task.left \subseteq Subs
         /\ \A d \in Subs : drop.subs[d] \in [old : Contents, new : Contents, rev : Nat]
<1>1. DeleteTask(task) /\ Runs("playlists") BY TaskKinds
<1>2. drop # None /\ task.left \subseteq Subs BY DEF DropAt
<1>3. IsDrop(drop) BY <1>2 DEF Journals
<1> QED BY <1>1, <1>2, <1>3 DEF IsDrop, Subs

(* A publication that stops: a command goes back, recovery ends.           *)
LEMMA PublishStops ==
  ASSUME IInv, task.kind = "delete", task.step \in {"subscriptions", "revisions"},
         NEW how \in {"failed", "refused"}, PublishFails(how),
         Failed \/ (Landed /\ how = "refused" /\ (OnlyCrashed => Subs = {})),
         UNCHANGED <<ask, registry, files, journals, ledger, prepared, evicted, crashes>>
  PROVE  IInv'
<1>0. Values /\ Journals /\ Tasks /\ CommitAt /\ DropAt /\ Ledgered /\ LibraryAt
      /\ (OnlyCrashed => Settling)
  BY DEF IInv, Shapes
<1>1. /\ DeleteTask(task) /\ Runs("playlists")
      /\ drop # None /\ IsDrop(drop)
      /\ Subs \subseteq Devices /\ task.left \subseteq Subs
  BY <1>0, DropTask
<1>2. UNCHANGED <<ask, revs, saved, imported, config, manual, smart, commit, drop, staged, library>>
  BY DEF registry, files, journals
<1>3. faults' \in Nat /\ faults' <= MaxFaults(ask)'
  BY <1>0, Faulted DEF Landed, Values
<1>4. Journals' BY <1>0, <1>2, JournalFrame
<1>5. Ledgered' BY <1>0, <1>2, LedgerFrame DEF Acks
<1>6. OnlyCrashed' => Landed /\ how = "refused" /\ OnlyCrashed /\ Subs = {} /\ Settling
  BY <1>0, <1>2, Faulted DEF Landed, OnlyCrashed
<1>7. CASE task.who = "client"
  <2>1. task' = [task EXCEPT !.step = "restore", !.left = Subs] /\ UNCHANGED <<daemon, reply>>
    BY <1>7 DEF PublishFails, Subs
  <2>2. /\ task'.kind = "delete" /\ task'.step = "restore" /\ task'.who = task.who
        /\ task'.req = task.req /\ task'.left = Subs /\ DOMAIN task' = DOMAIN task
    BY <2>1, <1>1 DEF DeleteTask
  <2>3. Tasks' BY <1>0, <1>1, <1>2, <2>1, <2>2, DeleteGoesOn DEF DeleteTask
  <2>4. Values' BY <1>0, <1>3, <2>1 DEF Values, registry, files, journals
  <2>5. CommitAt' /\ LibraryAt' BY <2>2, OthersAt
  <2>6. Subs' = Subs BY <1>2 DEF Subs
  <2>7. DropAt' BY <2>2, <2>6, <1>1, <1>2 DEF DropAt
  <2>8. ASSUME OnlyCrashed' PROVE Settling'
    <3>1. Settling /\ Subs = {} BY <1>6, <2>8
    <3>2. Mirrored' BY <3>1, <1>2, <2>2, <1>1 DEF Settling, Mirrored, DeleteTask
    <3>3. DropSettles'
      <4>1. /\ drop.phase = "prepared" => Untouched
            /\ drop.phase = "publishing" => Completable
        BY <3>1, <1>1 DEF Settling, DropSettles
      <4>2. Untouched' <=> Untouched BY <1>2 DEF Untouched, Live, Subs, Original
      <4>3. Completable' <=> Completable BY <1>2 DEF Completable, Live, Subs, Scrubbed, Mine
      <4> QED BY <4>1, <4>2, <4>3, <1>2, <2>2, <2>6, <3>1 DEF DropSettles
    <3> QED BY <1>0, <1>2, <2>1, <2>2, <3>1, <3>2, <3>3, DeleteSettling
  <2> QED BY <1>4, <1>5, <2>3, <2>4, <2>5, <2>7, <2>8 DEF IInv, Shapes
<1>8. CASE task.who = "boot"
  <2>1. EndDelete(how) BY <1>8 DEF PublishFails
  <2>2. /\ task' = NoTask
        /\ daemon' \in Booting \union {"up", "down", "refused"}
        /\ reply' \in [Requests -> {"none", "done", "failed"}]
    BY <1>0, <1>8, <2>1, DeleteEnded
  <2>3. Values' BY <1>0, <1>3, <2>2 DEF Values, registry, files, journals
  <2>4. CommitAt' /\ DropAt' /\ LibraryAt' /\ Tasks' /\ task'.kind = "idle" BY <2>2, IdleAt
  <2>5. ASSUME OnlyCrashed' PROVE Settling'
    <3>1. Settling /\ Subs = {} /\ how = "refused" BY <1>6, <2>5
    <3>2. daemon' = "refused"
      <4>1. daemon' = CASE how = "done" -> daemon
                        [] how = "failed" -> "down"
                        [] how = "refused" -> "refused"
        BY <2>1, <1>8, Zenon DEF EndDelete
      <4>2. how # "done" /\ how # "failed" BY <3>1
      <4> QED BY <4>1, <4>2, <3>1, Zenon
    <3>3. commit' = None /\ library' = None BY <3>1, <1>2 DEF Settling, OneJournal
    <3>4. OneJournal' BY <3>2, <3>3, <2>4 DEF OneJournal
    <3>5. Mirrored' BY <3>1, <1>2, <1>1 DEF Settling, Mirrored, DeleteTask
    <3>6. CommitSettles' BY <3>3, <2>4 DEF CommitSettles
    <3>7. DropSettles'
      <4>1. /\ drop.phase = "prepared" => Untouched
            /\ drop.phase = "publishing" => Completable
        BY <3>1, <1>1 DEF Settling, DropSettles
      <4>2. Untouched' <=> Untouched BY <1>2 DEF Untouched, Live, Subs, Original
      <4>3. Completable' <=> Completable BY <1>2 DEF Completable, Live, Subs, Scrubbed, Mine
      <4> QED BY <4>1, <4>2, <4>3, <1>2, <2>4 DEF DropSettles
    <3>8. Refusal' BY <3>1, <1>1, <1>2 DEF Refusal, Subs
    <3> QED BY <3>4, <3>5, <3>6, <3>7, <3>8 DEF Settling
  <2> QED BY <1>4, <1>5, <2>3, <2>4, <2>5 DEF IInv, Shapes
<1> QED BY <1>1, <1>7, <1>8 DEF DeleteTask

(* The deletion may from now on only be completed.                         *)
LEMMA PublishKept == ASSUME IInv, Publish PROVE IInv'
<1>0. Values /\ Journals /\ Tasks /\ CommitAt /\ DropAt /\ Ledgered /\ LibraryAt
      /\ (OnlyCrashed => Settling)
  BY DEF IInv, Shapes
<1>1. task.kind = "delete" /\ task.step = "publish" BY DEF Publish, InDelete
<1>2. /\ DeleteTask(task) /\ Runs("playlists")
      /\ drop # None /\ IsDrop(drop)
      /\ Subs \subseteq Devices /\ task.left \subseteq Subs
  BY <1>0, <1>1, DropTask
<1>3. UNCHANGED <<ask, daemon, registry, files, commit, staged, library,
                 ledger, prepared, evicted, crashes>>
  BY DEF Publish
<1>4. \/ /\ Landed
         /\ drop' = [drop EXCEPT !.phase = "publishing"]
         /\ task' = [task EXCEPT !.step = "subscriptions", !.left = Subs]
         /\ UNCHANGED reply
      \/ Failed /\ Answer(task.req, "failed") /\ UNCHANGED drop
  BY DEF Publish, Subs
<1>5. CASE Failed /\ Answer(task.req, "failed") /\ UNCHANGED drop
  BY <1>0, <1>1, <1>3, <1>5, AnswerEnds, DeleteStops DEF journals
<1>6. CASE /\ Landed
           /\ drop' = [drop EXCEPT !.phase = "publishing"]
           /\ task' = [task EXCEPT !.step = "subscriptions", !.left = Subs]
           /\ UNCHANGED reply
  <2>1. /\ task'.kind = "delete" /\ task'.step = "subscriptions" /\ task'.who = task.who
        /\ task'.req = task.req /\ task'.left = Subs /\ DOMAIN task' = DOMAIN task
    BY <1>6, <1>2 DEF DeleteTask
  <2>2. Tasks' BY <1>0, <1>1, <1>2, <1>3, <2>1, DeleteGoesOn DEF DeleteTask
  <2>3. Values' BY <1>0, <1>3, <1>6 DEF Values, Landed, registry, files
  <2>4. /\ drop'.req = drop.req /\ drop'.slug = drop.slug /\ drop'.list = drop.list
        /\ drop'.subs = drop.subs /\ drop'.phase = "publishing" /\ DOMAIN drop' = DOMAIN drop
    BY <1>2, <1>6 DEF IsDrop
  <2>5. IsDrop(drop') BY <1>2, <2>4 DEF IsDrop
  <2>6. drop' # None BY <2>5, JournalsDiffer
  <2>7. Journals' BY <2>5, <1>0, <1>3 DEF Journals, IsCommit, IsLibrary, IsDrop
  <2>8. Ledgered' BY <1>0, <1>3, LedgerFrame DEF Acks
  <2>9. CommitAt' /\ LibraryAt' BY <2>1, OthersAt
  <2>10. Subs' = Subs BY <2>4 DEF Subs
  <2>11. DropAt' BY <2>1, <2>6, <2>10 DEF DropAt
  <2>12. ASSUME OnlyCrashed' PROVE Settling'
    <3>1. Settling BY <1>0, <1>3, <1>6, <2>12 DEF OnlyCrashed, Landed, registry
    <3>2. Mirrored' BY <3>1, <1>1, <1>3 DEF Settling, Mirrored, registry
    <3>3. /\ drop.phase = "prepared"
          /\ Subs # {} => Dir \in Mine /\ \A d \in Subs : <<d, "new">> \in Mine
      BY <3>1, <1>1 DEF Settling, DropSettles
    <3>4. Untouched BY <3>1, <3>3, <1>2 DEF Settling, DropSettles
    <3>5. config' = config /\ revs' = revs /\ manual' = manual /\ smart' = smart /\ staged' = staged
      BY <1>3 DEF registry, files
    <3>6. Completable'
      <4>1. Mine' = Mine BY <3>5, <2>4 DEF Mine
      <4>2. Live(drop.slug)' = Live(drop.slug) BY <3>5, <2>4 DEF Live
      <4>3. \A d \in Subs : /\ config'[d].subscriptions = drop'.subs[d].old
                            /\ revs'[d].subscriptions = drop'.subs[d].rev
        BY <3>4, <3>5, <2>4 DEF Untouched, Original
      <4> QED BY <4>1, <4>2, <4>3, <3>3, <3>4, <2>4, <2>10 DEF Completable, Untouched
    <3>7. DropSettles' BY <3>6, <2>1, <2>4 DEF DropSettles
    <3> QED BY <1>0, <1>1, <1>3, <3>1, <3>2, <3>7, <2>1, DeleteSettling
  <2> QED BY <2>2, <2>3, <2>7, <2>8, <2>9, <2>11, <2>12 DEF IInv, Shapes
<1> QED BY <1>4, <1>5, <1>6

(* A subscription file becomes its target.                                 *)
LEMMA ScrubSubscriptionsKept == ASSUME IInv, ScrubSubscriptions PROVE IInv'
<1>0. Values /\ Journals /\ Tasks /\ CommitAt /\ DropAt /\ Ledgered /\ LibraryAt
      /\ (OnlyCrashed => Settling)
  BY DEF IInv, Shapes
<1>1. task.kind = "delete" /\ task.step = "subscriptions" BY DEF ScrubSubscriptions, InDelete
<1>2. /\ DeleteTask(task) /\ Runs("playlists")
      /\ drop # None /\ IsDrop(drop) /\ drop.req \in Requests
      /\ Subs \subseteq Devices /\ task.left \subseteq Subs
      /\ \A d \in Subs : drop.subs[d] \in [old : Contents, new : Contents, rev : Nat]
  BY <1>0, <1>1, DropTask
<1>3. UNCHANGED <<ask, registry, manual, smart, listRev, commit, drop, library,
                 ledger, prepared, evicted, crashes>>
  BY DEF ScrubSubscriptions
<1>4. ask' = ask /\ revs' = revs /\ saved' = saved /\ imported' = imported /\ manual' = manual
      /\ smart' = smart /\ commit' = commit /\ drop' = drop /\ library' = library
  BY <1>3 DEF registry
<1>5. PICK d \in task.left :
       \/ /\ config[d].subscriptions = drop.subs[d].new
          /\ task' = [task EXCEPT !.left = @ \ {d}]
          /\ Landed /\ UNCHANGED <<config, staged, daemon, reply>>
       \/ /\ config[d].subscriptions # drop.subs[d].new
          /\ config[d].subscriptions = drop.subs[d].old /\ <<d, "new">> \in Mine
          /\ \/ /\ Landed
                /\ config' = [config EXCEPT ![d].subscriptions = drop.subs[d].new]
                /\ Moved(<<d, "new">>)
                /\ task' = [task EXCEPT !.left = @ \ {d}]
                /\ UNCHANGED <<daemon, reply>>
             \/ Failed /\ PublishFails("failed") /\ UNCHANGED <<config, staged>>
       \/ /\ config[d].subscriptions # drop.subs[d].new
          /\ config[d].subscriptions # drop.subs[d].old \/ <<d, "new">> \notin Mine
          /\ Landed /\ PublishFails("refused") /\ UNCHANGED <<config, staged>>
  BY DEF ScrubSubscriptions
<1>6. d \in Subs /\ d \in Devices BY <1>2
<1>7. OnlyCrashed => drop.phase = "publishing" /\ Completable
  BY <1>0, <1>1, <1>2 DEF Settling, DropSettles
<1>8. CASE Failed /\ PublishFails("failed") /\ UNCHANGED <<config, staged>>
  BY <1>1, <1>3, <1>8, PublishStops DEF files, journals
<1>9. CASE /\ config[d].subscriptions # drop.subs[d].new
           /\ config[d].subscriptions # drop.subs[d].old \/ <<d, "new">> \notin Mine
           /\ Landed /\ PublishFails("refused") /\ UNCHANGED <<config, staged>>
  <2>1. ~ OnlyCrashed BY <1>6, <1>7, <1>9 DEF Completable, Scrubbed
  <2> QED BY <1>1, <1>3, <1>9, <2>1, PublishStops DEF files, journals
<1>10. CASE /\ task' = [task EXCEPT !.left = @ \ {d}]
            /\ Landed /\ UNCHANGED <<daemon, reply>>
            /\ \/ config[d].subscriptions = drop.subs[d].new /\ UNCHANGED <<config, staged>>
               \/ /\ config' = [config EXCEPT ![d].subscriptions = drop.subs[d].new]
                  /\ Moved(<<d, "new">>)
  <2>1. /\ task'.kind = "delete" /\ task'.step = "subscriptions" /\ task'.who = task.who
        /\ task'.req = task.req /\ task'.left = task.left \ {d} /\ DOMAIN task' = DOMAIN task
    BY <1>1, <1>10, <1>2 DEF DeleteTask
  <2>2. Tasks' BY <1>0, <1>1, <1>2, <1>4, <1>10, <2>1, DeleteGoesOn DEF DeleteTask
  <2>3. config \in [Devices -> [Components -> Contents]] BY <1>0 DEF Values
  <2>4. drop.subs[d].new \in Contents BY <1>2, <1>6
  <2>5. /\ config' \in [Devices -> [Components -> Contents]]
        /\ config'[d].subscriptions = drop.subs[d].new
        /\ \A e \in Devices : e # d => config'[e].subscriptions = config[e].subscriptions
    <3>1. CASE config[d].subscriptions = drop.subs[d].new /\ UNCHANGED <<config, staged>>
      BY <3>1, <2>3
    <3>2. CASE config' = [config EXCEPT ![d].subscriptions = drop.subs[d].new]
      BY <3>2, <2>3, <2>4, <1>6, Replaced DEF Components
    <3> QED BY <3>1, <3>2, <1>10
  <2>6. Mine \ {<<d, "new">>} \subseteq Mine' /\ DOMAIN staged' = Requests
    <3>1. CASE UNCHANGED <<config, staged>> BY <3>1, <1>0, <1>4 DEF Mine, Values
    <3>2. CASE Moved(<<d, "new">>)
      <4>1. staged' = [staged EXCEPT ![drop.req] = Mine \ {<<d, "new">>}] BY <3>2 DEF Moved, Mine
      <4>2. drop'.req = drop.req BY <1>4
      <4>3. Mine' = Mine \ {<<d, "new">>} /\ DOMAIN staged' = Requests
        BY <4>1, <4>2, <1>0, <1>2, MineNext
      <4> QED BY <4>3
    <3> QED BY <3>1, <3>2, <1>10
  <2>7. Values' BY <1>0, <1>3, <1>10, <2>5, <2>6 DEF Values, Landed, registry
  <2>8. Journals' BY <1>0, <1>4, JournalFrame
  <2>9. Ledgered' BY <1>0, <1>3, LedgerFrame DEF Acks
  <2>10. CommitAt' /\ LibraryAt' BY <2>1, OthersAt
  <2>11. Subs' = Subs BY <1>4 DEF Subs
  <2>12. \A e \in Subs : Scrubbed(e) \/ e = d => Scrubbed(e)'
    BY <2>5, <1>2, <1>4 DEF Scrubbed
  <2>13. DropAt'
    <3>1. \A e \in Subs \ task.left : Scrubbed(e) BY <1>0, <1>1 DEF DropAt
    <3> QED BY <3>1, <2>1, <2>11, <2>12, <1>2, <1>4 DEF DropAt
  <2>14. ASSUME OnlyCrashed' PROVE Settling'
    <3>1. Settling /\ OnlyCrashed BY <1>0, <1>4, <1>10, <2>14 DEF OnlyCrashed, Landed
    <3>2. Mirrored' BY <3>1, <1>1, <1>4 DEF Settling, Mirrored
    <3>3. Completable /\ drop.phase = "publishing" BY <3>1, <1>7
    <3>4. Completable'
      <4>1. \A e \in Subs : e # d => <<e, "new">> # <<d, "new">> OBVIOUS
      <4>2. Dir # <<d, "new">> /\ ListFile # <<d, "new">> BY DEF Dir, ListFile
      <4>3. \A e \in Subs : e # d => config'[e].subscriptions = config[e].subscriptions
        BY <2>5, <1>2
      <4>4. Live(drop.slug)' = Live(drop.slug) BY <1>4 DEF Live
      <4>5. \A e \in Subs : Scrubbed(e)' \/ (config'[e].subscriptions = drop.subs[e].old /\ <<e, "new">> \in Mine')
        BY <2>6, <2>12, <3>3, <4>1, <4>3 DEF Completable
      <4>6. \A e \in Subs : revs'[e].subscriptions \in {drop'.subs[e].rev, drop'.subs[e].rev + 1}
        BY <3>3, <1>4 DEF Completable
      <4>7. Subs # {} => Dir \in Mine' BY <3>3, <2>6, <4>2 DEF Completable
      <4>8. Live(drop.slug)' = drop'.list \/ (Live(drop.slug)' = NoList /\ ListFile \in Mine')
        BY <3>3, <2>6, <4>2, <4>4, <1>4 DEF Completable
      <4> QED BY <4>5, <4>6, <4>7, <4>8, <2>11, <1>4 DEF Completable
    <3>5. DropSettles' BY <3>3, <3>4, <2>1, <1>4 DEF DropSettles
    <3> QED BY <1>0, <1>1, <1>4, <1>10, <3>1, <3>2, <3>5, <2>1, DeleteSettling
  <2> QED BY <2>2, <2>7, <2>8, <2>9, <2>10, <2>13, <2>14 DEF IInv, Shapes
<1> QED BY <1>5, <1>8, <1>9, <1>10

(* The playlist goes to the staging directory.                             *)
LEMMA StagePlaylistKept == ASSUME IInv, StagePlaylist PROVE IInv'
<1>0. Values /\ Journals /\ Tasks /\ CommitAt /\ DropAt /\ Ledgered /\ LibraryAt
      /\ (OnlyCrashed => Settling)
  BY DEF IInv, Shapes
<1>1. task.kind = "delete" /\ task.step = "subscriptions" /\ task.left = {}
  BY DEF StagePlaylist, InDelete
<1>2. /\ DeleteTask(task) /\ Runs("playlists")
      /\ drop # None /\ IsDrop(drop) /\ drop.req \in Requests /\ drop.slug \in Slugs
      /\ Subs \subseteq Devices
  BY <1>0, <1>1, DropTask
<1>3. UNCHANGED <<ask, registry, config, listRev, commit, drop, library, ledger,
                 prepared, evicted, crashes>>
  BY DEF StagePlaylist
<1>4. ask' = ask /\ revs' = revs /\ saved' = saved /\ imported' = imported /\ config' = config
      /\ commit' = commit /\ drop' = drop /\ library' = library
  BY <1>3 DEF registry
<1> DEFINE s == drop.slug
<1> DEFINE On == task' = [task EXCEPT !.step = "revisions", !.left = Subs]
<1>5. \/ Failed /\ PublishFails("failed") /\ UNCHANGED <<manual, smart, staged>>
      \/ /\ Landed /\ PublishFails("refused") /\ UNCHANGED <<manual, smart, staged>>
         /\ \/ Dir \notin Mine
            \/ Live(s) # drop.list /\ ~ (Live(s) = NoList /\ ListFile \in Mine)
      \/ /\ Landed /\ On /\ UNCHANGED <<daemon, reply>>
         /\ Unlinked(s) /\ staged' = [staged EXCEPT ![drop.req] = @ \union {ListFile}]
      \/ /\ Landed /\ On /\ UNCHANGED <<daemon, reply>>
         /\ Live(s) = NoList /\ ListFile \in Mine /\ UNCHANGED <<manual, smart, staged>>
  BY DEF StagePlaylist, Subs
<1>6. OnlyCrashed => drop.phase = "publishing" /\ Completable
  BY <1>0, <1>1, <1>2 DEF Settling, DropSettles
<1>7. CASE Failed /\ PublishFails("failed") /\ UNCHANGED <<manual, smart, staged>>
  BY <1>1, <1>3, <1>7, PublishStops DEF files, journals
<1>8. CASE /\ Landed /\ PublishFails("refused") /\ UNCHANGED <<manual, smart, staged>>
           /\ \/ Dir \notin Mine
              \/ Live(s) # drop.list /\ ~ (Live(s) = NoList /\ ListFile \in Mine)
  <2>1. OnlyCrashed => Subs = {} BY <1>6, <1>8 DEF Completable
  <2> QED BY <1>1, <1>3, <1>8, <2>1, PublishStops DEF files, journals
<1>9. ASSUME Landed, On, UNCHANGED <<daemon, reply>>, Live(s)' = NoList, ListFile \in Mine',
             Mine \subseteq Mine', DOMAIN staged' = Requests,
             DOMAIN manual' = Slugs, \A x \in Slugs : Listed(manual'[x]), smart' \subseteq Slugs
      PROVE  IInv'
  <2>1. /\ task'.kind = "delete" /\ task'.step = "revisions" /\ task'.who = task.who
        /\ task'.req = task.req /\ task'.left = Subs /\ DOMAIN task' = DOMAIN task
    BY <1>1, <1>9, <1>2 DEF DeleteTask
  <2>2. Tasks' BY <1>0, <1>1, <1>2, <1>4, <1>9, <2>1, DeleteGoesOn DEF DeleteTask
  <2>3. Values' BY <1>0, <1>3, <1>9 DEF Values, Landed, registry
  <2>4. Journals' BY <1>0, <1>4, JournalFrame
  <2>5. Ledgered' BY <1>0, <1>3, LedgerFrame DEF Acks
  <2>6. CommitAt' /\ LibraryAt' BY <2>1, OthersAt
  <2>7. Subs' = Subs BY <1>4 DEF Subs
  <2>8. \A e \in Subs : Scrubbed(e)' BY <1>0, <1>1, <1>4 DEF DropAt, Scrubbed
  <2>9. Live(drop.slug)' = NoList BY <1>9
  <2>10. DropAt' BY <2>1, <2>7, <2>8, <2>9, <1>2, <1>4 DEF DropAt
  <2>11. ASSUME OnlyCrashed' PROVE Settling'
    <3>1. Settling /\ OnlyCrashed BY <1>0, <1>4, <1>9, <2>11 DEF OnlyCrashed, Landed
    <3>2. Mirrored' BY <3>1, <1>1, <1>4 DEF Settling, Mirrored
    <3>3. Completable /\ drop.phase = "publishing" BY <3>1, <1>6
    <3>4. Completable'
      <4>1. \A e \in Subs : revs'[e].subscriptions \in {drop'.subs[e].rev, drop'.subs[e].rev + 1}
        BY <3>3, <1>4 DEF Completable
      <4>2. Subs # {} => Dir \in Mine' BY <3>3, <1>9 DEF Completable
      <4> QED BY <4>1, <4>2, <1>9, <2>7, <2>8, <2>9 DEF Completable
    <3>5. DropSettles' BY <3>3, <3>4, <2>1, <1>4 DEF DropSettles
    <3> QED BY <1>0, <1>1, <1>4, <1>9, <3>1, <3>2, <3>5, <2>1, DeleteSettling
  <2> QED BY <2>2, <2>3, <2>4, <2>5, <2>6, <2>10, <2>11 DEF IInv, Shapes
<1>10. CASE /\ Landed /\ On /\ UNCHANGED <<daemon, reply>>
            /\ Unlinked(s) /\ staged' = [staged EXCEPT ![drop.req] = @ \union {ListFile}]
  <2>1. DOMAIN manual = Slugs /\ (\A x \in Slugs : Listed(manual[x])) /\ smart \subseteq Slugs
    BY <1>0 DEF Values
  <2>2. /\ Live(s)' = NoList /\ smart' \subseteq Slugs
        /\ DOMAIN manual' = Slugs /\ \A x \in Slugs : Listed(manual'[x])
    <3>1. CASE drop.list = Smart
      <4>1. smart' = smart \ {s} /\ manual' = manual BY <1>10, <3>1 DEF Unlinked
      <4> QED BY <4>1, <3>1, <2>1, <1>4 DEF Live
    <3>2. CASE drop.list # Smart
      <4>1. manual' = [manual EXCEPT ![s] = NoList] /\ smart' = smart BY <1>10, <3>2 DEF Unlinked
      <4>2. manual'[s] = NoList BY <4>1, <2>1, <1>2
      <4>3. \A x \in Slugs : Listed(manual'[x]) BY <4>1, <2>1 DEF Listed
      <4>4. DOMAIN manual' = Slugs BY <4>1, <2>1
      <4> QED BY <4>1, <4>2, <4>3, <4>4, <3>2, <2>1, <1>4 DEF Live
    <3> QED BY <3>1, <3>2
  <2>3. Mine' = Mine \union {ListFile} /\ DOMAIN staged' = Requests
    <3>1. staged' = [staged EXCEPT ![drop.req] = Mine \union {ListFile}] BY <1>10 DEF Mine
    <3>2. drop'.req = drop.req BY <1>4
    <3> QED BY <3>1, <3>2, <1>0, <1>2, MineNext
  <2>4. ListFile \in Mine' /\ Mine \subseteq Mine' BY <2>3
  <2> HIDE DEF On, s
  <2> QED BY <1>9, <1>10, <2>2, <2>3, <2>4
<1>11. CASE /\ Landed /\ On /\ UNCHANGED <<daemon, reply>>
            /\ Live(s) = NoList /\ ListFile \in Mine /\ UNCHANGED <<manual, smart, staged>>
  <2>1. Live(s)' = NoList BY <1>4, <1>11 DEF Live
  <2>2. Mine' = Mine BY <1>4, <1>11 DEF Mine
  <2>3. ListFile \in Mine' /\ Mine \subseteq Mine' BY <2>2, <1>11
  <2>4. /\ DOMAIN staged' = Requests /\ smart' \subseteq Slugs
        /\ DOMAIN manual' = Slugs /\ \A x \in Slugs : Listed(manual'[x])
    BY <1>0, <1>11 DEF Values
  <2> HIDE DEF On, s
  <2> QED BY <1>9, <1>11, <2>1, <2>3, <2>4
<1> QED BY <1>5, <1>7, <1>8, <1>10, <1>11

(* A device's subscription revision advances.                              *)
LEMMA AdvanceSubscriptionKept == ASSUME IInv, AdvanceSubscription PROVE IInv'
<1>0. Values /\ Journals /\ Tasks /\ CommitAt /\ DropAt /\ Ledgered /\ LibraryAt
      /\ (OnlyCrashed => Settling)
  BY DEF IInv, Shapes
<1>1. task.kind = "delete" /\ task.step = "revisions" BY DEF AdvanceSubscription, InDelete
<1>2. /\ DeleteTask(task) /\ Runs("playlists")
      /\ drop # None /\ IsDrop(drop) /\ drop.req \in Requests /\ drop.slug \in Slugs
      /\ Subs \subseteq Devices /\ task.left \subseteq Subs
      /\ \A d \in Subs : drop.subs[d] \in [old : Contents, new : Contents, rev : Nat]
  BY <1>0, <1>1, DropTask
<1>3. UNCHANGED <<ask, imported, files, journals, ledger, prepared, evicted, crashes>>
  BY DEF AdvanceSubscription
<1>4. ask' = ask /\ imported' = imported /\ config' = config /\ manual' = manual /\ smart' = smart
      /\ staged' = staged /\ commit' = commit /\ drop' = drop /\ library' = library
  BY <1>3 DEF files, journals
<1>5. PICK d \in task.left :
       \/ /\ revs[d].subscriptions = drop.subs[d].rev + 1
          /\ task' = [task EXCEPT !.left = @ \ {d}]
          /\ Landed /\ UNCHANGED <<revs, saved, daemon, reply>>
       \/ /\ revs[d].subscriptions = drop.subs[d].rev
          /\ \/ /\ Landed
                /\ saved' = Persist(Advanced(revs, d, {"subscriptions"}), imported)
                /\ revs' = Advanced(revs, d, {"subscriptions"})
                /\ task' = [task EXCEPT !.left = @ \ {d}]
                /\ UNCHANGED <<daemon, reply>>
             \/ Failed /\ PublishFails("failed") /\ UNCHANGED <<revs, saved>>
       \/ /\ revs[d].subscriptions \notin {drop.subs[d].rev, drop.subs[d].rev + 1}
          /\ Landed /\ PublishFails("refused") /\ UNCHANGED <<revs, saved>>
  BY DEF AdvanceSubscription
<1>6. d \in Subs /\ d \in Devices /\ "subscriptions" \in Components BY <1>2 DEF Components
<1>7. OnlyCrashed => drop.phase = "publishing" /\ Completable
  BY <1>0, <1>1, <1>2 DEF Settling, DropSettles
<1>8. CASE Failed /\ PublishFails("failed") /\ UNCHANGED <<revs, saved>>
  BY <1>1, <1>3, <1>8, PublishStops DEF registry
<1>9. CASE /\ revs[d].subscriptions \notin {drop.subs[d].rev, drop.subs[d].rev + 1}
           /\ Landed /\ PublishFails("refused") /\ UNCHANGED <<revs, saved>>
  <2>1. ~ OnlyCrashed BY <1>6, <1>7, <1>9 DEF Completable
  <2> QED BY <1>1, <1>3, <1>9, <2>1, PublishStops DEF registry
<1>10. CASE /\ task' = [task EXCEPT !.left = @ \ {d}]
            /\ Landed /\ UNCHANGED <<daemon, reply>>
            /\ \/ revs[d].subscriptions = drop.subs[d].rev + 1 /\ UNCHANGED <<revs, saved>>
               \/ /\ revs[d].subscriptions = drop.subs[d].rev
                  /\ saved' = Persist(Advanced(revs, d, {"subscriptions"}), imported)
                  /\ revs' = Advanced(revs, d, {"subscriptions"})
  <2>1. /\ task'.kind = "delete" /\ task'.step = "revisions" /\ task'.who = task.who
        /\ task'.req = task.req /\ task'.left = task.left \ {d} /\ DOMAIN task' = DOMAIN task
    BY <1>1, <1>10, <1>2 DEF DeleteTask
  <2>2. Tasks' BY <1>0, <1>1, <1>2, <1>4, <1>10, <2>1, DeleteGoesOn DEF DeleteTask
  <2>3. revs \in Registries /\ saved \in Registries /\ imported \in [Devices -> Nat]
    BY <1>0 DEF Values
  <2>4. /\ revs' \in Registries /\ saved' \in Registries
        /\ revs'[d].subscriptions = drop.subs[d].rev + 1
        /\ \A e \in Devices : e # d => revs'[e].subscriptions = revs[e].subscriptions
        /\ (\A e \in Devices : imported[e] = 0) /\ revs = saved => revs' = saved'
    <3>1. CASE revs[d].subscriptions = drop.subs[d].rev + 1 /\ UNCHANGED <<revs, saved>>
      BY <3>1, <2>3
    <3>2. CASE /\ revs[d].subscriptions = drop.subs[d].rev
               /\ saved' = Persist(Advanced(revs, d, {"subscriptions"}), imported)
               /\ revs' = Advanced(revs, d, {"subscriptions"})
      <4>1. /\ revs' \in Registries
            /\ \A e \in Devices : e # d => revs'[e] = revs[e]
            /\ revs'[d]["subscriptions"] = revs[d]["subscriptions"] + 1
        BY <3>2, <2>3, <1>6, AdvancedBy
      <4>2. saved' \in Registries /\ ((\A e \in Devices : imported[e] = 0) => saved' = revs')
        BY <3>2, <4>1, <2>3, Persisted
      <4> QED BY <3>2, <4>1, <4>2
    <3> QED BY <3>1, <3>2, <1>10
  <2>5. Values' BY <1>0, <1>3, <1>10, <2>4 DEF Values, Landed, files, journals
  <2>6. Journals' BY <1>0, <1>4, JournalFrame
  <2>7. Ledgered' BY <1>0, <1>3, LedgerFrame DEF Acks, journals
  <2>8. CommitAt' /\ LibraryAt' BY <2>1, OthersAt
  <2>9. Subs' = Subs BY <1>4 DEF Subs
  <2>10. \A e \in Subs : Scrubbed(e)' <=> Scrubbed(e) BY <1>4 DEF Scrubbed
  <2>11. Live(drop.slug)' = Live(drop.slug) BY <1>4 DEF Live
  <2>12. \A e \in Subs : e # d => revs'[e].subscriptions = revs[e].subscriptions
    BY <2>4, <1>2
  <2>13. DropAt'
    <3>1. /\ Live(drop.slug) = NoList
          /\ \A e \in Subs : Scrubbed(e)
          /\ \A e \in Subs \ task.left : revs[e].subscriptions = drop.subs[e].rev + 1
      BY <1>0, <1>1 DEF DropAt
    <3>2. \A e \in Subs' \ task'.left : revs'[e].subscriptions = drop'.subs[e].rev + 1
      BY <3>1, <2>1, <2>4, <2>9, <2>12, <1>4
    <3>3. task'.left \subseteq Subs' BY <2>1, <2>9, <1>2
    <3> QED BY <3>1, <3>2, <3>3, <2>1, <2>9, <2>10, <2>11, <1>2, <1>4 DEF DropAt
  <2>14. ASSUME OnlyCrashed' PROVE Settling'
    <3>1. Settling /\ OnlyCrashed BY <1>0, <1>4, <1>10, <2>14 DEF OnlyCrashed, Landed
    <3>2. revs = saved BY <3>1, <1>1 DEF Settling, Mirrored
    <3>3. Mirrored' BY <3>1, <3>2, <2>4 DEF OnlyCrashed, Mirrored
    <3>4. Completable /\ drop.phase = "publishing" BY <3>1, <1>7
    <3>5. Completable'
      <4>1. \A e \in Subs : revs'[e].subscriptions \in {drop'.subs[e].rev, drop'.subs[e].rev + 1}
        BY <3>4, <2>4, <2>12, <1>4 DEF Completable
      <4>2. Mine' = Mine BY <1>4 DEF Mine
      <4> QED BY <4>1, <4>2, <3>4, <2>9, <2>10, <2>11, <1>4 DEF Completable
    <3>6. DropSettles' BY <3>4, <3>5, <2>1, <1>4 DEF DropSettles
    <3> QED BY <1>0, <1>1, <1>4, <1>10, <3>1, <3>3, <3>6, <2>1, DeleteSettling
  <2> QED BY <2>2, <2>5, <2>6, <2>7, <2>8, <2>13, <2>14 DEF IInv, Shapes
<1> QED BY <1>5, <1>8, <1>9, <1>10

(* A subscription file is restored, unless the device's revision moved.    *)
LEMMA RestoreSubscriptionsKept == ASSUME IInv, RestoreSubscriptions PROVE IInv'
<1>0. Values /\ Journals /\ Tasks /\ CommitAt /\ DropAt /\ Ledgered /\ LibraryAt
      /\ (OnlyCrashed => Settling)
  BY DEF IInv, Shapes
<1>1. task.kind = "delete" /\ task.step = "restore" BY DEF RestoreSubscriptions, InDelete
<1>2. /\ DeleteTask(task) /\ Runs("playlists")
      /\ drop # None /\ IsDrop(drop) /\ drop.req \in Requests
      /\ Subs \subseteq Devices /\ task.left \subseteq Subs
      /\ \A d \in Subs : drop.subs[d] \in [old : Contents, new : Contents, rev : Nat]
  BY <1>0, <1>1, DropTask
<1>3. UNCHANGED <<ask, registry, manual, smart, listRev, commit, drop, library,
                 ledger, prepared, evicted, crashes>>
  BY DEF RestoreSubscriptions
<1>4. ask' = ask /\ revs' = revs /\ saved' = saved /\ imported' = imported /\ manual' = manual
      /\ smart' = smart /\ commit' = commit /\ drop' = drop /\ library' = library
  BY <1>3 DEF registry
<1>5. PICK d \in task.left :
       \/ /\ Restorable(d)
          /\ Landed
          /\ config' = [config EXCEPT ![d].subscriptions = drop.subs[d].old]
          /\ IF config[d].subscriptions = drop.subs[d].old THEN UNCHANGED staged
             ELSE Moved(<<d, "old">>)
          /\ task' = [task EXCEPT !.left = @ \ {d}]
          /\ UNCHANGED <<daemon, reply>>
       \/ Failed /\ EndDelete("failed") /\ UNCHANGED <<config, staged>>
       \/ /\ ~ Restorable(d)
          /\ Landed /\ EndDelete(IF task.who = "boot" THEN "refused" ELSE "failed")
          /\ UNCHANGED <<config, staged>>
  BY DEF RestoreSubscriptions
<1>6. d \in Subs /\ d \in Devices BY <1>2
<1>7. OnlyCrashed => drop.phase = "prepared" /\ Untouched
  BY <1>0, <1>1, <1>2, <1>6 DEF Settling, DropSettles
<1>8. CASE Failed /\ EndDelete("failed") /\ UNCHANGED <<config, staged>>
  BY <1>1, <1>3, <1>8, DeleteStops DEF files, journals
<1>9. CASE /\ ~ Restorable(d)
           /\ Landed /\ EndDelete(IF task.who = "boot" THEN "refused" ELSE "failed")
           /\ UNCHANGED <<config, staged>>
  <2>1. ~ OnlyCrashed BY <1>6, <1>7, <1>9 DEF Untouched, Original, Restorable
  <2>2. UNCHANGED <<ask, registry, files, journals, ledger, prepared, evicted, crashes>>
    BY <1>3, <1>9 DEF files, journals
  <2>3. CASE task.who = "boot" BY <2>1, <2>2, <2>3, <1>1, <1>9, DeleteStops
  <2>4. CASE task.who # "boot" BY <2>1, <2>2, <2>4, <1>1, <1>9, DeleteStops
  <2> QED BY <2>3, <2>4
<1>10. CASE /\ Restorable(d)
            /\ Landed
            /\ config' = [config EXCEPT ![d].subscriptions = drop.subs[d].old]
            /\ IF config[d].subscriptions = drop.subs[d].old THEN UNCHANGED staged
               ELSE Moved(<<d, "old">>)
            /\ task' = [task EXCEPT !.left = @ \ {d}]
            /\ UNCHANGED <<daemon, reply>>
  <2>1. /\ task'.kind = "delete" /\ task'.step = "restore" /\ task'.who = task.who
        /\ task'.req = task.req /\ task'.left = task.left \ {d} /\ DOMAIN task' = DOMAIN task
    BY <1>1, <1>10, <1>2 DEF DeleteTask
  <2>2. Tasks' BY <1>0, <1>1, <1>2, <1>4, <1>10, <2>1, DeleteGoesOn DEF DeleteTask
  <2>3. config \in [Devices -> [Components -> Contents]] BY <1>0 DEF Values
  <2>4. drop.subs[d].old \in Contents BY <1>2, <1>6
  <2>5. /\ config' \in [Devices -> [Components -> Contents]]
        /\ config'[d].subscriptions = drop.subs[d].old
        /\ \A e \in Devices : e # d => config'[e].subscriptions = config[e].subscriptions
    BY <1>10, <2>3, <2>4, <1>6, Replaced DEF Components
  <2>6. DOMAIN staged' = Requests
    <3>1. CASE UNCHANGED staged BY <3>1, <1>0 DEF Values
    <3>2. CASE Moved(<<d, "old">>) BY <3>2, <1>0 DEF Moved, Values
    <3> QED BY <3>1, <3>2, <1>10
  <2>7. Values' BY <1>0, <1>3, <1>10, <2>5, <2>6 DEF Values, Landed, registry
  <2>8. Journals' BY <1>0, <1>4, JournalFrame
  <2>9. Ledgered' BY <1>0, <1>3, LedgerFrame DEF Acks
  <2>10. CommitAt' /\ LibraryAt' BY <2>1, OthersAt
  <2>11. Subs' = Subs BY <1>4 DEF Subs
  <2>12. \A e \in Subs : Original(e) \/ e = d => Original(e)'
    BY <2>5, <1>2, <1>4, <1>10 DEF Original, Restorable
  <2>13. DropAt'
    <3>1. \A e \in Subs \ task.left : Original(e) BY <1>0, <1>1 DEF DropAt
    <3> QED BY <3>1, <2>1, <2>11, <2>12, <1>2, <1>4 DEF DropAt
  <2>14. ASSUME OnlyCrashed' PROVE Settling'
    <3>1. Settling /\ OnlyCrashed BY <1>0, <1>4, <1>10, <2>14 DEF OnlyCrashed, Landed
    <3>2. Mirrored' BY <3>1, <1>1, <1>4 DEF Settling, Mirrored
    <3>3. Untouched /\ drop.phase = "prepared" BY <3>1, <1>7
    <3>4. Live(drop.slug)' = Live(drop.slug) BY <1>4 DEF Live
    <3>5. Untouched' BY <3>3, <3>4, <2>11, <2>12, <1>4 DEF Untouched
    <3>6. DropSettles' BY <3>3, <3>5, <2>1, <1>4 DEF DropSettles
    <3> QED BY <1>0, <1>1, <1>4, <1>10, <3>1, <3>2, <3>6, <2>1, DeleteSettling
  <2> QED BY <2>2, <2>7, <2>8, <2>9, <2>10, <2>13, <2>14 DEF IInv, Shapes
<1> QED BY <1>5, <1>8, <1>9, <1>10

(* The playlist comes back, if it went.                                    *)
LEMMA RestorePlaylistKept == ASSUME IInv, RestorePlaylist PROVE IInv'
<1>0. Values /\ Journals /\ Tasks /\ CommitAt /\ DropAt /\ Ledgered /\ LibraryAt
      /\ (OnlyCrashed => Settling)
  BY DEF IInv, Shapes
<1>1. task.kind = "delete" /\ task.step = "restore" /\ task.left = {}
  BY DEF RestorePlaylist, InDelete
<1>2. /\ DeleteTask(task) /\ Runs("playlists")
      /\ drop # None /\ IsDrop(drop) /\ drop.req \in Requests /\ drop.slug \in Slugs
      /\ Subs \subseteq Devices
  BY <1>0, <1>1, DropTask
<1>3. UNCHANGED <<ask, registry, config, listRev, commit, drop, library, ledger,
                 prepared, evicted, crashes>>
  BY DEF RestorePlaylist
<1>4. ask' = ask /\ revs' = revs /\ saved' = saved /\ imported' = imported /\ config' = config
      /\ commit' = commit /\ drop' = drop /\ library' = library
  BY <1>3 DEF registry
<1> DEFINE s == drop.slug
<1>5. \/ Failed /\ EndDelete("failed") /\ UNCHANGED <<manual, smart, staged>>
      \/ /\ Live(s) # drop.list /\ ~ (Live(s) = NoList /\ ListFile \in Mine)
         /\ Landed /\ EndDelete(IF task.who = "boot" THEN "refused" ELSE "failed")
         /\ UNCHANGED <<manual, smart, staged>>
      \/ /\ Live(s) = drop.list /\ To("undone") /\ Landed
         /\ UNCHANGED <<manual, smart, staged, daemon, reply>>
      \/ /\ To("undone") /\ Landed /\ UNCHANGED <<daemon, reply>>
         /\ Relinked(s) /\ Moved(ListFile)
  BY DEF RestorePlaylist
<1>6. OnlyCrashed => \/ drop.phase = "prepared" /\ Untouched
                     \/ drop.phase = "publishing" /\ Subs = {} /\ Completable
  BY <1>0, <1>1, <1>2 DEF Settling, DropSettles, IsDrop
<1>7. CASE Failed /\ EndDelete("failed") /\ UNCHANGED <<manual, smart, staged>>
  BY <1>1, <1>3, <1>7, DeleteStops DEF files, journals
<1>8. CASE /\ Live(s) # drop.list /\ ~ (Live(s) = NoList /\ ListFile \in Mine)
           /\ Landed /\ EndDelete(IF task.who = "boot" THEN "refused" ELSE "failed")
           /\ UNCHANGED <<manual, smart, staged>>
  <2>1. ~ OnlyCrashed BY <1>6, <1>8 DEF Untouched, Completable
  <2>2. UNCHANGED <<ask, registry, files, journals, ledger, prepared, evicted, crashes>>
    BY <1>3, <1>8 DEF files, journals
  <2>3. CASE task.who = "boot" BY <2>1, <2>2, <2>3, <1>1, <1>8, DeleteStops
  <2>4. CASE task.who # "boot" BY <2>1, <2>2, <2>4, <1>1, <1>8, DeleteStops
  <2> QED BY <2>3, <2>4
<1>9. ASSUME To("undone"), Landed, UNCHANGED <<daemon, reply>>, Live(s)' = drop.list,
             DOMAIN staged' = Requests,
             DOMAIN manual' = Slugs, \A x \in Slugs : Listed(manual'[x]), smart' \subseteq Slugs
      PROVE  IInv'
  <2>1. /\ task'.kind = "delete" /\ task'.step = "undone" /\ task'.who = task.who
        /\ task'.req = task.req /\ task'.left = {} /\ DOMAIN task' = DOMAIN task
    BY <1>1, <1>9, <1>2 DEF DeleteTask, To
  <2>2. Tasks' BY <1>0, <1>1, <1>2, <1>4, <1>9, <2>1, DeleteGoesOn DEF DeleteTask
  <2>3. Values' BY <1>0, <1>3, <1>9 DEF Values, Landed, registry
  <2>4. Journals' BY <1>0, <1>4, JournalFrame
  <2>5. Ledgered' BY <1>0, <1>3, LedgerFrame DEF Acks
  <2>6. CommitAt' /\ LibraryAt' BY <2>1, OthersAt
  <2>7. Subs' = Subs BY <1>4 DEF Subs
  <2>8. \A e \in Subs : Original(e)' BY <1>0, <1>1, <1>4 DEF DropAt, Original
  <2>9. Live(drop.slug)' = drop.list BY <1>9
  <2>10. DropAt' BY <2>1, <2>7, <2>8, <2>9, <1>2, <1>4 DEF DropAt
  <2>11. ASSUME OnlyCrashed' PROVE Settling'
    <3>1. Settling /\ OnlyCrashed BY <1>0, <1>4, <1>9, <2>11 DEF OnlyCrashed, Landed
    <3>2. Mirrored' BY <3>1, <1>1, <1>4 DEF Settling, Mirrored
    <3>3. Untouched' BY <2>7, <2>8, <2>9, <1>4 DEF Untouched
    <3>4. Subs = {} => Completable' BY <2>7, <2>9, <1>4 DEF Completable
    <3>5. drop.phase = "prepared" \/ Subs = {} BY <3>1, <1>6
    <3>6. drop.phase = "publishing" => Subs = {} BY <3>5
    <3>7. DropSettles' BY <3>3, <3>4, <3>5, <3>6, <2>1, <2>7, <1>4 DEF DropSettles
    <3> QED BY <1>0, <1>1, <1>4, <1>9, <3>1, <3>2, <3>7, <2>1, DeleteSettling
  <2> QED BY <2>2, <2>3, <2>4, <2>5, <2>6, <2>10, <2>11 DEF IInv, Shapes
<1>10. CASE /\ Live(s) = drop.list /\ To("undone") /\ Landed
            /\ UNCHANGED <<manual, smart, staged, daemon, reply>>
  <2>1. Live(s)' = drop.list BY <1>4, <1>10 DEF Live
  <2>2. /\ DOMAIN staged' = Requests /\ smart' \subseteq Slugs
        /\ DOMAIN manual' = Slugs /\ \A x \in Slugs : Listed(manual'[x])
    BY <1>0, <1>10 DEF Values
  <2> HIDE DEF s
  <2> QED BY <1>9, <1>10, <2>1, <2>2
<1>11. CASE /\ To("undone") /\ Landed /\ UNCHANGED <<daemon, reply>>
            /\ Relinked(s) /\ Moved(ListFile)
  <2>1. DOMAIN manual = Slugs /\ (\A x \in Slugs : Listed(manual[x])) /\ smart \subseteq Slugs
        /\ DOMAIN staged = Requests
    BY <1>0 DEF Values
  <2>2. /\ Live(s)' = drop.list /\ smart' \subseteq Slugs
        /\ DOMAIN manual' = Slugs /\ \A x \in Slugs : Listed(manual'[x])
    <3>1. CASE drop.list = Smart
      <4>1. smart' = smart \union {s} /\ manual' = manual BY <1>11, <3>1 DEF Relinked
      <4> QED BY <4>1, <3>1, <2>1, <1>2, <1>4 DEF Live
    <3>2. CASE drop.list # Smart
      <4>1. manual' = [manual EXCEPT ![s] = drop.list] /\ smart' = smart BY <1>11, <3>2 DEF Relinked
      <4>2. manual'[s] = drop.list BY <4>1, <2>1, <1>2
      <4>3. Listed(drop.list) BY <3>2, <1>2 DEF IsDrop
      <4>4. \A x \in Slugs : Listed(manual'[x]) BY <4>1, <4>3, <2>1 DEF Listed
      <4>5. DOMAIN manual' = Slugs BY <4>1, <2>1
      <4> QED BY <4>1, <4>2, <4>4, <4>5, <3>2, <2>1, <1>4 DEF Live
    <3> QED BY <3>1, <3>2
  <2>3. DOMAIN staged' = Requests BY <1>11, <2>1 DEF Moved
  <2> HIDE DEF s
  <2> QED BY <1>9, <1>11, <2>2, <2>3
<1> QED BY <1>5, <1>7, <1>8, <1>10, <1>11

(* The journal goes, then the staging directory.                           *)
LEMMA CleanupKept == ASSUME IInv, Cleanup PROVE IInv'
<1>0. Values /\ Journals /\ Tasks /\ CommitAt /\ DropAt /\ Ledgered /\ LibraryAt
      /\ (OnlyCrashed => Settling)
  BY DEF IInv, Shapes
<1>1. task.kind = "delete" /\ task.step \notin {"stage", "prepare"} BY DEF Cleanup, InDelete
<1>2. UNCHANGED <<ask, registry, files, commit, library, ledger, prepared, evicted, crashes>>
  BY DEF Cleanup
<1>3. ask' = ask /\ revs' = revs /\ saved' = saved /\ imported' = imported
      /\ commit' = commit /\ library' = library
  BY <1>2 DEF registry
<1>4. CASE Failed /\ EndDelete("failed") /\ UNCHANGED <<drop, staged>>
  BY <1>1, <1>2, <1>4, DeleteStops DEF journals
<1>5. CASE /\ Landed /\ drop' = None /\ staged' = [staged EXCEPT ![drop.req] = {}]
           /\ \E how \in {"done", "failed"} : EndDelete(how)
  <2>1. PICK how \in {"done", "failed"} : EndDelete(how) BY <1>5
  <2>2. how \in {"done", "failed", "refused"} /\ how # "refused" BY <2>1
  <2>3. task' = NoTask /\ daemon' \in Booting \union {"up", "down", "refused"}
        /\ daemon' # "refused" /\ reply' \in [Requests -> {"none", "done", "failed"}]
    BY <1>0, <1>1, <2>1, <2>2, DeleteEnded
  <2>4. CommitAt' /\ DropAt' /\ LibraryAt' /\ Tasks' /\ task'.kind = "idle" BY <2>3, IdleAt
  <2>5. Values' BY <1>0, <1>2, <1>5, <2>3 DEF Values, Landed, registry, files
  <2>6. Journals' BY <1>0, <1>3, <1>5 DEF Journals, IsCommit, IsLibrary
  <2>7. Ledgered' BY <1>0, <1>2, LedgerFrame DEF Acks
  <2>8. ASSUME OnlyCrashed' PROVE Settling'
    <3>1. Settling BY <1>0, <1>3, <1>5, <2>8 DEF OnlyCrashed, Landed
    <3>2. commit' = None /\ library' = None BY <3>1, <1>1, <1>3 DEF Settling, OneJournal
    <3>3. Mirrored' BY <3>1, <1>1, <1>3 DEF Settling, Mirrored
    <3> QED BY <3>2, <3>3, <2>3, <2>4, <1>5, NothingPending
  <2> QED BY <2>4, <2>5, <2>6, <2>7, <2>8 DEF IInv, Shapes
<1>6. \/ Failed /\ EndDelete("failed") /\ UNCHANGED <<drop, staged>>
      \/ /\ Landed /\ drop' = None /\ staged' = [staged EXCEPT ![drop.req] = {}]
         /\ \E how \in {"done", "failed"} : EndDelete(how)
  BY DEF Cleanup
<1> QED BY <1>4, <1>5, <1>6

(* A deletion keeps the invariant at every step.                           *)
LEMMA DeleteStepKept == ASSUME IInv, DeleteStep PROVE IInv'
BY StageKept, PrepareKept, PublishKept, ScrubSubscriptionsKept, StagePlaylistKept,
   AdvanceSubscriptionKept, RestoreSubscriptionsKept, RestorePlaylistKept, CleanupKept
   DEF DeleteStep

-----------------------------------------------------------------------------
(* The ledger of acknowledged drops.                                         *)

(* A nonempty set of naturals has a least member, which Min picks.         *)
LEMMA MinOf ==
  ASSUME NEW S, S \subseteq Nat, S # {}
  PROVE  Min(S) \in S /\ \A n \in S : Min(S) <= n
<1> DEFINE R == OpToRel(<, Nat)
<1>1. IsWellFoundedOn(R, Nat) BY NatLessThanWellFounded
<1> HIDE DEF R
<1>2. PICK m \in S : \A n \in S : ~ (<<n, m>> \in R) BY <1>1, WFMin
<1>3. ASSUME NEW n \in S PROVE m <= n
  <2>1. ~ (<<n, m>> \in R) BY <1>2
  <2>2. n \in Nat /\ m \in Nat OBVIOUS
  <2>3. n < m => <<n, m>> \in R BY <2>2 DEF R, OpToRel
  <2> QED BY <2>1, <2>2, <2>3
<1> QED BY <1>3 DEF Min

(* No entry of a sequence occurs twice.                                    *)
Distinct(s) == \A i, j \in DOMAIN s : s[i] = s[j] => i = j

(* A sequence has finitely many entries.                                   *)
LEMMA EntriesFinite ==
  ASSUME NEW S, NEW s \in Seq(S)
  PROVE  ToSet(s) \subseteq S /\ IsFiniteSet(ToSet(s))
<1>1. DOMAIN s = 1..Len(s) /\ Len(s) \in Nat OBVIOUS
<1>2. IsFiniteSet(1..Len(s)) BY <1>1, FS_Interval, SMT
<1> DEFINE f == [i \in 1..Len(s) |-> s[i]]
<1>3. f \in Surjection(1..Len(s), ToSet(s)) BY <1>1 DEF Surjection, ToSet
<1>4. IsFiniteSet(ToSet(s)) BY <1>2, <1>3, FS_Surjection
<1> QED BY <1>1, <1>4 DEF ToSet

(* What is left of a sequence without one of its entries.                  *)
LEMMA Removed ==
  ASSUME NEW S, NEW s \in Seq(S), Distinct(s), NEW k \in DOMAIN s
  PROVE  /\ RemoveAt(s, k) \in Seq(S) /\ Distinct(RemoveAt(s, k))
         /\ ToSet(RemoveAt(s, k)) = ToSet(s) \ {s[k]}
<1> DEFINE n == Len(s)
<1> DEFINE t == RemoveAt(s, k)
<1>1. DOMAIN s = 1..n /\ n \in Nat /\ k \in 1..n OBVIOUS
<1> DEFINE A == SubSeq(s, 1, k - 1)
<1> DEFINE B == SubSeq(s, k + 1, n)
<1>2. A \in Seq(S) /\ Len(A) = k - 1 /\ \A i \in 1..(k - 1) : A[i] = s[i]
  BY <1>1
<1>3. B \in Seq(S) /\ Len(B) = n - k /\ \A i \in 1..(n - k) : B[i] = s[k + i]
  BY <1>1
<1>t. t = A \o B BY DEF RemoveAt
<1> HIDE DEF n, t, A, B
<1>4. t \in Seq(S) /\ Len(t) = n - 1
  <2>1. A \o B \in Seq(S) /\ Len(A \o B) = Len(A) + Len(B)
    BY <1>2, <1>3, ConcatProperties
  <2>2. n - k \in Int /\ k - 1 \in Int BY <1>1
  <2> QED BY <1>1, <1>2, <1>3, <1>t, <2>1, <2>2
<1>5. \A i \in 1..(n - 1) : t[i] = IF i < k THEN s[i] ELSE s[i + 1]
  <2> TAKE i \in 1..(n - 1)
  <2>1. CASE i < k BY <1>1, <1>2, <1>3, <1>t, <2>1
  <2>2. CASE ~ (i < k)
    <3>1. t[i] = B[i - (k - 1)] BY <1>1, <1>2, <1>3, <1>t, <2>2
    <3>2. i - (k - 1) \in 1..(n - k) /\ k + (i - (k - 1)) = i + 1 BY <1>1, <2>2
    <3> QED BY <1>3, <2>2, <3>1, <3>2
  <2> QED BY <2>1, <2>2
<1>6. DOMAIN t = 1..(n - 1) BY <1>1, <1>4
<1>7. Distinct(t)
  <2> SUFFICES ASSUME NEW i \in 1..(n - 1), NEW j \in 1..(n - 1), t[i] = t[j] PROVE i = j
    BY <1>6 DEF Distinct
  <2>1. PICK a \in 1..n : t[i] = s[a] /\ a = IF i < k THEN i ELSE i + 1 BY <1>1, <1>5
  <2>2. PICK b \in 1..n : t[j] = s[b] /\ b = IF j < k THEN j ELSE j + 1 BY <1>1, <1>5
  <2>3. a = b BY <1>1, <2>1, <2>2 DEF Distinct
  <2> QED BY <1>1, <2>1, <2>2, <2>3
<1>8. ToSet(t) = ToSet(s) \ {s[k]}
  <2>1. ASSUME NEW i \in 1..(n - 1) PROVE t[i] \in ToSet(s) \ {s[k]}
    <3>1. PICK a \in 1..n : t[i] = s[a] /\ a # k BY <1>1, <1>5
    <3> QED BY <1>1, <3>1 DEF Distinct, ToSet
  <2>2. ASSUME NEW a \in 1..n, s[a] # s[k] PROVE \E i \in 1..(n - 1) : t[i] = s[a]
    <3>1. CASE a < k BY <1>1, <1>5, <3>1
    <3>2. CASE a > k
      <4>1. a - 1 \in 1..(n - 1) /\ ~ (a - 1 < k) /\ (a - 1) + 1 = a BY <1>1, <3>2
      <4> QED BY <1>5, <4>1
    <3> QED BY <1>1, <2>2, <3>1, <3>2
  <2> QED BY <1>1, <1>6, <2>1, <2>2 DEF ToSet
<1> QED BY <1>4, <1>7, <1>8 DEF t

(* What a sequence holds once an entry is appended.                        *)
LEMMA Added ==
  ASSUME NEW S, NEW s \in Seq(S), Distinct(s), NEW x \in S, x \notin ToSet(s)
  PROVE  /\ Append(s, x) \in Seq(S) /\ Distinct(Append(s, x))
         /\ ToSet(Append(s, x)) = ToSet(s) \union {x}
         /\ Len(Append(s, x)) \in DOMAIN Append(s, x)
         /\ Append(s, x)[Len(Append(s, x))] = x
<1> DEFINE n == Len(s)
<1> DEFINE t == Append(s, x)
<1>1. DOMAIN s = 1..n /\ n \in Nat OBVIOUS
<1>2. t \in Seq(S) /\ Len(t) = n + 1 /\ DOMAIN t = 1..(n + 1) /\ t[n + 1] = x
      /\ \A i \in 1..n : t[i] = s[i]
  BY <1>1
<1> HIDE DEF n, t
<1>3. Distinct(t) BY <1>1, <1>2 DEF Distinct, ToSet
<1>4. ToSet(t) = ToSet(s) \union {x} BY <1>1, <1>2 DEF ToSet
<1>5. Len(t) \in DOMAIN t /\ t[Len(t)] = x BY <1>1, <1>2
<1> QED BY <1>2, <1>3, <1>4, <1>5 DEF t

(* The positions of some entries of a sequence are as many as the entries. *)
LEMMA Positions ==
  ASSUME NEW S, NEW s \in Seq(S), Distinct(s), NEW P \in SUBSET DOMAIN s,
         NEW T, T = {s[i] : i \in P}
  PROVE  IsFiniteSet(P) /\ IsFiniteSet(T) /\ Cardinality(P) = Cardinality(T)
<1>1. DOMAIN s = 1..Len(s) /\ Len(s) \in Nat OBVIOUS
<1>2. IsFiniteSet(P)
  <2>1. IsFiniteSet(1..Len(s)) BY <1>1, FS_Interval, SMT
  <2> QED BY <1>1, <2>1, FS_Subset
<1> DEFINE f == [i \in P |-> s[i]]
<1>3. f \in Bijection(P, T)
  <2>1. f \in [P -> T] OBVIOUS
  <2>2. \A i, j \in P : f[i] = f[j] => i = j BY DEF Distinct
  <2>3. \A e \in T : \E i \in P : f[i] = e OBVIOUS
  <2> HIDE DEF f
  <2> QED BY <2>1, <2>2, <2>3 DEF Bijection, Injection, Surjection, IsInjective
<1> HIDE DEF f
<1>4. ExistsBijection(P, T) BY <1>3 DEF ExistsBijection
<1> QED BY <1>2, <1>4, FS_Bijection

(* What a request is about.                                                *)
LEMMA Targets ==
  ASSUME Values, NEW r \in Requests, ask[r].kind \in Drops
  PROVE  Target(r) \in Devices \union Slugs
<1>1. Wellformed(ask[r]) BY Asked
<1> QED BY <1>1 DEF Wellformed, Target, Drops

(* The ledger after an acknowledgement: the request is in it, a target is   *)
(* remembered at most MaxPerTarget times, and nothing else has come in.     *)
LEMMA AcknowledgedShape ==
  ASSUME Values, Journals, Unique, Within, library # None
  PROVE  LET r == library.req IN
         /\ Acknowledged \in Seq(Requests) /\ Distinct(Acknowledged)
         /\ r \in ToSet(Acknowledged)
         /\ ToSet(Acknowledged) \subseteq ToSet(ledger) \union {r}
         /\ Cardinality({q \in ToSet(Acknowledged) : Target(q) = Target(r)}) <= MaxPerTarget
<1> DEFINE r == library.req
<1> DEFINE others == IF r \in ToSet(ledger)
                     THEN RemoveAt(ledger, CHOOSE i \in DOMAIN ledger : ledger[i] = r) ELSE ledger
<1> DEFINE full == Append(others, r)
<1> DEFINE mine == {i \in DOMAIN full : Target(full[i]) = Target(r)}
<1> DEFINE E == {full[i] : i \in mine}
<1>1. ledger \in Seq(Requests) /\ Distinct(ledger) /\ r \in Requests /\ ask[r].kind \in Drops
  BY DEF Values, Unique, Distinct, Journals, IsLibrary
<1>2. MaxPerTarget \in Nat \ {0} BY HostAssumption
<1>3. others \in Seq(Requests) /\ Distinct(others) /\ ToSet(others) = ToSet(ledger) \ {r}
  <2>1. CASE r \in ToSet(ledger)
    <3> DEFINE k == CHOOSE i \in DOMAIN ledger : ledger[i] = r
    <3>1. k \in DOMAIN ledger /\ ledger[k] = r BY <2>1 DEF ToSet
    <3>2. others = RemoveAt(ledger, k) BY <2>1
    <3> HIDE DEF k, others
    <3> QED BY <1>1, <3>1, <3>2, Removed
  <2>2. CASE r \notin ToSet(ledger) BY <1>1, <2>2
  <2> QED BY <2>1, <2>2
<1>a. Acknowledged = IF Cardinality(mine) <= MaxPerTarget THEN full ELSE RemoveAt(full, Min(mine))
  BY DEF Acknowledged, Kept
<1> HIDE DEF others
<1>4. /\ full \in Seq(Requests) /\ Distinct(full) /\ ToSet(full) = ToSet(ledger) \union {r}
      /\ Len(full) \in DOMAIN full /\ full[Len(full)] = r
  <2>1. r \notin ToSet(others) BY <1>3
  <2>2. /\ full \in Seq(Requests) /\ Distinct(full) /\ ToSet(full) = ToSet(others) \union {r}
        /\ Len(full) \in DOMAIN full /\ full[Len(full)] = r
    BY <1>1, <1>3, <2>1, Added
  <2> QED BY <1>3, <2>2
<1>5. DOMAIN full = 1..Len(full) /\ Len(full) \in Nat BY <1>4
<1> HIDE DEF full
<1>6. IsFiniteSet(mine) /\ IsFiniteSet(E) /\ Cardinality(mine) = Cardinality(E)
  <2>1. mine \in SUBSET DOMAIN full OBVIOUS
  <2>2. E = {full[i] : i \in mine} OBVIOUS
  <2> HIDE DEF mine, E
  <2> QED BY <1>4, <2>1, <2>2, Positions
<1>7. E = {q \in ToSet(full) : Target(q) = Target(r)} BY DEF ToSet
<1>8. E = Entries(Target(r)) \union {r} BY <1>4, <1>7 DEF Entries
<1>9. Cardinality(E) <= MaxPerTarget + 1
  <2> DEFINE T == Entries(Target(r))
  <2>1. IsFiniteSet(T)
    <3>1. IsFiniteSet(ToSet(ledger)) /\ T \subseteq ToSet(ledger) BY <1>1, EntriesFinite DEF Entries
    <3> QED BY <3>1, FS_Subset
  <2>2. Cardinality(T) <= MaxPerTarget BY <1>1, Targets DEF Within
  <2>3. Cardinality(T) \in Nat BY <2>1, FS_CardinalityType
  <2> HIDE DEF T, E
  <2>4. Cardinality(T \union {r}) = IF r \in T THEN Cardinality(T) ELSE Cardinality(T) + 1
    BY <2>1, FS_AddElement
  <2> QED BY <1>2, <1>8, <2>2, <2>3, <2>4 DEF T
<1>10. CASE Cardinality(mine) <= MaxPerTarget
  <2>1. Acknowledged = full BY <1>a, <1>10
  <2>2. r \in ToSet(full) BY <1>4
  <2>3. Cardinality({q \in ToSet(full) : Target(q) = Target(r)}) <= MaxPerTarget
    BY <1>6, <1>7, <1>10
  <2> QED BY <1>4, <2>1, <2>2, <2>3
<1>11. CASE ~ (Cardinality(mine) <= MaxPerTarget)
  <2> DEFINE k == Min(mine)
  <2>1. Acknowledged = RemoveAt(full, k) BY <1>a, <1>11
  <2>2. Len(full) \in mine BY <1>4
  <2>3. mine \subseteq Nat BY <1>5
  <2>4. k \in mine /\ \A i \in mine : k <= i BY <2>2, <2>3, MinOf
  <2>5. k \in DOMAIN full /\ full[k] \in E BY <2>4
  <2>6. full[k] # r
    <3> SUFFICES ASSUME full[k] = r PROVE FALSE OBVIOUS
    <3>1. k = Len(full) BY <1>4, <2>5 DEF Distinct
    <3>2. mine = {k}
      <4> HIDE DEF k
      <4>1. \A i \in mine : i <= Len(full) /\ i \in Nat BY <1>5
      <4>2. k \in Nat BY <2>3, <2>4
      <4>3. \A i \in mine : i = k BY <2>4, <3>1, <4>1, <4>2
      <4> QED BY <2>4, <4>3
    <3>3. Cardinality(mine) = 1 BY <3>2, FS_Singleton
    <3> QED BY <1>2, <1>11, <3>3
  <2> HIDE DEF k
  <2>7. /\ Acknowledged \in Seq(Requests) /\ Distinct(Acknowledged)
        /\ ToSet(Acknowledged) = ToSet(full) \ {full[k]}
    BY <1>4, <2>1, <2>5, Removed
  <2> DEFINE Q == {q \in ToSet(Acknowledged) : Target(q) = Target(r)}
  <2>8. Q = E \ {full[k]} BY <1>7, <2>7
  <2> HIDE DEF E, Q
  <2>9. Cardinality(E \ {full[k]}) = Cardinality(E) - 1 BY <1>6, <2>5, FS_RemoveElement
  <2>10. Cardinality(E) \in Nat BY <1>6, FS_CardinalityType
  <2>11. Cardinality(Q) <= MaxPerTarget BY <1>2, <1>9, <2>8, <2>9, <2>10
  <2> QED BY <1>4, <2>6, <2>7, <2>11 DEF Q
<1> QED BY <1>10, <1>11

(* An acknowledgement keeps what the ledger promises.                      *)
LEMMA AcknowledgedKeeps ==
  ASSUME Values, Journals, Ledgered, library # None, library.phase # "ledger",
         ledger' = Acknowledged, evicted' = evicted \union (ToSet(ledger) \ ToSet(Acknowledged)),
         UNCHANGED <<ask, library, prepared>>
  PROVE  /\ ledger' \in Seq(Requests) /\ evicted' \subseteq Requests
         /\ Ledgered' /\ library.req \in Known'
<1> DEFINE r == library.req
<1>0. Unique /\ Within /\ Recorded /\ AppliedOnce BY DEF Ledgered
<1>1. /\ ledger' \in Seq(Requests) /\ Distinct(ledger') /\ r \in ToSet(ledger')
      /\ ToSet(ledger') \subseteq ToSet(ledger) \union {r}
      /\ Cardinality({q \in ToSet(ledger') : Target(q) = Target(r)}) <= MaxPerTarget
  BY <1>0, AcknowledgedShape
<1>2. ledger \in Seq(Requests) /\ evicted \subseteq Requests BY DEF Values
<1>3. ToSet(ledger) \subseteq Requests BY <1>2, EntriesFinite
<1>4. evicted' \subseteq Requests BY <1>2, <1>3
<1>5. \A q : Target(q)' = Target(q) BY DEF Target
<1>6. Unique' BY <1>1 DEF Unique, Distinct
<1>7. Within'
  <2> SUFFICES ASSUME NEW x \in Devices \union Slugs
               PROVE  Cardinality(Entries(x)') <= MaxPerTarget
    BY DEF Within
  <2>1. Entries(x)' = {q \in ToSet(ledger') : Target(q) = x} BY <1>5 DEF Entries
  <2>2. CASE x = Target(r) BY <1>1, <2>1, <2>2
  <2>3. CASE x # Target(r)
    <3> DEFINE T == Entries(x)
    <3> DEFINE U == {q \in ToSet(ledger') : Target(q) = x}
    <3>1. U \subseteq T BY <1>1, <2>3 DEF Entries
    <3>2. IsFiniteSet(ToSet(ledger)) /\ T \subseteq ToSet(ledger) BY <1>2, EntriesFinite DEF Entries
    <3>3. Cardinality(T) <= MaxPerTarget BY <1>0 DEF Within
    <3> HIDE DEF T, U
    <3>4. IsFiniteSet(T) BY <3>2, FS_Subset
    <3>5. IsFiniteSet(U) /\ Cardinality(U) <= Cardinality(T) BY <3>1, <3>4, FS_Subset
    <3>6. Cardinality(U) \in Nat /\ Cardinality(T) \in Nat BY <3>4, <3>5, FS_CardinalityType
    <3>7. MaxPerTarget \in Nat BY HostAssumption
    <3> QED BY <2>1, <3>3, <3>5, <3>6, <3>7 DEF U
  <2> QED BY <2>2, <2>3
<1>8. Known \subseteq Known' BY DEF Known
<1>9. Recorded' BY <1>0, <1>8 DEF Recorded
<1>10. AppliedOnce' BY <1>0 DEF AppliedOnce
<1>11. r \in Known' BY <1>1 DEF Known
<1> QED BY <1>1, <1>4, <1>6, <1>7, <1>9, <1>10, <1>11 DEF Ledgered

-----------------------------------------------------------------------------
(* A library drop.                                                           *)

(* How the task of a library drop ends.                                    *)
LEMMA LibraryEnded ==
  ASSUME Values, Tasks, LibraryAt, task.kind = "library", NEW how \in {"done", "failed"},
         EndLibrary(how), UNCHANGED <<ask, saved>>, how = "done" => ~ task.written /\ library' = None
  PROVE  /\ Tasks' /\ CommitAt' /\ DropAt' /\ LibraryAt'
         /\ revs' \in Registries
         /\ daemon' \in Booting \union {"up", "down"}
         /\ reply' \in [Requests -> {"none", "done", "failed"}]
         /\ (task'.kind = "library" /\ task'.step = "answer") \/ task' = NoTask
         /\ Mirrored /\ (how = "done" \/ ask[task.req].kind = "append") => Mirrored'
<1>1. LibraryTask(task) /\ Runs("library") BY TaskKinds
<1>2. revs \in Registries /\ saved \in Registries /\ reply \in [Requests -> {"none", "done", "failed"}]
      /\ daemon \in Booting \union {"up", "down", "refused"} BY DEF Values
<1>3. CASE task.who = "client" /\ how = "done" /\ ask[task.req].kind = "add"
  <2>1. revs' = saved /\ task' = [task EXCEPT !.step = "answer"] /\ UNCHANGED <<reply, daemon>>
    BY <1>3 DEF EndLibrary
  <2>2. /\ task'.kind = "library" /\ DOMAIN task' = DOMAIN task /\ task'.who = task.who
        /\ task'.req = task.req /\ task'.records = task.records /\ task'.written = task.written
        /\ task'.step = "answer"
    BY <1>1, <2>1 DEF LibraryTask
  <2>3. daemon' = "up" BY <1>1, <1>3, <2>1 DEF Runs
  <2>4. LibraryTask(task)' /\ Runs("library")' BY <1>1, <1>3, <2>2, <2>3 DEF LibraryTask, Runs
  <2>5. LibraryAt' BY <1>3, <2>2 DEF LibraryAt
  <2>6. Mirrored' BY <2>1 DEF Mirrored
  <2> QED BY <1>2, <2>1, <2>2, <2>3, <2>4, <2>5, <2>6, OthersAt DEF Tasks
<1>4. CASE task.who = "client" /\ ~ (how = "done" /\ ask[task.req].kind = "add")
  <2>1. task' = NoTask /\ reply' = [reply EXCEPT ![task.req] = how] /\ UNCHANGED <<revs, daemon>>
    BY <1>4 DEF EndLibrary, Answer
  <2>2. daemon = "up" BY <1>1, <1>4 DEF Runs
  <2>3. reply' \in [Requests -> {"none", "done", "failed"}] BY <1>2, <2>1
  <2>4. Mirrored /\ (how = "done" \/ ask[task.req].kind = "append") => Mirrored'
    BY <1>1, <1>4, <2>1 DEF Mirrored, LibraryTask, Drops
  <2> QED BY <1>2, <2>1, <2>2, <2>3, <2>4, IdleAt
<1>5. CASE task.who = "boot"
  <2>1. task' = NoTask /\ revs' = saved /\ UNCHANGED reply
        /\ daemon' = (IF how = "done" THEN "reconcile" ELSE "down")
    BY <1>5 DEF EndLibrary
  <2>2. Mirrored' BY <2>1 DEF Mirrored
  <2> QED BY <1>2, <2>1, <2>2, IdleAt DEF Booting
<1> QED BY <1>1, <1>3, <1>4, <1>5 DEF LibraryTask

(* A write that fails leaves the journal for the next attempt.             *)
LEMMA LibraryStops ==
  ASSUME IInv, task.kind = "library", Failed, EndLibrary("failed"),
         UNCHANGED <<ask, saved, imported, files, journals, ledger, prepared, evicted, crashes>>
  PROVE  IInv'
<1>0. Values /\ Journals /\ Tasks /\ Ledgered /\ LibraryAt BY DEF IInv, Shapes
<1>1. /\ Tasks' /\ CommitAt' /\ DropAt' /\ LibraryAt' /\ revs' \in Registries
      /\ daemon' \in Booting \union {"up", "down"}
      /\ reply' \in [Requests -> {"none", "done", "failed"}]
  BY <1>0, LibraryEnded
<1>2. ~ OnlyCrashed' /\ faults' \in Nat /\ faults' <= MaxFaults(ask)' BY <1>0, Faulted
<1>3. Values' BY <1>0, <1>1, <1>2 DEF Values, files, journals
<1>4. Journals' BY <1>0, JournalFrame DEF journals
<1>5. Ledgered' BY <1>0, LedgerFrame DEF Acks, journals
<1> QED BY <1>1, <1>2, <1>3, <1>4, <1>5 DEF IInv, Shapes

(* The task of a library drop that goes on.                                *)
LEMMA LibraryGoesOn ==
  ASSUME Tasks, task.kind = "library", UNCHANGED <<ask, daemon>>,
         task'.kind = "library", DOMAIN task' = DOMAIN task, task'.who = task.who,
         task'.req = task.req, task'.records \in Registries, task'.written \in BOOLEAN,
         task'.step = task.step \/ (task.who = "client" /\ task'.step \in {"evaluate", "journal", "forward"})
  PROVE  Tasks' /\ CommitAt' /\ DropAt'
<1>1. LibraryTask(task) /\ Runs("library") BY TaskKinds
<1>2. LibraryTask(task)' /\ Runs("library")' BY <1>1 DEF LibraryTask, Runs
<1> QED BY <1>2, OthersAt DEF Tasks

(* A library drop has no journal of another kind to settle.                *)
LEMMA LibrarySettling ==
  ASSUME Tasks, Settling, task.kind = "library", UNCHANGED <<commit, drop>>,
         task'.kind = "library" \/ (library' = None /\ task' = NoTask),
         task'.kind = "library" =>
           task'.step # "recover" \/ (task'.step = task.step /\ task'.who = task.who),
         daemon' # "refused", Mirrored'
  PROVE  Settling'
<1>1. commit' = None /\ drop' = None BY DEF Settling, OneJournal
<1>2. CASE task'.kind = "library"
  BY <1>1, <1>2 DEF Settling, OneJournal, CommitSettles, DropSettles, Refusal
<1>3. CASE library' = None /\ task' = NoTask BY <1>1, <1>3, NothingPending, IdleKind
<1> QED BY <1>2, <1>3

(* A drop runs in a daemon that has started or is starting.                *)
LEMMA LibraryDaemon ==
  ASSUME Tasks, task.kind = "library"
  PROVE  daemon \in {"up", "library"}
<1>1. LibraryTask(task) /\ Runs("library") BY TaskKinds
<1> QED BY <1>1 DEF LibraryTask, Runs

(* A request is looked at.                                                 *)
LEMMA EvaluateKept == ASSUME IInv, Evaluate PROVE IInv'
<1>0. Values /\ Journals /\ Tasks /\ CommitAt /\ DropAt /\ Ledgered /\ LibraryAt
      /\ (OnlyCrashed => Settling)
  BY DEF IInv, Shapes
<1>1. task.kind = "library" /\ task.step = "evaluate" BY DEF Evaluate, InLibrary
<1>2. LibraryTask(task) BY <1>0, <1>1, TaskKinds
<1>3. UNCHANGED <<ask, saved, imported, files, journals, ledger, prepared, evicted, crashes, faults>>
  BY DEF Evaluate
<1>4. library = None /\ ~ task.written BY <1>0, <1>1, <1>2 DEF LibraryAt, LibraryTask
<1>5. Journals' BY <1>0, <1>3, JournalFrame DEF journals
<1>6. Ledgered' BY <1>0, <1>3, LedgerFrame DEF Acks, journals
<1> DEFINE r == task.req
<1> DEFINE Fails == ~ Remembered(r) /\ ask[r].kind = "append"
                    /\ (manual[ask[r].slug] = NoList \/ ask[r].tracks \subseteq manual[ask[r].slug])
<1>7. ASSUME NEW how \in {"done", "failed"}, EndLibrary(how),
             how = "done" \/ ask[task.req].kind = "append"
      PROVE  IInv'
  <2>1. /\ Tasks' /\ CommitAt' /\ DropAt' /\ LibraryAt' /\ revs' \in Registries
        /\ daemon' \in Booting \union {"up", "down"}
        /\ reply' \in [Requests -> {"none", "done", "failed"}]
        /\ (task'.kind = "library" /\ task'.step = "answer") \/ task' = NoTask
        /\ Mirrored => Mirrored'
    BY <1>0, <1>1, <1>3, <1>4, <1>7, LibraryEnded DEF journals
  <2>2. Values' BY <1>0, <1>3, <2>1 DEF Values, files, journals
  <2>3. ASSUME OnlyCrashed' PROVE Settling'
    <3>1. Settling BY <1>0, <1>3, <2>3 DEF OnlyCrashed
    <3>2. Mirrored' BY <2>1, <3>1 DEF Settling
    <3>3. library' = None /\ commit' = commit /\ drop' = drop BY <1>3, <1>4 DEF journals
    <3>4. daemon' # "refused" BY <2>1 DEF Booting
    <3> QED BY <1>0, <1>1, <2>1, <3>1, <3>2, <3>3, <3>4, LibrarySettling, IdleKind
  <2> QED BY <1>5, <1>6, <2>1, <2>2, <2>3 DEF IInv, Shapes
<1>8. CASE To("journal") /\ UNCHANGED <<daemon, revs, reply>> /\ ~ Remembered(r) /\ ~ Fails
  <2>1. /\ task'.kind = "library" /\ DOMAIN task' = DOMAIN task /\ task'.who = task.who
        /\ task'.req = task.req /\ task'.records = task.records /\ task'.written = task.written
        /\ task'.step = "journal"
    BY <1>2, <1>8 DEF To, LibraryTask
  <2>2. task.who = "client" BY <1>1, <1>2 DEF LibraryTask
  <2>3. Tasks' /\ CommitAt' /\ DropAt'
    BY <1>0, <1>1, <1>2, <1>3, <1>8, <2>1, <2>2, LibraryGoesOn DEF LibraryTask
  <2>4. Values' BY <1>0, <1>3, <1>8 DEF Values, files, journals
  <2>5. LibraryAt'
    <3>1. task'.req \notin ToSet(ledger)' BY <1>3, <1>8, <2>1 DEF Remembered
    <3>2. ask'[task'.req].kind = "append" => manual'[ask'[task'.req].slug] # NoList
      BY <1>3, <1>8, <2>1 DEF files
    <3>3. library' = None /\ ~ task'.written BY <1>3, <1>4, <2>1 DEF journals
    <3> QED BY <2>1, <3>1, <3>2, <3>3 DEF LibraryAt
  <2>6. ASSUME OnlyCrashed' PROVE Settling'
    <3>1. Settling BY <1>0, <1>3, <2>6 DEF OnlyCrashed
    <3>2. Mirrored' BY <1>1, <1>3, <1>8, <2>1, <3>1 DEF Settling, Mirrored
    <3>3. daemon' # "refused" BY <1>0, <1>1, <1>8, LibraryDaemon
    <3> QED BY <1>0, <1>1, <1>3, <2>1, <3>1, <3>2, <3>3, LibrarySettling DEF journals
  <2> QED BY <1>5, <1>6, <2>3, <2>4, <2>5, <2>6 DEF IInv, Shapes
<1>9. \/ EndLibrary("done")
      \/ ask[r].kind = "append" /\ EndLibrary("failed")
      \/ To("journal") /\ UNCHANGED <<daemon, revs, reply>> /\ ~ Remembered(r) /\ ~ Fails
  <2>1. CASE Remembered(r) BY <2>1, Zenon DEF Evaluate
  <2>2. CASE ~ Remembered(r) /\ Fails BY <2>2, Zenon DEF Evaluate
  <2>3. CASE ~ Remembered(r) /\ ~ Fails BY <2>3, Zenon DEF Evaluate
  <2> QED BY <2>1, <2>2, <2>3
<1> QED BY <1>7, <1>8, <1>9

(* The answer to a drop on a device.                                       *)
LEMMA RespondKept == ASSUME IInv, Respond PROVE IInv'
<1>0. Values /\ Journals /\ Tasks /\ CommitAt /\ DropAt /\ Ledgered /\ LibraryAt
      /\ (OnlyCrashed => Settling)
  BY DEF IInv, Shapes
<1>1. task.kind = "library" /\ task.step = "answer" BY DEF Respond, InLibrary
<1>2. LibraryTask(task) /\ Runs("library") BY <1>0, <1>1, TaskKinds
<1>3. UNCHANGED <<ask, daemon, registry, files, journals, ledger, prepared, evicted, crashes, faults>>
      /\ task' = NoTask /\ reply' = [reply EXCEPT ![task.req] = "done"]
  BY DEF Respond, Answer
<1>4. CommitAt' /\ DropAt' /\ LibraryAt' /\ Tasks' /\ task'.kind = "idle" BY <1>3, IdleAt
<1>5. reply' \in [Requests -> {"none", "done", "failed"}] BY <1>0, <1>3 DEF Values
<1>6. Values' BY <1>0, <1>3, <1>5 DEF Values, registry, files, journals
<1>7. Journals' BY <1>0, <1>3, JournalFrame DEF journals
<1>8. Ledgered' BY <1>0, <1>3, LedgerFrame DEF Acks, journals
<1>9. ASSUME OnlyCrashed' PROVE Settling'
  <2>1. Settling BY <1>0, <1>3, <1>9 DEF OnlyCrashed, registry
  <2>2. revs = saved BY <1>1, <2>1 DEF Settling, Mirrored
  <2>3. Mirrored' BY <1>3, <2>2 DEF Mirrored, registry
  <2>4. library' = None /\ UNCHANGED <<commit, drop>> BY <1>0, <1>1, <1>3 DEF LibraryAt, journals
  <2>5. daemon' # "refused" BY <1>0, <1>1, <1>3, LibraryDaemon
  <2> QED BY <1>0, <1>1, <1>3, <2>1, <2>3, <2>4, <2>5, LibrarySettling, IdleKind
<1> QED BY <1>4, <1>6, <1>7, <1>8, <1>9 DEF IInv, Shapes

(* A journal of a drop is what its fields are.                             *)
LEMMA LibraryShape ==
  ASSUME NEW j, DOMAIN j = {"req", "phase", "new", "rev"}, j.req \in Requests,
         ask[j.req].kind \in Drops, j.phase \in {"prepared", "payload", "revision", "ledger"},
         j.rev \in Nat, j.new \subseteq Names \union Slugs,
         ask[j.req].kind = "append" => j.new \subseteq Names
  PROVE  IsLibrary(j)
BY DEF IsLibrary

(* What a drop journals.                                                   *)
LEMMA MutationShape ==
  ASSUME Values, Tasks, LibraryAt, task.kind = "library", task.step = "journal"
  PROVE  /\ IsLibrary(Mutation(task.req))
         /\ Mutation(task.req).req = task.req /\ Mutation(task.req).phase = "prepared"
<1> DEFINE r == task.req
<1> DEFINE a == ask[r]
<1> DEFINE m == Mutation(r)
<1>1. LibraryTask(task) BY TaskKinds
<1>2. r \in Requests /\ a.kind \in Drops /\ task.records \in Registries BY <1>1 DEF LibraryTask
<1>3. Wellformed(a) BY <1>2, Asked
<1>4. CASE a.kind = "add"
  <2>1. a.device \in Devices /\ a.rules \subseteq Names BY <1>3, <1>4 DEF Wellformed
  <2>2. config[a.device].selection \subseteq Names \union Slugs
        /\ task.records[a.device].selection \in Nat
    BY <1>2, <2>1 DEF Values, Contents, Registries, Components
  <2> DEFINE now == config[a.device].selection
  <2> DEFINE n == task.records[a.device].selection + IF a.rules \subseteq now THEN 0 ELSE 1
  <2>3. m = [req |-> r, phase |-> "prepared", new |-> now \union a.rules, rev |-> n]
    BY <1>4 DEF Mutation
  <2>4. n \in Nat BY <2>2
  <2>5. now \union a.rules \subseteq Names \union Slugs BY <2>1, <2>2
  <2> HIDE DEF n, m, now
  <2>6. m.req = r /\ m.phase = "prepared" /\ m.rev \in Nat /\ m.new \subseteq Names \union Slugs
        /\ DOMAIN m = {"req", "phase", "new", "rev"}
    BY <2>3, <2>4, <2>5
  <2>7. IsLibrary(m) BY <1>2, <1>4, <2>6, LibraryShape
  <2> QED BY <2>6, <2>7 DEF m
<1>5. CASE a.kind = "append"
  <2>1. a.slug \in Slugs /\ a.tracks \subseteq Names BY <1>3, <1>5 DEF Wellformed
  <2>2. manual[a.slug] \subseteq Names /\ listRev[a.slug] \in Nat
    BY <1>5, <2>1 DEF LibraryAt, Values, Listed
  <2>3. m = [req |-> r, phase |-> "prepared", new |-> manual[a.slug] \union a.tracks,
             rev |-> listRev[a.slug] + 1]
    BY <1>5 DEF Mutation
  <2>4. manual[a.slug] \union a.tracks \subseteq Names BY <2>1, <2>2
  <2> HIDE DEF m
  <2>5. m.req = r /\ m.phase = "prepared" /\ m.rev \in Nat /\ m.new \subseteq Names
        /\ DOMAIN m = {"req", "phase", "new", "rev"}
    BY <2>2, <2>3, <2>4
  <2>6. IsLibrary(m) BY <1>2, <2>5, LibraryShape
  <2> QED BY <2>5, <2>6 DEF m
<1> QED BY <1>2, <1>4, <1>5 DEF Drops

(* The mutation is journalled, once unless the ledger has forgotten it.    *)
LEMMA JournalMutationKept == ASSUME IInv, JournalMutation PROVE IInv'
<1>0. Values /\ Journals /\ Tasks /\ CommitAt /\ DropAt /\ Ledgered /\ LibraryAt
      /\ (OnlyCrashed => Settling)
  BY DEF IInv, Shapes
<1>1. task.kind = "library" /\ task.step = "journal" BY DEF JournalMutation, InLibrary
<1>2. LibraryTask(task) BY <1>0, <1>1, TaskKinds
<1>3. UNCHANGED <<ask, saved, imported, files, commit, drop, staged, ledger, evicted, crashes>>
  BY DEF JournalMutation
<1> DEFINE r == task.req
<1>4. CASE Failed /\ EndLibrary("failed") /\ UNCHANGED <<library, prepared>>
  BY <1>1, <1>3, <1>4, LibraryStops DEF journals
<1>5. CASE /\ Landed /\ library' = Mutation(r) /\ prepared' = [prepared EXCEPT ![r] = @ + 1]
           /\ To("forward") /\ UNCHANGED <<daemon, revs, reply>>
  <2>1. /\ task'.kind = "library" /\ DOMAIN task' = DOMAIN task /\ task'.who = task.who
        /\ task'.req = r /\ task'.records = task.records /\ task'.written = task.written
        /\ task'.step = "forward"
    BY <1>2, <1>5 DEF To, LibraryTask
  <2>2. task.who = "client" /\ r \in Requests BY <1>1, <1>2 DEF LibraryTask
  <2>3. Tasks' /\ CommitAt' /\ DropAt'
    BY <1>0, <1>1, <1>2, <1>3, <1>5, <2>1, <2>2, LibraryGoesOn DEF LibraryTask
  <2>4. prepared' \in [Requests -> Nat] /\ prepared'[r] = prepared[r] + 1
        /\ \A q \in Requests : q # r => prepared'[q] = prepared[q]
    BY <1>0, <1>5, <2>2 DEF Values
  <2>5. Values' BY <1>0, <1>3, <1>5, <2>4 DEF Values, Landed, files
  <2>6. IsLibrary(library') /\ library'.req = r /\ library'.phase = "prepared"
    BY <1>0, <1>1, <1>5, MutationShape
  <2>7. library' # None BY <2>6, JournalsDiffer
  <2>8. Journals' BY <1>0, <1>3, <2>6 DEF Journals, IsCommit, IsDrop, IsLibrary
  <2>9. library = None /\ r \notin ToSet(ledger) /\ ~ task.written BY <1>0, <1>1 DEF LibraryAt
  <2>10. Ledgered'
    <3>1. Unique' /\ Within'
      BY <1>0, <1>3 DEF Ledgered, Unique, Within, Entries, Target
    <3>2. Known' = Known BY <1>3 DEF Known
    <3>3. Recorded' BY <1>0, <2>4, <2>6, <2>7, <2>9, <3>2 DEF Ledgered, Recorded
    <3>4. prepared[r] = 0 \/ r \in evicted
      <4>1. prepared[r] > 0 => r \in Known BY <1>0, <2>2, <2>9 DEF Ledgered, Recorded
      <4>2. prepared[r] \in Nat BY <1>0, <2>2 DEF Values
      <4> QED BY <2>9, <4>1, <4>2 DEF Known
    <3>5. AppliedOnce' BY <1>0, <1>3, <2>4, <3>4 DEF Ledgered, AppliedOnce
    <3> QED BY <2>6, <3>1, <3>3, <3>5 DEF Ledgered
  <2>11. LibraryAt' BY <2>1, <2>6, <2>7, <2>9 DEF LibraryAt
  <2>12. ASSUME OnlyCrashed' PROVE Settling'
    <3>1. Settling BY <1>0, <1>3, <1>5, <2>12 DEF OnlyCrashed, Landed
    <3>2. Mirrored' BY <1>1, <1>3, <1>5, <2>1, <3>1 DEF Settling, Mirrored
    <3>3. daemon' # "refused" BY <1>0, <1>1, <1>5, LibraryDaemon
    <3> QED BY <1>0, <1>1, <1>3, <2>1, <3>1, <3>2, <3>3, LibrarySettling
  <2> QED BY <2>3, <2>5, <2>8, <2>10, <2>11, <2>12 DEF IInv, Shapes
<1> QED BY <1>4, <1>5 DEF JournalMutation

(* A phase is written down.                                                *)
LEMMA RollMarkKept == ASSUME IInv, RollMark PROVE IInv'
<1>0. Values /\ Journals /\ Tasks /\ CommitAt /\ DropAt /\ Ledgered /\ LibraryAt
      /\ (OnlyCrashed => Settling)
  BY DEF IInv, Shapes
<1>1. task.kind = "library" /\ task.step \in {"recover", "forward"} /\ task.written
  BY DEF RollMark, Rolling
<1>2. LibraryTask(task) BY <1>0, <1>1, TaskKinds
<1>3. UNCHANGED <<ask, saved, imported, files, commit, drop, staged, ledger, prepared, evicted, crashes>>
  BY DEF RollMark
<1>4. CASE Failed /\ EndLibrary("failed") /\ UNCHANGED library
  BY <1>1, <1>3, <1>4, LibraryStops DEF journals
<1>5. CASE /\ Landed /\ library' = [library EXCEPT !.phase = NextPhase[@]]
           /\ task' = [task EXCEPT !.written = FALSE] /\ UNCHANGED <<daemon, revs, reply>>
  <2>1. /\ task'.kind = "library" /\ DOMAIN task' = DOMAIN task /\ task'.who = task.who
        /\ task'.req = task.req /\ task'.records = task.records /\ task'.written = FALSE
        /\ task'.step = task.step
    BY <1>2, <1>5 DEF LibraryTask
  <2>3. Tasks' /\ CommitAt' /\ DropAt'
    BY <1>0, <1>1, <1>2, <1>3, <1>5, <2>1, LibraryGoesOn DEF LibraryTask
  <2>4. Values' BY <1>0, <1>3, <1>5 DEF Values, Landed, files
  <2>5. /\ library # None /\ library.phase # "ledger" /\ IsLibrary(library)
        /\ task.step = "forward" => library.req = task.req
        /\ library.phase = "revision" => library.req \in Known
    BY <1>0, <1>1 DEF LibraryAt, Journals
  <2>6. /\ DOMAIN library' = DOMAIN library /\ library'.req = library.req /\ library'.new = library.new
        /\ library'.rev = library.rev
        /\ library'.phase \in {"payload", "revision", "ledger"}
        /\ library'.phase = "ledger" => library.phase = "revision"
    BY <1>5, <2>5 DEF IsLibrary, NextPhase
  <2>7. IsLibrary(library') BY <2>5, <2>6 DEF IsLibrary
  <2>8. library' # None BY <2>7, JournalsDiffer
  <2>9. Journals' BY <1>0, <1>3, <2>7 DEF Journals, IsCommit, IsDrop, IsLibrary
  <2>10. Ledgered'
    <3>1. Unique' /\ Within'
      BY <1>0, <1>3 DEF Ledgered, Unique, Within, Entries, Target
    <3>2. Known' = Known BY <1>3 DEF Known
    <3>3. Recorded' BY <1>0, <1>3, <2>5, <2>6, <2>8, <3>2 DEF Ledgered, Recorded
    <3>4. AppliedOnce' BY <1>0, <1>3 DEF Ledgered, AppliedOnce
    <3> QED BY <2>5, <2>6, <3>1, <3>2, <3>3, <3>4 DEF Ledgered
  <2>11. LibraryAt' BY <1>1, <2>1, <2>5, <2>6, <2>8 DEF LibraryAt
  <2>12. ASSUME OnlyCrashed' PROVE Settling'
    <3>1. Settling BY <1>0, <1>3, <1>5, <2>12 DEF OnlyCrashed, Landed
    <3>2. Mirrored' BY <1>1, <1>3, <1>5, <2>1, <3>1 DEF Settling, Mirrored
    <3>3. daemon' # "refused" BY <1>0, <1>1, <1>5, LibraryDaemon
    <3> QED BY <1>0, <1>1, <1>3, <2>1, <3>1, <3>2, <3>3, LibrarySettling
  <2> QED BY <2>3, <2>4, <2>9, <2>10, <2>11, <2>12 DEF IInv, Shapes
<1> QED BY <1>4, <1>5 DEF RollMark

(* The journal goes: what it named is in the ledger.                       *)
LEMMA RollDoneKept == ASSUME IInv, RollDone PROVE IInv'
<1>0. Values /\ Journals /\ Tasks /\ CommitAt /\ DropAt /\ Ledgered /\ LibraryAt
      /\ (OnlyCrashed => Settling)
  BY DEF IInv, Shapes
<1>1. task.kind = "library" /\ task.step \in {"recover", "forward"} /\ library.phase = "ledger"
  BY DEF RollDone, Rolling
<1>2. LibraryTask(task) BY <1>0, <1>1, TaskKinds
<1>3. UNCHANGED <<ask, saved, imported, files, commit, drop, staged, ledger, prepared, evicted, crashes>>
  BY DEF RollDone
<1>4. CASE Failed /\ EndLibrary("failed") /\ UNCHANGED library
  BY <1>1, <1>3, <1>4, LibraryStops DEF journals
<1>5. library # None /\ ~ task.written /\ library.req \in Known
  BY <1>0, <1>1, <1>2 DEF LibraryAt, LibraryTask, Ledgered
<1>6. ASSUME Landed, library' = None
      PROVE  /\ Journals' /\ Ledgered'
  <2>1. Journals' BY <1>0, <1>3, <1>6 DEF Journals, IsCommit, IsDrop
  <2>2. Unique' /\ Within' BY <1>0, <1>3 DEF Ledgered, Unique, Within, Entries, Target
  <2>3. Known' = Known BY <1>3 DEF Known
  <2>4. Recorded' BY <1>0, <1>3, <1>5, <2>3 DEF Ledgered, Recorded
  <2>5. AppliedOnce' BY <1>0, <1>3 DEF Ledgered, AppliedOnce
  <2> QED BY <1>6, <2>1, <2>2, <2>4, <2>5 DEF Ledgered
<1>7. CASE /\ Landed /\ library' = None /\ task.step = "recover" /\ task.who = "client"
           /\ To("evaluate") /\ UNCHANGED <<daemon, revs, reply>>
  <2>1. /\ task'.kind = "library" /\ DOMAIN task' = DOMAIN task /\ task'.who = task.who
        /\ task'.req = task.req /\ task'.records = task.records /\ task'.written = task.written
        /\ task'.step = "evaluate"
    BY <1>2, <1>7 DEF LibraryTask, To
  <2>2. Tasks' /\ CommitAt' /\ DropAt'
    BY <1>0, <1>1, <1>2, <1>3, <1>7, <2>1, LibraryGoesOn DEF LibraryTask
  <2>3. Values' BY <1>0, <1>3, <1>7 DEF Values, Landed, files
  <2>4. LibraryAt' BY <1>5, <1>7, <2>1 DEF LibraryAt
  <2>5. ASSUME OnlyCrashed' PROVE Settling'
    <3>1. Settling BY <1>0, <1>3, <1>7, <2>5 DEF OnlyCrashed, Landed
    <3>2. Mirrored' BY <1>1, <1>3, <1>7, <2>1, <3>1 DEF Settling, Mirrored
    <3>3. daemon' # "refused" BY <1>0, <1>1, <1>7, LibraryDaemon
    <3> QED BY <1>0, <1>1, <1>3, <2>1, <3>1, <3>2, <3>3, LibrarySettling
  <2> QED BY <1>6, <1>7, <2>2, <2>3, <2>4, <2>5 DEF IInv, Shapes
<1>8. CASE Landed /\ library' = None /\ EndLibrary("done")
  <2>1. /\ Tasks' /\ CommitAt' /\ DropAt' /\ LibraryAt' /\ revs' \in Registries
        /\ daemon' \in Booting \union {"up", "down"}
        /\ reply' \in [Requests -> {"none", "done", "failed"}]
        /\ (task'.kind = "library" /\ task'.step = "answer") \/ task' = NoTask
        /\ Mirrored => Mirrored'
    BY <1>0, <1>1, <1>3, <1>5, <1>8, LibraryEnded
  <2>2. Values' BY <1>0, <1>3, <1>8, <2>1 DEF Values, Landed, files
  <2>3. ASSUME OnlyCrashed' PROVE Settling'
    <3>1. Settling BY <1>0, <1>3, <1>8, <2>3 DEF OnlyCrashed, Landed
    <3>2. Mirrored' BY <2>1, <3>1 DEF Settling
    <3>4. daemon' # "refused" BY <2>1 DEF Booting
    <3> QED BY <1>0, <1>1, <1>3, <1>8, <2>1, <3>1, <3>2, <3>4, LibrarySettling, IdleKind
  <2> QED BY <1>6, <1>8, <2>1, <2>2, <2>3 DEF IInv, Shapes
<1> QED BY <1>4, <1>7, <1>8 DEF RollDone

(* The task whose write has landed.                                        *)
LEMMA WrittenGoesOn ==
  ASSUME Tasks, LibraryAt, Rolling, UNCHANGED <<ask, daemon>>,
         task'.kind = "library", DOMAIN task' = DOMAIN task, task'.who = task.who,
         task'.req = task.req, task'.records \in Registries, task'.written = TRUE,
         task'.step = task.step,
         UNCHANGED library, library.phase # "ledger",
         library.phase = "revision" => library.req \in Known'
  PROVE  Tasks' /\ CommitAt' /\ DropAt' /\ LibraryAt'
<1>1. task.kind = "library" /\ task.step \in {"recover", "forward"} BY DEF Rolling
<1>2. Tasks' /\ CommitAt' /\ DropAt' BY <1>1, LibraryGoesOn
<1>3. LibraryAt' BY <1>1 DEF LibraryAt
<1> QED BY <1>2, <1>3

(* What is about to be written.                                            *)
LEMMA Pending ==
  ASSUME Values, Journals, Tasks, LibraryAt, Rolling, ~ task.written
  PROVE  /\ task.kind = "library" /\ task.step \in {"recover", "forward"}
         /\ library # None /\ IsLibrary(library) /\ task.records \in Registries
         /\ ask[library.req].kind = "add" => ask[library.req].device \in Devices
         /\ ask[library.req].kind # "add" =>
              /\ ask[library.req].slug \in Slugs /\ library.new \subseteq Names
<1>1. task.kind = "library" /\ task.step \in {"recover", "forward"} BY DEF Rolling
<1>2. LibraryTask(task) BY <1>1, TaskKinds
<1>3. library # None /\ IsLibrary(library) BY <1>1 DEF LibraryAt, Journals
<1>4. library.req \in Requests /\ ask[library.req].kind \in Drops BY <1>3 DEF IsLibrary
<1>5. Wellformed(ask[library.req]) BY <1>4, Asked
<1>6. ask[library.req].kind = "append" => library.new \subseteq Names BY <1>3 DEF IsLibrary
<1> QED BY <1>1, <1>2, <1>3, <1>4, <1>5, <1>6 DEF LibraryTask, Wellformed, Drops

(* A landed write of a drop, once its effect on the values is known.       *)
LEMMA WriteLanded ==
  ASSUME IInv, Rolling, ~ task.written, Landed, library.phase # "ledger",
         UNCHANGED <<ask, daemon, revs, imported, smart, journals, prepared, reply, crashes>>,
         saved' \in Registries, config' \in [Devices -> [Components -> Contents]],
         DOMAIN manual' = Slugs, \A s \in Slugs : Listed(manual'[s]),
         listRev' \in [Slugs -> Nat], ledger' \in Seq(Requests), evicted' \subseteq Requests,
         Ledgered', library.phase = "revision" => library.req \in Known',
         task'.kind = "library", DOMAIN task' = DOMAIN task, task'.who = task.who,
         task'.req = task.req, task'.records \in Registries, task'.written = TRUE,
         task'.step = task.step,
         saved' = saved \/ ask[library.req].kind = "add"
  PROVE  IInv'
<1>0. Values /\ Journals /\ Tasks /\ CommitAt /\ DropAt /\ Ledgered /\ LibraryAt
      /\ (OnlyCrashed => Settling)
  BY DEF IInv, Shapes
<1>1. task.kind = "library" /\ task.step \in {"recover", "forward"} BY DEF Rolling
<1>2. LibraryTask(task) /\ library # None /\ (task.step = "forward" => library.req = task.req)
  BY <1>0, <1>1, TaskKinds DEF LibraryAt
<1>3. Tasks' /\ CommitAt' /\ DropAt' /\ LibraryAt' BY <1>0, WrittenGoesOn DEF journals
<1>4. Values' BY <1>0 DEF Values, Landed, journals
<1>5. Journals' BY <1>0, JournalFrame DEF journals
<1>6. ASSUME OnlyCrashed' PROVE Settling'
  <2>1. Settling BY <1>0, <1>6 DEF OnlyCrashed, Landed
  <2>2. Mirrored' BY <1>1, <1>2, <2>1 DEF Settling, Mirrored, OneJournal
  <2>3. daemon' # "refused" BY <1>0, <1>1, LibraryDaemon
  <2> QED BY <1>0, <1>1, <2>1, <2>2, <2>3, LibrarySettling DEF journals
<1> QED BY <1>3, <1>4, <1>5, <1>6 DEF IInv, Shapes

(* What a rolling write always leaves alone.                               *)
RollFrame ==
  /\ Rolling /\ ~ task.written /\ Landed
  /\ UNCHANGED <<ask, daemon, revs, imported, smart, journals, prepared, reply, crashes>>

(* The payload lands.                                                      *)
LEMMA WritePayloadKept == ASSUME IInv, RollFrame, WritePayload PROVE IInv'
<1>0. Values /\ Journals /\ Tasks /\ Ledgered /\ LibraryAt
  BY DEF IInv, Shapes
<1>1. Rolling /\ ~ task.written /\ Landed
      /\ UNCHANGED <<ask, daemon, revs, imported, smart, journals, prepared, reply, crashes>>
  BY DEF RollFrame
<1>2. library.phase = "prepared" /\ task' = [task EXCEPT !.written = TRUE]
      /\ UNCHANGED <<saved, listRev, ledger, evicted>>
  BY DEF WritePayload
<1>3. /\ task.kind = "library" /\ library # None /\ IsLibrary(library)
      /\ ask[library.req].kind = "add" => ask[library.req].device \in Devices
      /\ ask[library.req].kind # "add" =>
           ask[library.req].slug \in Slugs /\ library.new \subseteq Names
  BY <1>0, <1>1, Pending
<1>4. LibraryTask(task) BY <1>0, <1>3, TaskKinds
<1>5. /\ task'.kind = "library" /\ DOMAIN task' = DOMAIN task /\ task'.who = task.who
      /\ task'.req = task.req /\ task'.records \in Registries /\ task'.written = TRUE
      /\ task'.step = task.step
  BY <1>2, <1>4 DEF LibraryTask
<1>6. library.new \subseteq Names \union Slugs BY <1>3 DEF IsLibrary
<1>7. /\ config' \in [Devices -> [Components -> Contents]]
      /\ DOMAIN manual' = Slugs /\ \A s \in Slugs : Listed(manual'[s])
  <2> DEFINE a == ask[library.req]
  <2>1. CASE a.kind = "add"
    <3>1. config' = [config EXCEPT ![a.device].selection = library.new] /\ manual' = manual
      BY <2>1 DEF WritePayload
    <3>2. "selection" \in Components /\ a.device \in Devices /\ library.new \in Contents
      BY <1>3, <1>6, <2>1 DEF Components, Contents
    <3>3. config \in [Devices -> [Components -> Contents]] BY <1>0 DEF Values
    <3> HIDE DEF a
    <3>4. config' \in [Devices -> [Components -> Contents]] BY <3>1, <3>2, <3>3
    <3> QED BY <1>0, <3>1, <3>4 DEF Values
  <2>2. CASE a.kind # "add"
    <3>1. manual' = [manual EXCEPT ![a.slug] = library.new] /\ config' = config
      BY <2>2 DEF WritePayload
    <3>2. a.slug \in Slugs /\ Listed(library.new) BY <1>3, <2>2 DEF Listed
    <3>3. DOMAIN manual = Slugs /\ \A s \in Slugs : Listed(manual[s]) BY <1>0 DEF Values
    <3> HIDE DEF a
    <3>4. \A s \in Slugs : manual'[s] = IF s = a.slug THEN library.new ELSE manual[s]
      BY <3>1, <3>3
    <3>5. DOMAIN manual' = Slugs BY <3>1, <3>3
    <3>6. \A s \in Slugs : Listed(manual'[s])
      <4> TAKE s \in Slugs
      <4>1. CASE s = a.slug BY <3>2, <3>4, <4>1
      <4>2. CASE s # a.slug BY <3>3, <3>4, <4>2
      <4> QED BY <4>1, <4>2
    <3> QED BY <1>0, <3>1, <3>5, <3>6 DEF Values
  <2> QED BY <2>1, <2>2
<1>8. Ledgered' BY <1>0, <1>1, <1>2, LedgerFrame DEF Acks, journals
<1>9. /\ saved' \in Registries /\ listRev' \in [Slugs -> Nat] /\ ledger' \in Seq(Requests)
      /\ evicted' \subseteq Requests
  BY <1>0, <1>2 DEF Values
<1> QED BY <1>1, <1>2, <1>5, <1>7, <1>8, <1>9, WriteLanded

(* The revision lands.                                                     *)
LEMMA WriteRevisionKept == ASSUME IInv, RollFrame, WriteRevision PROVE IInv'
<1>0. Values /\ Journals /\ Tasks /\ Ledgered /\ LibraryAt
  BY DEF IInv, Shapes
<1>1. Rolling /\ ~ task.written /\ Landed
      /\ UNCHANGED <<ask, daemon, revs, imported, smart, journals, prepared, reply, crashes>>
  BY DEF RollFrame
<1> DEFINE a == ask[library.req]
<1>2. library.phase = "payload" /\ UNCHANGED <<config, manual, ledger, evicted>>
  BY DEF WriteRevision
<1>3. /\ task.kind = "library" /\ library # None /\ IsLibrary(library) /\ task.records \in Registries
      /\ a.kind = "add" => a.device \in Devices
      /\ a.kind # "add" => a.slug \in Slugs
  BY <1>0, <1>1, Pending
<1>4. LibraryTask(task) BY <1>0, <1>3, TaskKinds
<1>5. library.rev \in Nat BY <1>3 DEF IsLibrary
<1>6. Ledgered' BY <1>0, <1>1, <1>2, LedgerFrame DEF Acks, journals
<1>7. /\ config' \in [Devices -> [Components -> Contents]]
      /\ DOMAIN manual' = Slugs /\ \A s \in Slugs : Listed(manual'[s])
      /\ ledger' \in Seq(Requests) /\ evicted' \subseteq Requests
  BY <1>0, <1>2 DEF Values
<1>8. CASE a.kind = "add"
  <2> DEFINE next == [task.records EXCEPT ![a.device].selection = library.rev]
  <2>1. /\ saved' = Persist(next, imported)
        /\ task' = [task EXCEPT !.written = TRUE, !.records = next] /\ listRev' = listRev
    BY <1>8 DEF WriteRevision
  <2>2. next \in Registries
    <3>1. "selection" \in Components BY DEF Components
    <3> QED BY <1>3, <1>5, <1>8, <3>1 DEF Registries
  <2> HIDE DEF next
  <2>3. saved' \in Registries BY <1>0, <2>1, <2>2, Persisted DEF Values
  <2>4. /\ task'.kind = "library" /\ DOMAIN task' = DOMAIN task /\ task'.who = task.who
        /\ task'.req = task.req /\ task'.records \in Registries /\ task'.written = TRUE
        /\ task'.step = task.step
    BY <1>4, <2>1, <2>2 DEF LibraryTask
  <2>5. listRev' \in [Slugs -> Nat] BY <1>0, <2>1 DEF Values
  <2> QED BY <1>1, <1>2, <1>6, <1>7, <1>8, <2>3, <2>4, <2>5, WriteLanded
<1>9. CASE a.kind # "add"
  <2>1. /\ listRev' = [listRev EXCEPT ![a.slug] = library.rev]
        /\ task' = [task EXCEPT !.written = TRUE] /\ saved' = saved
    BY <1>9 DEF WriteRevision
  <2>2. /\ task'.kind = "library" /\ DOMAIN task' = DOMAIN task /\ task'.who = task.who
        /\ task'.req = task.req /\ task'.records \in Registries /\ task'.written = TRUE
        /\ task'.step = task.step
    BY <1>4, <2>1 DEF LibraryTask
  <2>3. saved' \in Registries /\ listRev' \in [Slugs -> Nat]
    BY <1>0, <1>3, <1>5, <1>9, <2>1 DEF Values
  <2> QED BY <1>1, <1>2, <1>6, <1>7, <2>1, <2>2, <2>3, WriteLanded
<1> QED BY <1>8, <1>9

(* The acknowledgement lands.                                              *)
LEMMA WriteLedgerKept == ASSUME IInv, RollFrame, WriteLedger PROVE IInv'
<1>0. Values /\ Journals /\ Tasks /\ Ledgered /\ LibraryAt
  BY DEF IInv, Shapes
<1>1. Rolling /\ ~ task.written /\ Landed
      /\ UNCHANGED <<ask, daemon, revs, imported, smart, journals, prepared, reply, crashes>>
  BY DEF RollFrame
<1>2. /\ library.phase = "revision" /\ ledger' = Acknowledged
      /\ evicted' = evicted \union (ToSet(ledger) \ ToSet(Acknowledged))
      /\ task' = [task EXCEPT !.written = TRUE] /\ UNCHANGED <<config, manual, saved, listRev>>
  BY DEF WriteLedger
<1>3. task.kind = "library" /\ library # None BY <1>0, <1>1, Pending
<1>4. LibraryTask(task) BY <1>0, <1>3, TaskKinds
<1>5. /\ task'.kind = "library" /\ DOMAIN task' = DOMAIN task /\ task'.who = task.who
      /\ task'.req = task.req /\ task'.records \in Registries /\ task'.written = TRUE
      /\ task'.step = task.step
  BY <1>2, <1>4 DEF LibraryTask
<1>6. /\ ledger' \in Seq(Requests) /\ evicted' \subseteq Requests
      /\ Ledgered' /\ library.req \in Known'
  <2>1. library.phase # "ledger" /\ UNCHANGED <<ask, library, prepared>> BY <1>1, <1>2 DEF journals
  <2> QED BY <1>0, <1>2, <1>3, <2>1, AcknowledgedKeeps
<1>7. /\ saved' \in Registries /\ config' \in [Devices -> [Components -> Contents]]
      /\ DOMAIN manual' = Slugs /\ \A s \in Slugs : Listed(manual'[s])
      /\ listRev' \in [Slugs -> Nat]
  BY <1>0, <1>2 DEF Values
<1> QED BY <1>1, <1>2, <1>5, <1>6, <1>7, WriteLanded

(* Each phase's write, or its failure.                                     *)
LEMMA RollWriteKept == ASSUME IInv, RollWrite PROVE IInv'
<1>1. Rolling /\ ~ task.written /\ UNCHANGED <<ask, imported, smart, journals, prepared, crashes>>
  BY DEF RollWrite
<1>2. CASE Failed /\ EndLibrary("failed") /\ UNCHANGED <<config, manual, saved, listRev, ledger, evicted>>
  <2>1. task.kind = "library" BY <1>1 DEF Rolling
  <2> QED BY <1>1, <1>2, <2>1, LibraryStops DEF files
<1>3. CASE /\ Landed
           /\ WritePayload \/ WriteRevision \/ WriteLedger
           /\ UNCHANGED <<daemon, revs, reply>>
  <2>1. RollFrame BY <1>1, <1>3 DEF RollFrame
  <2> QED BY <1>3, <2>1, WritePayloadKept, WriteRevisionKept, WriteLedgerKept
<1> QED BY <1>2, <1>3 DEF RollWrite

(* A library drop keeps the invariant at every step.                       *)
LEMMA LibraryStepKept == ASSUME IInv, LibraryStep PROVE IInv'
BY EvaluateKept, JournalMutationKept, RollWriteKept, RollMarkKept, RollDoneKept, RespondKept
   DEF LibraryStep

-----------------------------------------------------------------------------
(* A playlist save, and the commands.                                        *)

(* A playlist is saved.                                                    *)
LEMMA SaveStepKept == ASSUME IInv, SaveStep PROVE IInv'
<1>0. Values /\ Journals /\ Tasks /\ CommitAt /\ DropAt /\ Ledgered /\ LibraryAt
      /\ (OnlyCrashed => Settling)
  BY DEF IInv, Shapes
<1>1. task.kind = "save"
      /\ UNCHANGED <<ask, daemon, registry, config, listRev, journals, ledger, prepared, evicted, crashes>>
  BY DEF SaveStep
<1>2. SaveTask(task) /\ daemon = "up" BY <1>0, <1>1, TaskKinds
<1> DEFINE a == ask[task.req]
<1>3. a.slug \in Slugs /\ (a.tracks # Smart => Listed(a.tracks)) /\ task.req \in Requests
  <2>1. Wellformed(a) /\ a.kind = "save" /\ task.req \in Requests BY <1>0, <1>2, Asked DEF SaveTask
  <2> HIDE DEF a
  <2> QED BY <2>1 DEF Wellformed, Listed
<1>4. DOMAIN manual = Slugs /\ smart \subseteq Slugs /\ \A s \in Slugs : Listed(manual[s])
  BY <1>0 DEF Values
<1>5. Journals' BY <1>0, <1>1, JournalFrame DEF journals
<1>6. Ledgered' BY <1>0, <1>1, LedgerFrame DEF Acks, journals
<1>7. ASSUME DOMAIN manual' = Slugs, smart' \subseteq Slugs, \A s \in Slugs : Listed(manual'[s]),
             \/ Landed
             \/ Failed,
             \/ \E to \in {"other", "saved"} : To(to) /\ UNCHANGED reply
             \/ \E how \in {"done", "failed"} : Answer(task.req, how)
      PROVE  IInv'
  <2>1. faults' \in Nat /\ faults' <= MaxFaults(ask)' /\ (OnlyCrashed' => faults' = faults)
    <3>1. CASE Failed BY <1>0, <1>1, <3>1, Faulted
    <3>2. CASE Landed BY <1>0, <1>1, <3>2 DEF Values, Landed
    <3> QED BY <1>7, <3>1, <3>2
  <2>2. /\ Tasks' /\ reply' \in [Requests -> {"none", "done", "failed"}]
        /\ task'.kind \in {"save", "idle"}
    <3>1. ASSUME NEW to \in {"other", "saved"}, To(to), UNCHANGED reply
          PROVE  Tasks' /\ reply' \in [Requests -> {"none", "done", "failed"}] /\ task'.kind = "save"
      <4>1. /\ task'.kind = "save" /\ task'.req = task.req /\ DOMAIN task' = DOMAIN task
            /\ task'.step = to
        BY <1>2, <3>1 DEF To, SaveTask
      <4>2. SaveTask(task)' BY <1>1, <1>2, <4>1 DEF SaveTask
      <4> QED BY <1>0, <1>1, <1>2, <3>1, <4>1, <4>2 DEF Tasks, Values
    <3>2. ASSUME NEW how \in {"done", "failed"}, Answer(task.req, how)
          PROVE  Tasks' /\ reply' \in [Requests -> {"none", "done", "failed"}] /\ task'.kind = "idle"
      <4>1. task' = NoTask /\ reply' = [reply EXCEPT ![task.req] = how] BY <3>2 DEF Answer
      <4>2. reply' \in [Requests -> {"none", "done", "failed"}] BY <1>0, <4>1 DEF Values
      <4> QED BY <4>1, <4>2, IdleAt
    <3> QED BY <1>7, <3>1, <3>2
  <2>3. CommitAt' /\ DropAt' /\ LibraryAt' BY <2>2, OthersAt
  <2>4. Values' BY <1>0, <1>1, <1>7, <2>1, <2>2 DEF Values, registry, journals
  <2>5. ASSUME OnlyCrashed' PROVE Settling'
    <3>1. Settling BY <1>0, <1>1, <2>1, <2>5 DEF OnlyCrashed, registry
    <3>2. commit' = None /\ drop' = None /\ library' = None /\ daemon' = "up"
      BY <1>1, <1>2, <3>1 DEF Settling, OneJournal, journals
    <3>3. Mirrored' BY <1>1, <3>1 DEF Settling, Mirrored, registry
    <3> QED BY <2>2, <3>2, <3>3, NothingPending
  <2> QED BY <1>5, <1>6, <2>2, <2>3, <2>4, <2>5 DEF IInv, Shapes
<1>8. CASE task.step = "write"
  <2>1. \/ /\ Landed
           /\ IF a.tracks = Smart
              THEN smart' = smart \union {a.slug} /\ UNCHANGED manual
              ELSE manual' = [manual EXCEPT ![a.slug] = a.tracks] /\ UNCHANGED smart
           /\ To("other") /\ UNCHANGED reply
        \/ Failed /\ Answer(task.req, "failed") /\ UNCHANGED <<manual, smart>>
    BY <1>8, Zenon DEF SaveStep
  <2> HIDE DEF a
  <2>2. DOMAIN manual' = Slugs /\ smart' \subseteq Slugs /\ \A s \in Slugs : Listed(manual'[s])
    BY <1>3, <1>4, <2>1
  <2> QED BY <1>7, <2>1, <2>2
<1>9. CASE task.step = "other"
  <2>1. \/ /\ Landed
           /\ IF a.tracks = Smart
              THEN manual' = [manual EXCEPT ![a.slug] = NoList] /\ UNCHANGED smart
              ELSE smart' = smart \ {a.slug} /\ UNCHANGED manual
           /\ To("saved") /\ UNCHANGED reply
        \/ Failed /\ Answer(task.req, "failed") /\ UNCHANGED <<manual, smart>>
    <3>1. task.step # "write" BY <1>9
    <3> QED BY <1>9, <3>1, Zenon DEF SaveStep
  <2> HIDE DEF a
  <2>2. Listed(NoList) BY DEF Listed
  <2>3. DOMAIN manual' = Slugs /\ smart' \subseteq Slugs /\ \A s \in Slugs : Listed(manual'[s])
    BY <1>3, <1>4, <2>1, <2>2
  <2> QED BY <1>7, <2>1, <2>3
<1>10. CASE task.step = "saved"
  <2>1. Answer(task.req, "done") /\ Landed /\ UNCHANGED <<manual, smart>>
    <3>1. task.step # "write" /\ task.step # "other" BY <1>10
    <3> QED BY <1>10, <3>1, Zenon DEF SaveStep
  <2> QED BY <1>4, <1>7, <2>1
<1> QED BY <1>2, <1>8, <1>9, <1>10 DEF SaveTask

(* An idle daemon has no journal to settle.                                *)
LEMMA NothingLeft ==
  ASSUME Settling, Idle
  PROVE  commit = None /\ drop = None /\ library = None /\ revs = saved
BY IdleKind DEF Settling, OneJournal, Mirrored, Idle

(* A command starts its task, or is answered at once.                      *)
LEMMA Begun ==
  ASSUME IInv, Idle,
         UNCHANGED <<ask, daemon, registry, files, journals, ledger, prepared, evicted, crashes, faults>>,
         reply' \in [Requests -> {"none", "done", "failed"}],
         Tasks', CommitAt', DropAt', LibraryAt',
         task'.kind = "config" => task'.step = "journal",
         task'.kind = "delete" => task'.step = "stage",
         task'.kind = "library" => library # None \/ task'.step = "evaluate"
  PROVE  IInv'
<1>0. Values /\ Journals /\ Ledgered /\ (OnlyCrashed => Settling)
  BY DEF IInv, Shapes
<1>1. Values' BY <1>0 DEF Values, registry, files, journals
<1>2. Journals' BY <1>0, JournalFrame DEF journals
<1>3. Ledgered' BY <1>0, LedgerFrame DEF Acks, journals
<1>4. ASSUME OnlyCrashed' PROVE Settling'
  <2>1. Settling BY <1>0, <1>4 DEF OnlyCrashed, registry
  <2>2. commit' = None /\ drop' = None /\ library' = None /\ revs' = saved' /\ library = None
    BY <2>1, NothingLeft DEF journals, registry
  <2>3. daemon' # "refused" BY DEF Idle
  <2>4. Mirrored' BY <2>2 DEF Mirrored
  <2> QED BY <2>2, <2>3, <2>4, NothingPending
<1> QED BY <1>1, <1>2, <1>3, <1>4 DEF IInv, Shapes

(* The task of a configuration commit, as it begins.                       *)
LEMMA CommitBegun ==
  ASSUME NEW who \in {"client", "repair"}, NEW r, NEW d \in Devices,
         NEW edit, Edits(edit), DOMAIN edit # {},
         task' = CommitTask(who, r, d, edit), UNCHANGED daemon,
         daemon = IF who = "client" THEN "up" ELSE "reconcile"
  PROVE  /\ Tasks' /\ CommitAt' /\ DropAt' /\ LibraryAt'
         /\ task'.kind = "config" /\ task'.step = "journal"
<1>1. /\ task'.kind = "config" /\ task'.who = who /\ task'.req = r /\ task'.device = d
      /\ task'.edit = edit /\ task'.left = DOMAIN edit /\ task'.done = {} /\ task'.step = "journal"
      /\ DOMAIN task' = {"kind", "who", "req", "device", "edit", "left", "done", "step"}
  BY DEF CommitTask
<1>2. DOMAIN edit \subseteq Components BY DEF Edits
<1>3. ConfigTask(task)' BY <1>1, <1>2 DEF ConfigTask
<1>4. Runs("config")' BY <1>1 DEF Runs
<1>5. CommitAt' BY <1>1 DEF CommitAt
<1> QED BY <1>1, <1>3, <1>4, <1>5, OthersAt DEF Tasks

(* What a client's request for a commit starts.                            *)
LEMMA StartConfigKept ==
  ASSUME IInv, Idle, NEW r \in Requests, ask[r].kind = "config", StartConfig(r),
         UNCHANGED <<ask, daemon, registry, files, journals, ledger, prepared, evicted, crashes, faults>>
  PROVE  IInv'
<1>0. Values BY DEF IInv, Shapes
<1> DEFINE a == ask[r]
<1> DEFINE parts == Differing(a.device, a.edit)
<1> DEFINE edit == [c \in parts |-> a.edit[c]]
<1>1. a.device \in Devices /\ Edits(a.edit)
  <2>1. Wellformed(a) BY <1>0, Asked
  <2> QED BY <2>1 DEF Wellformed
<1>2. parts \subseteq DOMAIN a.edit BY DEF Differing
<1>3. CASE parts = {}
  <2>1. Answer(r, "done") BY <1>3 DEF StartConfig
  <2> QED BY <2>1, IdleAt, Begun, IdleKind, <1>0 DEF Answer, Values
<1>4. CASE parts # {}
  <2>1. task' = CommitTask("client", r, a.device, edit) /\ UNCHANGED reply
    BY <1>4 DEF StartConfig
  <2>2. DOMAIN edit # {} /\ Edits(edit)
    <3> HIDE DEF parts
    <3> QED BY <1>1, <1>2, <1>4 DEF Edits
  <2> HIDE DEF edit
  <2>3. /\ Tasks' /\ CommitAt' /\ DropAt' /\ LibraryAt'
        /\ task'.kind = "config" /\ task'.step = "journal"
    BY <1>1, <2>1, <2>2, CommitBegun DEF Idle
  <2> QED BY <1>0, <2>1, <2>3, Begun DEF Values
<1> QED BY <1>3, <1>4

(* What a request for a deletion starts.                                   *)
LEMMA StartDeleteKept ==
  ASSUME IInv, Idle, NEW r \in Requests, ask[r].kind = "delete", StartDelete(r),
         UNCHANGED <<ask, daemon, registry, files, journals, ledger, prepared, evicted, crashes, faults>>
  PROVE  IInv'
<1>0. Values BY DEF IInv, Shapes
<1> DEFINE s == ask[r].slug
<1> DEFINE Begins == [kind |-> "delete", req |-> r, step |-> "stage", who |-> "client", left |-> {}]
<1>1. ASSUME NEW how \in {"done", "failed"}, Answer(r, how) PROVE IInv'
  BY <1>1, IdleAt, Begun, IdleKind, <1>0 DEF Answer, Values
<1>2. CASE task' = Begins /\ UNCHANGED reply
  <2>1. /\ task'.kind = "delete" /\ task'.req = r /\ task'.step = "stage" /\ task'.who = "client"
        /\ task'.left = {} /\ DOMAIN task' = {"kind", "req", "step", "who", "left"}
    BY <1>2
  <2>2. DeleteTask(task)' BY <2>1 DEF DeleteTask
  <2>3. Runs("playlists")' BY <2>1 DEF Runs, Idle
  <2>4. DropAt' BY <2>1 DEF DropAt
  <2>5. Tasks' BY <2>2, <2>3 DEF Tasks
  <2> QED BY <1>0, <1>2, <2>1, <2>4, <2>5, OthersAt, Begun DEF Values
<1>3. \/ \E how \in {"done", "failed"} : Answer(r, how)
      \/ task' = Begins /\ UNCHANGED reply
  <2> DEFINE Both == (manual[s] # NoList /\ s \in smart) \/ staged[r] # {}
  <2>1. CASE Missing(s) BY <2>1, Zenon DEF StartDelete
  <2>2. CASE ~ Missing(s) /\ Both BY <2>2, Zenon DEF StartDelete
  <2>3. CASE ~ Missing(s) /\ ~ Both BY <2>3, Zenon DEF StartDelete
  <2> QED BY <2>1, <2>2, <2>3
<1> QED BY <1>1, <1>2, <1>3

(* What a save starts.                                                     *)
LEMMA StartSaveKept ==
  ASSUME IInv, Idle, NEW r \in Requests, ask[r].kind = "save", StartSave(r),
         UNCHANGED <<ask, daemon, registry, files, journals, ledger, prepared, evicted, crashes, faults>>
  PROVE  IInv'
<1>0. Values BY DEF IInv, Shapes
<1>1. task' = [kind |-> "save", req |-> r, step |-> "write"] /\ UNCHANGED reply BY DEF StartSave
<1>2. task'.kind = "save" /\ task'.req = r /\ task'.step = "write" /\ DOMAIN task' = {"kind", "req", "step"}
  BY <1>1
<1>3. SaveTask(task)' BY <1>2 DEF SaveTask
<1>4. Tasks' BY <1>3 DEF Tasks, Idle
<1> QED BY <1>0, <1>1, <1>2, <1>4, OthersAt, Begun DEF Values

(* What a library drop starts.                                             *)
LEMMA StartLibraryKept ==
  ASSUME IInv, Idle, NEW r \in Requests, ask[r].kind \in Drops, StartLibrary(r, "client"),
         UNCHANGED <<ask, daemon, registry, files, journals, ledger, prepared, evicted, crashes, faults>>
  PROVE  IInv'
<1>0. Values BY DEF IInv, Shapes
<1> DEFINE step == IF library = None THEN "evaluate" ELSE "recover"
<1>1. task' = [kind |-> "library", req |-> r, who |-> "client", records |-> saved,
               step |-> step, written |-> FALSE] /\ UNCHANGED reply
  BY DEF StartLibrary
<1> HIDE DEF step
<1>2. /\ task'.kind = "library" /\ task'.req = r /\ task'.who = "client" /\ task'.records = saved
      /\ task'.step = step /\ task'.written = FALSE
      /\ DOMAIN task' = {"kind", "req", "who", "records", "step", "written"}
  BY <1>1
<1>3. step \in {"evaluate", "recover"} /\ (step = "evaluate" <=> library = None) BY DEF step
<1>4. LibraryTask(task)' BY <1>0, <1>2, <1>3 DEF LibraryTask, Values
<1>5. Runs("library")' BY <1>2 DEF Runs, Idle
<1>6. Tasks' BY <1>4, <1>5 DEF Tasks
<1>7. LibraryAt' BY <1>2, <1>3 DEF LibraryAt, journals
<1> QED BY <1>0, <1>1, <1>2, <1>3, <1>6, <1>7, OthersAt, Begun DEF Values

(* A command is refused or starts its task.                                *)
LEMMA CommandKept == ASSUME IInv, NEW r \in Requests, Command(r) PROVE IInv'
<1>0. Values BY DEF IInv, Shapes
<1>1. /\ Idle /\ ask[r].kind # "import"
      /\ UNCHANGED <<ask, daemon, registry, files, journals, ledger, prepared, evicted, crashes, faults>>
  BY DEF Command
<1>2. ask[r].kind \in {"config", "import", "add", "append", "save", "delete"}
  <2>1. Wellformed(ask[r]) BY <1>0, Asked
  <2> QED BY <2>1 DEF Wellformed
<1>3. CASE Guarded(ask[r].kind) /\ ~Settled
  <2>1. Answer(r, "failed") BY <1>3, Zenon DEF Command
  <2> QED BY <1>1, <2>1, IdleAt, Begun, IdleKind, <1>0 DEF Answer, Values
<1>4. CASE ~ (Guarded(ask[r].kind) /\ ~Settled)
  <2>1. CASE ask[r].kind = "config"
    <3>1. StartConfig(r) BY <1>4, <2>1, Zenon DEF Command
    <3> QED BY <1>1, <2>1, <3>1, StartConfigKept
  <2>2. CASE ask[r].kind = "delete"
    <3>1. ask[r].kind # "config" BY <2>2
    <3>2. StartDelete(r) BY <1>4, <2>2, <3>1, Zenon DEF Command
    <3> QED BY <1>1, <2>2, <3>2, StartDeleteKept
  <2>3. CASE ask[r].kind = "save"
    <3>1. ask[r].kind # "config" /\ ask[r].kind # "delete" BY <2>3
    <3>2. StartSave(r) BY <1>4, <2>3, <3>1, Zenon DEF Command
    <3> QED BY <1>1, <2>3, <3>2, StartSaveKept
  <2>4. CASE ask[r].kind \in Drops
    <3>1. ask[r].kind # "config" /\ ask[r].kind # "delete" /\ ask[r].kind # "save" BY <2>4 DEF Drops
    <3>2. StartLibrary(r, "client") BY <1>4, <3>1, Zenon DEF Command
    <3> QED BY <1>1, <2>4, <3>2, StartLibraryKept
  <2> QED BY <1>1, <1>2, <2>1, <2>2, <2>3, <2>4 DEF Drops
<1> QED BY <1>3, <1>4

-----------------------------------------------------------------------------
(* A start and a crash.                                                      *)

(* Only the daemon's phase moves: what was settled stays so.               *)
LEMMA PhaseMoves ==
  ASSUME Settling, UNCHANGED <<ask, revs, saved, files, journals>>,
         revs = saved, task' = NoTask, daemon' # "refused",
         commit # None => daemon' \in {"config", "down"},
         drop # None => daemon' \in {"config", "playlists", "down"},
         library # None => daemon' \notin {"reconcile", "up"}
  PROVE  Settling'
<1>1. task'.kind = "idle" BY IdleKind
<1>2. OneJournal' BY <1>1 DEF Settling, OneJournal, journals
<1>3. Mirrored' BY DEF Mirrored
<1>4. CommitSettles'
  BY <1>1
     DEF Settling, CommitSettles, Undoable, Complete, AtOriginal, AtTarget, LiveParts, files,
        journals
<1>5. DropSettles'
  <2>1. Untouched' <=> Untouched BY DEF Untouched, Live, Original, Subs, files, journals
  <2>2. Completable' <=> Completable
    BY DEF Completable, Live, Scrubbed, Subs, Mine, files, journals
  <2> QED BY <1>1, <2>1, <2>2 DEF Settling, DropSettles, journals
<1> QED BY <1>2, <1>3, <1>4, <1>5 DEF Settling, Refusal

(* A start, or one of its phases, that writes nothing.                     *)
LEMMA BootFrame ==
  ASSUME IInv, UNCHANGED <<ask, saved, imported, files, journals, answers, crashes, faults>>,
         revs' \in {revs, saved}, daemon' \in Booting \union {"up", "down", "refused"}
  PROVE  /\ Values' /\ Journals' /\ Ledgered'
         /\ OnlyCrashed' => OnlyCrashed /\ Settling
<1>0. Values /\ Journals /\ Ledgered /\ (OnlyCrashed => Settling) BY DEF IInv, Shapes
<1>1. revs' \in Registries BY <1>0 DEF Values
<1>2. Values' BY <1>0, <1>1 DEF Values, files, journals, answers
<1>3. Journals' BY <1>0, JournalFrame DEF journals
<1>4. Ledgered' BY <1>0, LedgerFrame DEF Acks, journals, answers
<1>5. OnlyCrashed' => OnlyCrashed BY DEF OnlyCrashed
<1> QED BY <1>0, <1>2, <1>3, <1>4, <1>5

(* A start reads the registry again.                                        *)
LEMMA StartKept == ASSUME IInv, Start PROVE IInv'
<1>0. Values /\ Tasks BY DEF IInv, Shapes
<1>1. /\ daemon = "down" /\ daemon' = "config" /\ revs' = saved
      /\ UNCHANGED <<ask, task, saved, imported, files, journals, answers, crashes, faults>>
  BY DEF Start
<1>2. task = NoTask
  BY <1>0, <1>1 DEF Tasks, Runs, ConfigTask, DeleteTask, LibraryTask
<1>3. CommitAt' /\ DropAt' /\ LibraryAt' /\ Tasks' BY <1>1, <1>2, IdleAt
<1>4. Values' /\ Journals' /\ Ledgered' /\ (OnlyCrashed' => OnlyCrashed /\ Settling)
  BY <1>1, BootFrame DEF Booting
<1>5. ASSUME OnlyCrashed' PROVE Settling'
  <2>1. Settling BY <1>4, <1>5
  <2>2. revs = saved BY <1>2, <2>1, IdleKind DEF Settling, Mirrored
  <2> QED BY <1>1, <1>2, <2>1, <2>2, PhaseMoves
<1> QED BY <1>3, <1>4, <1>5 DEF IInv, Shapes

(* The configuration journal is recovered first.                           *)
LEMMA RecoverConfigKept == ASSUME IInv, RecoverConfig PROVE IInv'
<1>0. Values /\ Journals BY DEF IInv, Shapes
<1>1. /\ daemon = "config" /\ task = NoTask
      /\ UNCHANGED <<ask, registry, files, journals, answers, crashes, faults>>
  BY DEF RecoverConfig
<1> DEFINE Takes == [kind |-> "config", who |-> "boot", req |-> commit.req,
                     device |-> commit.device, edit |-> <<>>, done |-> {},
                     step |-> IF Undoable THEN "restore" ELSE "remove",
                     left |-> IF Undoable THEN DOMAIN commit.parts ELSE {}]
<1>2. \/ commit = None /\ daemon' = "playlists" /\ UNCHANGED task
      \/ commit # None /\ (Undoable \/ Complete) /\ task' = Takes /\ UNCHANGED daemon
      \/ commit # None /\ ~ (Undoable \/ Complete) /\ daemon' = "refused" /\ UNCHANGED task
  BY DEF RecoverConfig
<1>3. daemon' \in Booting \union {"up", "down", "refused"} BY <1>1, <1>2 DEF Booting
<1>4. Values' /\ Journals' /\ Ledgered' /\ (OnlyCrashed' => OnlyCrashed /\ Settling)
  BY <1>1, <1>3, BootFrame DEF registry
<1>5. CASE commit = None /\ daemon' = "playlists" /\ UNCHANGED task
  <2>1. CommitAt' /\ DropAt' /\ LibraryAt' /\ Tasks' BY <1>1, <1>5, IdleAt
  <2>2. ASSUME OnlyCrashed' PROVE Settling'
    <3>1. Settling BY <1>4, <2>2
    <3>2. revs = saved BY <1>1, <3>1, IdleKind DEF Settling, Mirrored
    <3> QED BY <1>1, <1>5, <3>1, <3>2, PhaseMoves DEF registry
  <2> QED BY <1>4, <2>1, <2>2 DEF IInv, Shapes
<1>6. CASE commit # None /\ ~ (Undoable \/ Complete) /\ daemon' = "refused" /\ UNCHANGED task
  <2>1. CommitAt' /\ DropAt' /\ LibraryAt' /\ Tasks' BY <1>1, <1>6, IdleAt
  <2>2. ~ OnlyCrashed' BY <1>4, <1>6 DEF Settling, CommitSettles
  <2> QED BY <1>4, <2>1, <2>2 DEF IInv, Shapes
<1>7. CASE commit # None /\ (Undoable \/ Complete) /\ task' = Takes /\ UNCHANGED daemon
  <2>1. IsCommit(commit) BY <1>0, <1>7 DEF Journals
  <2>2. /\ task'.kind = "config" /\ task'.who = "boot" /\ task'.device = commit.device
        /\ task'.done = {} /\ task'.step = (IF Undoable THEN "restore" ELSE "remove")
        /\ task'.left = (IF Undoable THEN DOMAIN commit.parts ELSE {})
        /\ DOMAIN task' = {"kind", "who", "req", "device", "edit", "left", "done", "step"}
    <3>1. task' = Takes BY <1>7
    <3> QED BY <3>1
  <2>3. ConfigTask(task)' BY <2>1, <2>2 DEF ConfigTask, IsCommit
  <2>4. Runs("config")' BY <1>1, <1>7, <2>2 DEF Runs
  <2>5. Tasks' BY <2>3, <2>4 DEF Tasks
  <2>6. revs' = revs /\ commit' = commit /\ config' = config BY <1>1 DEF registry, journals, files
  <2>7. CommitAt'
    <3>1. CASE Undoable
      <4>1. AtOriginal' BY <2>6, <3>1 DEF Undoable, AtOriginal
      <4>2. task'.step = "restore" /\ task'.left = DOMAIN commit'.parts BY <2>2, <2>6, <3>1
      <4> QED BY <1>7, <2>2, <2>6, <4>1, <4>2 DEF CommitAt
    <3>2. CASE ~ Undoable
      <4>1. AtTarget' BY <1>7, <2>6, <3>2 DEF Complete, AtTarget
      <4>2. LiveParts({"new"})' BY <1>7, <2>6, <3>2 DEF Complete, LiveParts
      <4>3. task'.step = "remove" BY <2>2, <3>2
      <4> QED BY <1>7, <2>2, <2>6, <4>1, <4>2, <4>3 DEF CommitAt
    <3> QED BY <3>1, <3>2
  <2>8. DropAt' /\ LibraryAt' BY <2>2, OthersAt
  <2>9. ASSUME OnlyCrashed' PROVE Settling'
    <3>1. Settling BY <1>4, <2>9
    <3>2. drop' = None /\ library' = None BY <1>1, <1>7, <3>1 DEF Settling, OneJournal, journals
    <3>3. OneJournal' BY <1>1, <1>7, <2>2, <3>2 DEF OneJournal
    <3>4. Mirrored' BY <1>1, <3>1, IdleKind DEF Settling, Mirrored, registry
    <3>5. Undoable' \/ Complete'
      BY <1>7, <2>6 DEF Undoable, Complete, AtOriginal, AtTarget, LiveParts
    <3>6. CommitSettles' BY <2>2, <3>5 DEF CommitSettles
    <3>7. DropSettles' BY <2>2, <3>2 DEF DropSettles
    <3>8. Refusal' BY <1>1, <1>7 DEF Refusal
    <3> QED BY <3>3, <3>4, <3>6, <3>7, <3>8 DEF Settling
  <2> QED BY <1>4, <2>5, <2>7, <2>8, <2>9 DEF IInv, Shapes
<1> QED BY <1>2, <1>5, <1>6, <1>7

(* Then the deletion's.                                                    *)
LEMMA RecoverDeletionKept == ASSUME IInv, RecoverDeletion PROVE IInv'
<1>0. Values /\ Journals BY DEF IInv, Shapes
<1>1. /\ daemon = "playlists" /\ task = NoTask
      /\ UNCHANGED <<ask, registry, files, journals, answers, crashes, faults>>
  BY DEF RecoverDeletion
<1> DEFINE Takes == [kind |-> "delete", req |-> drop.req, who |-> "boot",
                     left |-> DOMAIN drop.subs,
                     step |-> IF drop.phase = "prepared" THEN "restore" ELSE "subscriptions"]
<1>2. \/ drop = None /\ daemon' = "library" /\ UNCHANGED task
      \/ drop # None /\ task' = Takes /\ UNCHANGED daemon
  BY DEF RecoverDeletion
<1>3. daemon' \in Booting \union {"up", "down", "refused"} BY <1>1, <1>2 DEF Booting
<1>4. Values' /\ Journals' /\ Ledgered' /\ (OnlyCrashed' => OnlyCrashed /\ Settling)
  BY <1>1, <1>3, BootFrame DEF registry
<1>a. Settling => commit = None BY <1>1, IdleKind DEF Settling, OneJournal
<1>5. CASE drop = None /\ daemon' = "library" /\ UNCHANGED task
  <2>1. CommitAt' /\ DropAt' /\ LibraryAt' /\ Tasks' BY <1>1, <1>5, IdleAt
  <2>2. ASSUME OnlyCrashed' PROVE Settling'
    <3>1. Settling BY <1>4, <2>2
    <3>2. revs = saved BY <1>1, <3>1, IdleKind DEF Settling, Mirrored
    <3> QED BY <1>1, <1>5, <1>a, <3>1, <3>2, PhaseMoves DEF registry
  <2> QED BY <1>4, <2>1, <2>2 DEF IInv, Shapes
<1>6. CASE drop # None /\ task' = Takes /\ UNCHANGED daemon
  <2>1. IsDrop(drop) BY <1>0, <1>6 DEF Journals
  <2>2. /\ task'.kind = "delete" /\ task'.who = "boot" /\ task'.req = drop.req
        /\ task'.left = Subs
        /\ task'.step = (IF drop.phase = "prepared" THEN "restore" ELSE "subscriptions")
        /\ DOMAIN task' = {"kind", "req", "step", "who", "left"}
    <3>1. task' = Takes BY <1>6
    <3> QED BY <3>1 DEF Subs
  <2>3. DeleteTask(task)' BY <2>1, <2>2 DEF DeleteTask, IsDrop, Subs
  <2>4. Runs("playlists")' BY <1>1, <1>6, <2>2 DEF Runs
  <2>5. Tasks' BY <2>3, <2>4 DEF Tasks
  <2>6. revs' = revs /\ drop' = drop /\ config' = config /\ staged' = staged /\ manual' = manual
        /\ smart' = smart
    BY <1>1 DEF registry, journals, files
  <2>7. DropAt'
    <3>1. Subs' = Subs BY <2>6 DEF Subs
    <3>2. Subs' \ task'.left = {} BY <2>2, <3>1
    <3> QED BY <1>6, <2>2, <2>6, <3>1, <3>2 DEF DropAt
  <2>8. CommitAt' /\ LibraryAt' BY <2>2, OthersAt
  <2>9. ASSUME OnlyCrashed' PROVE Settling'
    <3>1. Settling BY <1>4, <2>9
    <3>2. commit' = None /\ library' = None
      BY <1>1, <1>6, <1>a, <3>1 DEF Settling, OneJournal, journals
    <3>3. OneJournal' BY <1>1, <1>6, <2>2, <3>2 DEF OneJournal
    <3>4. Mirrored' BY <1>1, <3>1, IdleKind DEF Settling, Mirrored, registry
    <3>5. CommitSettles' BY <2>2, <3>2 DEF CommitSettles
    <3>6. DropSettles'
      <4>1. Untouched' <=> Untouched BY <2>6 DEF Untouched, Live, Original, Subs
      <4>2. Completable' <=> Completable BY <2>6 DEF Completable, Live, Scrubbed, Subs, Mine
      <4>3. drop.phase \in {"prepared", "publishing"} BY <2>1 DEF IsDrop
      <4> QED BY <2>2, <2>6, <3>1, <4>1, <4>2, <4>3 DEF Settling, DropSettles
    <3>7. Refusal' BY <1>1, <1>6 DEF Refusal
    <3> QED BY <3>3, <3>4, <3>5, <3>6, <3>7 DEF Settling
  <2> QED BY <1>4, <2>5, <2>7, <2>8, <2>9 DEF IInv, Shapes
<1> QED BY <1>2, <1>5, <1>6

(* Then the library's.                                                     *)
LEMMA RecoverLibraryKept == ASSUME IInv, RecoverLibrary PROVE IInv'
<1>0. Values /\ Journals BY DEF IInv, Shapes
<1>1. /\ daemon = "library" /\ task = NoTask
      /\ UNCHANGED <<ask, saved, imported, files, journals, answers, crashes, faults>>
  BY DEF RecoverLibrary
<1> DEFINE Takes == [kind |-> "library", req |-> library.req, who |-> "boot",
                     records |-> saved, step |-> "recover", written |-> FALSE]
<1>2. \/ library = None /\ daemon' = "reconcile" /\ revs' = saved /\ UNCHANGED task
      \/ library # None /\ task' = Takes /\ UNCHANGED <<daemon, revs>>
  BY DEF RecoverLibrary
<1>3. daemon' \in Booting \union {"up", "down", "refused"} /\ revs' \in {revs, saved}
  BY <1>1, <1>2 DEF Booting
<1>4. Values' /\ Journals' /\ Ledgered' /\ (OnlyCrashed' => OnlyCrashed /\ Settling)
  BY <1>1, <1>3, BootFrame
<1>a. Settling => commit = None /\ drop = None /\ revs = saved
  BY <1>1, IdleKind DEF Settling, OneJournal, Mirrored
<1>5. CASE library = None /\ daemon' = "reconcile" /\ revs' = saved /\ UNCHANGED task
  <2>1. CommitAt' /\ DropAt' /\ LibraryAt' /\ Tasks' BY <1>1, <1>5, IdleAt
  <2>2. ASSUME OnlyCrashed' PROVE Settling'
    <3>1. Settling BY <1>4, <2>2
    <3> QED BY <1>1, <1>5, <1>a, <3>1, PhaseMoves
  <2> QED BY <1>4, <2>1, <2>2 DEF IInv, Shapes
<1>6. CASE library # None /\ task' = Takes /\ UNCHANGED <<daemon, revs>>
  <2>1. IsLibrary(library) BY <1>0, <1>6 DEF Journals
  <2>2. /\ task'.kind = "library" /\ task'.who = "boot" /\ task'.req = library.req
        /\ task'.records = saved /\ task'.step = "recover" /\ task'.written = FALSE
        /\ DOMAIN task' = {"kind", "req", "who", "records", "step", "written"}
    <3>1. task' = Takes BY <1>6
    <3> QED BY <3>1
  <2>3. saved \in Registries BY <1>0 DEF Values
  <2>4. LibraryTask(task)' BY <1>1, <2>1, <2>2, <2>3 DEF LibraryTask, IsLibrary
  <2>5. Runs("library")' BY <1>1, <1>6, <2>2 DEF Runs
  <2>6. Tasks' BY <2>4, <2>5 DEF Tasks
  <2>7. LibraryAt' BY <1>1, <1>6, <2>2 DEF LibraryAt, journals
  <2>8. CommitAt' /\ DropAt' BY <2>2, OthersAt
  <2>9. ASSUME OnlyCrashed' PROVE Settling'
    <3>1. Settling BY <1>4, <2>9
    <3>2. commit' = None /\ drop' = None BY <1>1, <1>a, <3>1 DEF journals
    <3>3. OneJournal' BY <1>1, <1>6, <2>2, <3>2 DEF OneJournal
    <3>4. Mirrored' BY <1>1, <1>6, <1>a, <3>1 DEF Mirrored
    <3>5. CommitSettles' /\ DropSettles' BY <2>2, <3>2 DEF CommitSettles, DropSettles
    <3>6. Refusal' BY <1>1, <1>6 DEF Refusal
    <3> QED BY <3>3, <3>4, <3>5, <3>6 DEF Settling
  <2> QED BY <1>4, <2>6, <2>7, <2>8, <2>9 DEF IInv, Shapes
<1> QED BY <1>2, <1>5, <1>6

(* Devices that lost a playlist are repaired one commit at a time.         *)
LEMMA RepairKept == ASSUME IInv, Repair PROVE IInv'
<1>0. Values BY DEF IInv, Shapes
<1>1. /\ daemon = "reconcile" /\ task = NoTask
      /\ UNCHANGED <<ask, registry, files, journals, answers, crashes, faults>>
  BY DEF Repair
<1> DEFINE edit(d) == [c \in {"subscriptions"} |-> config[d][c] \ Lost(d)]
<1>2. \/ daemon' = "up" /\ UNCHANGED task
      \/ \E d \in Devices : task' = CommitTask("repair", "repair", d, edit(d)) /\ UNCHANGED daemon
  BY DEF Repair
<1>3. daemon' \in Booting \union {"up", "down", "refused"} /\ daemon' # "refused"
  BY <1>1, <1>2 DEF Booting
<1>4. Values' /\ Journals' /\ Ledgered' /\ (OnlyCrashed' => OnlyCrashed /\ Settling)
  BY <1>1, <1>3, BootFrame DEF registry
<1>5. /\ Tasks' /\ CommitAt' /\ DropAt' /\ LibraryAt'
      /\ task'.kind = "idle" \/ (task'.kind = "config" /\ task'.step = "journal")
  <2>1. CASE UNCHANGED task BY <1>1, <2>1, IdleAt
  <2>2. ASSUME NEW d \in Devices, task' = CommitTask("repair", "repair", d, edit(d)), UNCHANGED daemon
        PROVE  /\ Tasks' /\ CommitAt' /\ DropAt' /\ LibraryAt'
               /\ task'.kind = "config" /\ task'.step = "journal"
    <3>1. config[d]["subscriptions"] \ Lost(d) \in Contents
      BY <1>0 DEF Values, Components, Contents
    <3>2. Edits(edit(d)) /\ DOMAIN edit(d) # {} BY <3>1 DEF Edits, Components, Contents
    <3> HIDE DEF edit
    <3> QED BY <1>1, <2>2, <3>2, CommitBegun
  <2> QED BY <1>2, <2>1, <2>2
<1>6. ASSUME OnlyCrashed' PROVE Settling'
  <2>1. Settling BY <1>4, <1>6
  <2>2. commit' = None /\ drop' = None /\ library' = None /\ revs' = saved'
    BY <1>1, <2>1, IdleKind DEF Settling, OneJournal, Mirrored, registry, journals
  <2>3. Mirrored' BY <2>2 DEF Mirrored
  <2> QED BY <1>3, <1>5, <2>2, <2>3, NothingPending
<1> QED BY <1>4, <1>5, <1>6 DEF IInv, Shapes

(* The recovery and the repair of a start keep the invariant.              *)
LEMMA BootKept == ASSUME IInv, Boot PROVE IInv'
BY StartKept, RecoverConfigKept, RecoverDeletionKept, RecoverLibraryKept, RepairKept DEF Boot

(* A profile's revisions replace those the registry keeps.                 *)
LEMMA ImportKept == ASSUME IInv, NEW r \in Requests, Import(r) PROVE IInv'
<1>0. Values /\ Journals /\ Ledgered BY DEF IInv, Shapes
<1>1. /\ ask[r].kind = "import" /\ Answer(r, "done")
      /\ imported' = [imported EXCEPT ![ask[r].device] = ask[r].revision]
      /\ saved' \in {saved, Persist(revs, imported')}
      /\ UNCHANGED <<ask, daemon, revs, files, journals, ledger, prepared, evicted, crashes, faults>>
  BY DEF Import
<1>2. ask[r].device \in Devices /\ ask[r].revision \in Nat \ {0}
  <2>1. Wellformed(ask[r]) BY <1>0, Asked
  <2> QED BY <1>1, <2>1 DEF Wellformed
<1>3. imported' \in [Devices -> Nat] /\ imported'[ask[r].device] # 0
  BY <1>0, <1>1, <1>2 DEF Values
<1>4. ~ OnlyCrashed' BY <1>2, <1>3 DEF OnlyCrashed
<1>5. saved' \in Registries
  <2>1. revs \in Registries /\ saved \in Registries BY <1>0 DEF Values
  <2>2. Persist(revs, imported') \in Registries BY <1>3, <2>1, Persisted
  <2> QED BY <1>1, <2>1, <2>2
<1>6. task' = NoTask /\ reply' \in [Requests -> {"none", "done", "failed"}]
  BY <1>0, <1>1 DEF Answer, Values
<1>7. CommitAt' /\ DropAt' /\ LibraryAt' /\ Tasks' BY <1>6, IdleAt
<1>8. Values' BY <1>0, <1>1, <1>3, <1>5, <1>6 DEF Values, files, journals
<1>9. Journals' BY <1>0, <1>1, JournalFrame DEF journals
<1>10. Ledgered' BY <1>0, <1>1, LedgerFrame DEF Acks, journals
<1> QED BY <1>4, <1>7, <1>8, <1>9, <1>10 DEF IInv, Shapes

(* A crash keeps the files and the journals, and forgets the rest.         *)
LEMMA CrashKept == ASSUME IInv, Crash PROVE IInv'
<1>0. Values /\ Journals /\ Tasks /\ Ledgered /\ (OnlyCrashed => Settling) BY DEF IInv, Shapes
<1>1. /\ crashes < MaxCrashes /\ crashes' = crashes + 1 /\ daemon' = "down"
      /\ task' = NoTask /\ revs' = saved
      /\ UNCHANGED <<ask, saved, imported, files, journals, answers, faults>>
  BY DEF Crash
<1>2. crashes' \in Nat /\ crashes' <= MaxCrashes BY <1>0, <1>1, HostAssumption DEF Values
<1>3. Values' BY <1>0, <1>1, <1>2 DEF Values, files, journals, answers
<1>4. Journals' BY <1>0, <1>1, JournalFrame DEF journals
<1>5. Ledgered' BY <1>0, <1>1, LedgerFrame DEF Acks, journals, answers
<1>6. CommitAt' /\ DropAt' /\ LibraryAt' /\ Tasks' BY <1>1, IdleAt
<1>7. ASSUME OnlyCrashed' PROVE Settling'
  <2>1. Settling BY <1>0, <1>1, <1>7 DEF OnlyCrashed
  <2>2. CASE revs = saved BY <1>1, <2>1, <2>2, PhaseMoves
  <2>3. CASE revs # saved
    <3>1. task.kind = "library" BY <2>1, <2>3 DEF Settling, Mirrored
    <3>2. commit' = None /\ drop' = None BY <1>1, <2>1, <3>1 DEF Settling, OneJournal, journals
    <3>3. task'.kind = "idle" BY <1>1, IdleKind
    <3> QED BY <1>1, <3>2, <3>3
            DEF Settling, OneJournal, Mirrored, CommitSettles, DropSettles, Refusal
  <2> QED BY <2>2, <2>3
<1> QED BY <1>3, <1>4, <1>5, <1>6, <1>7 DEF IInv, Shapes

(* A first start has nothing to recover.                                   *)
LEMMA InitInv == ASSUME Init PROVE IInv
<1>1. /\ ask \in Scripts /\ daemon = "up" /\ task = NoTask
      /\ revs = [d \in Devices |-> [c \in Components |-> 0]] /\ saved = revs
      /\ imported = [d \in Devices |-> 0]
      /\ config \in [Devices -> [Components -> SUBSET Slugs]]
      /\ manual \in [Slugs -> {{}, NoList}] /\ smart = {} /\ listRev = [s \in Slugs |-> 0]
      /\ commit = None /\ drop = None /\ library = None
      /\ staged = [r \in Requests |-> {}] /\ ledger = <<>> /\ reply = [r \in Requests |-> "none"]
      /\ prepared = [r \in Requests |-> 0] /\ evicted = {} /\ crashes = 0 /\ faults = 0
  BY DEF Init
<1>2. revs \in Registries BY <1>1 DEF Registries
<1>3. config \in [Devices -> [Components -> Contents]]
  <2>1. SUBSET Slugs \subseteq Contents BY DEF Contents
  <2> QED BY <1>1, <2>1
<1>4. MaxFaults(ask) \in Nat /\ MaxCrashes \in Nat /\ MaxPerTarget \in Nat
  BY <1>1, HostAssumption
<1>5. DOMAIN manual = Slugs /\ \A s \in Slugs : Listed(manual[s]) BY <1>1 DEF Listed
<1>6. ledger \in Seq(Requests) BY <1>1
<1>7. Values BY <1>1, <1>2, <1>3, <1>4, <1>5, <1>6 DEF Values
<1>8. Journals BY <1>1 DEF Journals
<1>9. Tasks BY <1>1 DEF Tasks
<1>10. CommitAt /\ DropAt /\ LibraryAt BY <1>1, IdleKind DEF CommitAt, DropAt, LibraryAt
<1>11. Ledgered
  <2>1. ToSet(ledger) = {} BY <1>1 DEF ToSet
  <2>2. Unique BY <1>1 DEF Unique
  <2>3. \A x : Entries(x) = {} BY <2>1 DEF Entries
  <2>4. Within BY <2>3, <1>4, FS_EmptySet DEF Within
  <2>5. Recorded /\ AppliedOnce BY <1>1 DEF Recorded, AppliedOnce
  <2> QED BY <1>1, <2>2, <2>4, <2>5 DEF Ledgered
<1>12. Settling
  BY <1>1, IdleKind DEF Settling, OneJournal, Mirrored, CommitSettles, DropSettles, Refusal
<1> QED BY <1>7, <1>8, <1>9, <1>10, <1>11, <1>12 DEF IInv, Shapes

(* Every step of the host keeps the invariant.                             *)
LEMMA NextInv == ASSUME IInv, [Next]_vars PROVE IInv'
<1>1. CASE Step
  BY <1>1, CommandKept, CommitStepKept, DeleteStepKept, SaveStepKept, LibraryStepKept, BootKept,
     ImportKept, CrashKept DEF Step
<1>2. CASE UNCHANGED vars
  <2>1. UNCHANGED <<ask, daemon, task, revs, saved, imported, config, manual, smart, listRev,
                    commit, drop, staged, library, ledger, reply, prepared, evicted, crashes, faults>>
    BY <1>2 DEF vars, registry, files, journals, answers
  <2> HIDE DEF vars
  <2>2. Values' BY <2>1 DEF IInv, Shapes, Values
  <2>3. Journals' BY <2>1, JournalFrame DEF IInv, Shapes
  <2>4. Ledgered' BY <2>1, LedgerFrame DEF IInv, Acks
  <2>5. Tasks'
    BY <2>1 DEF IInv, Shapes, Tasks, ConfigTask, DeleteTask, SaveTask, LibraryTask, Runs
  <2>6. CommitAt' BY <2>1 DEF IInv, CommitAt, AtOriginal, AtTarget, LiveParts, Part
  <2>7. DropAt' BY <2>1 DEF IInv, DropAt, Subs, Scrubbed, Original, Live
  <2>8. LibraryAt' BY <2>1 DEF IInv, LibraryAt, Known
  <2>9. OnlyCrashed' => Settling'
    BY <2>1 DEF IInv, OnlyCrashed, Settling, OneJournal, Mirrored, CommitSettles, DropSettles,
       Refusal, Undoable, Complete, AtOriginal, AtTarget, LiveParts, Ready, Subscribed, Untouched,
       Completable, Subs, Scrubbed, Original, Live, Mine
  <2> QED BY <2>2, <2>3, <2>4, <2>5, <2>6, <2>7, <2>8, <2>9 DEF IInv, Shapes
<1> QED BY <1>1, <1>2 DEF Next

(* The inductive invariant of the host's transactions.                     *)
THEOREM InvariantHolds == Spec => []IInv
<1>1. Init => IInv BY InitInv
<1>2. IInv /\ [Next]_vars => IInv' BY NextInv
<1> QED BY <1>1, <1>2, PTL DEF Spec

(* Every variable of the host keeps its type, and the ledger its bound.    *)
THEOREM TypesHold == Spec => []TypeOK
<1>1. IInv => TypeOK
  <2> SUFFICES ASSUME IInv PROVE TypeOK OBVIOUS
  <2>1. Values /\ Within BY DEF IInv, Shapes, Ledgered
  <2>2. \A s \in Slugs : manual[s] # Smart
    BY <2>1, HostAssumption DEF Values, Listed
  <2>3. \A x \in Devices \union Slugs :
          Cardinality({r \in ToSet(ledger) : Target(r) = x}) <= MaxPerTarget
    BY <2>1 DEF Within, Entries
  <2> QED BY <2>1, <2>2, <2>3 DEF TypeOK, Values, Registries
<1> QED BY <1>1, InvariantHolds, PTL

(* A library request is journalled, and so applied, once, however often it
   is retried across failures and crashes, unless the ledger forgot it.    *)
THEOREM AppliedOnceSafe == Spec => []AppliedOnce
<1>1. IInv => AppliedOnce BY DEF IInv, Ledgered
<1> QED BY <1>1, InvariantHolds, PTL

(* A crash alone, wherever it falls, leaves journals a start can settle.    *)
THEOREM RecoverySafe == Spec => []CrashRecovers
<1>1. IInv => CrashRecovers BY DEF IInv, CrashRecovers, Settling, Refusal, Subs
<1> QED BY <1>1, InvariantHolds, PTL

-----------------------------------------------------------------------------
(* The end of a journal.                                                     *)

(* A configuration journal goes only at one of the commit's two ends.      *)
LEMMA CommitGone ==
  ASSUME IInv, CommitStep, commit # None, commit' = None
  PROVE  CommitEnds
<1>0. Journals /\ Tasks /\ CommitAt BY DEF IInv, Shapes
<1>1. IsCommit(commit) BY <1>0 DEF Journals
<1>2. CASE JournalCommit
  <2>1. commit' = [req |-> task.req, device |-> task.device, revs |-> revs[task.device],
                   parts |-> [c \in DOMAIN task.edit |->
                                [old |-> config[task.device][c], new |-> task.edit[c]]]]
    BY <1>2 DEF JournalCommit
  <2>2. "req" \in DOMAIN commit' BY <2>1
  <2> QED BY <2>2 DEF None
<1>3. CASE PublishComponent BY <1>3 DEF PublishComponent, journals
<1>4. CASE Narrow
  <2>1. task.kind = "config" /\ task.step = "publish" /\ task.left = {}
    BY <1>4 DEF Narrow, InCommit
  <2>2. /\ AtOriginal
        /\ \A c \in DOMAIN commit.parts :
             Part(c) = IF c \in task.done THEN commit.parts[c].new ELSE commit.parts[c].old
    BY <1>0, <2>1 DEF CommitAt
  <2>3. CASE task.done = DOMAIN commit.parts
    <3>1. task.done # {} BY <1>1, <2>3 DEF IsCommit
    <3>2. UNCHANGED <<daemon, reply, commit>> BY <1>4, <2>3, <3>1, Zenon DEF Narrow
    <3> QED BY <3>2
  <2>4. CASE task.done = {} BY <2>2, <2>4, LiveEnds DEF CommitEnds
  <2>5. CASE task.done # DOMAIN commit.parts /\ task.done # {}
    <3>1. commit' = Restricted(commit, task.done) \/ UNCHANGED commit
      BY <1>4, <2>5, Zenon DEF Narrow
    <3>2. "req" \in DOMAIN Restricted(commit, task.done) BY <1>1 DEF IsCommit, Restricted
    <3> QED BY <3>1, <3>2 DEF None
  <2> QED BY <2>3, <2>4, <2>5
<1>5. CASE Advance BY <1>5 DEF Advance, journals
<1>6. CASE RestoreComponent BY <1>6 DEF RestoreComponent, journals
<1>7. CASE RemoveCommit
  <2>1. task.kind = "config" /\ (task.step = "remove" \/ (task.step = "restore" /\ task.left = {}))
    BY <1>7 DEF RemoveCommit, InCommit
  <2>2. CASE task.step = "remove" BY <1>0, <2>1, <2>2 DEF CommitAt, CommitEnds
  <2>3. CASE task.step = "restore" /\ task.left = {}
    <3>1. AtOriginal /\ \A c \in DOMAIN commit.parts : Part(c) = commit.parts[c].old
      BY <1>0, <2>1, <2>3 DEF CommitAt
    <3> QED BY <3>1, LiveEnds DEF CommitEnds
  <2> QED BY <2>1, <2>2, <2>3
<1> QED BY <1>2, <1>3, <1>4, <1>5, <1>6, <1>7 DEF CommitStep

(* A deletion's journal goes only when it is done or undone.               *)
LEMMA DropGone ==
  ASSUME IInv, DeleteStep, drop # None, drop' = None
  PROVE  DeletionEnds
<1>0. Journals /\ DropAt BY DEF IInv, Shapes
<1>1. IsDrop(drop) BY <1>0 DEF Journals
<1>2. CASE Prepare
  <2>1. \/ UNCHANGED drop
        \/ "req" \in DOMAIN drop'
    BY <1>2 DEF Prepare
  <2> QED BY <2>1 DEF None
<1>3. CASE Publish
  <2>1. UNCHANGED drop \/ drop' = [drop EXCEPT !.phase = "publishing"] BY <1>3 DEF Publish
  <2>2. UNCHANGED drop \/ "req" \in DOMAIN drop' BY <1>1, <2>1 DEF IsDrop
  <2> QED BY <2>2 DEF None
<1>4. CASE Cleanup
  <2>1. task.kind = "delete"
        /\ ((task.step = "revisions" /\ task.left = {}) \/ task.step = "undone")
    BY <1>4 DEF Cleanup, InDelete
  <2>2. CASE task.step = "revisions" /\ task.left = {}
    <3>1. /\ Live(drop.slug) = NoList /\ \A d \in Subs : Scrubbed(d)
          /\ \A d \in Subs : revs[d].subscriptions = drop.subs[d].rev + 1
      BY <1>0, <2>1, <2>2 DEF DropAt
    <3> QED BY <3>1 DEF DeletionEnds, Subs, Scrubbed
  <2>3. CASE task.step = "undone"
    <3>1. Live(drop.slug) = drop.list /\ \A d \in Subs : Original(d)
      BY <1>0, <2>1, <2>3 DEF DropAt
    <3> QED BY <3>1 DEF DeletionEnds, Subs, Original
  <2> QED BY <2>1, <2>2, <2>3
<1>5. CASE Stage \/ ScrubSubscriptions \/ StagePlaylist \/ AdvanceSubscription
           \/ RestoreSubscriptions \/ RestorePlaylist
  <2>1. UNCHANGED drop
    BY <1>5 DEF Stage, ScrubSubscriptions, StagePlaylist, AdvanceSubscription,
       RestoreSubscriptions, RestorePlaylist, journals
  <2> QED BY <2>1
<1> QED BY <1>2, <1>3, <1>4, <1>5 DEF DeleteStep

(* Nothing but a commit touches the configuration journal, and nothing but
   a deletion the deletion's.                                              *)
LEMMA JournalsOwned ==
  ASSUME Step
  PROVE  (CommitStep \/ UNCHANGED commit) /\ (DeleteStep \/ UNCHANGED drop)
<1>1. CASE \E r \in Requests : Command(r) BY <1>1 DEF Command, journals
<1>2. CASE CommitStep
  <2>1. UNCHANGED drop
    BY <1>2 DEF CommitStep, JournalCommit, PublishComponent, Narrow, Advance, RestoreComponent,
       RemoveCommit, journals
  <2> QED BY <1>2, <2>1
<1>3. CASE DeleteStep
  <2>1. UNCHANGED commit
    BY <1>3 DEF DeleteStep, Stage, Prepare, Publish, ScrubSubscriptions, StagePlaylist,
       AdvanceSubscription, RestoreSubscriptions, RestorePlaylist, Cleanup, journals
  <2> QED BY <1>3, <2>1
<1>4. CASE SaveStep BY <1>4 DEF SaveStep, journals
<1>5. CASE LibraryStep
  BY <1>5
     DEF LibraryStep, Evaluate, JournalMutation, RollWrite, RollMark, RollDone, Respond, journals
<1>6. CASE Boot
  BY <1>6 DEF Boot, Start, RecoverConfig, RecoverDeletion, RecoverLibrary, Repair, journals
<1>7. CASE \E r \in Requests : Import(r) BY <1>7 DEF Import, journals
<1>8. CASE Crash BY <1>8 DEF Crash, journals
<1> QED BY <1>1, <1>2, <1>3, <1>4, <1>5, <1>6, <1>7, <1>8 DEF Step

(* A journal goes only when all it names is done, or all is as it was: a
   commit's files together with the revisions, a deletion's playlist with
   the subscriptions and revisions of its devices.                         *)
THEOREM JournalsSafe == Spec => JournalsEndWhole
<1> DEFINE Ends == /\ commit # None /\ commit' = None => CommitEnds
                   /\ drop # None /\ drop' = None => DeletionEnds
<1>1. IInv /\ [Next]_vars => [Ends]_vars
  <2> SUFFICES ASSUME IInv, Next PROVE Ends OBVIOUS
  <2>1. Step BY DEF Next
  <2> QED BY <2>1, JournalsOwned, CommitGone, DropGone
<1>2. [][Ends]_vars => JournalsEndWhole
  BY PTL DEF JournalsEndWhole
<1> QED BY <1>1, <1>2, InvariantHolds, PTL DEF Spec

-----------------------------------------------------------------------------
(* What a reader is entitled to see.                                         *)

(* The fields are the components of the devices and the playlists.          *)
LEMMA FieldsAre ==
  /\ \A d \in Devices : \A c \in Components :
       /\ <<d, c>> \in Fields /\ <<d, c>>[1] = d /\ <<d, c>>[2] = c
       /\ c # "list"
  /\ \A s \in Slugs : <<s, "list">> \in Fields /\ <<s, "list">>[1] = s /\ <<s, "list">>[2] = "list"
  /\ \A f \in Fields :
       \/ \E d \in Devices : \E c \in Components : f = <<d, c>>
       \/ \E s \in Slugs : f = <<s, "list">>
BY DEF Fields, Components

(* What is shown of each.                                                   *)
LEMMA ContentAt ==
  /\ DOMAIN Content = Fields
  /\ \A d \in Devices : \A c \in Components : Content[<<d, c>>] = ConfigView(d, c)
  /\ \A s \in Slugs : Content[<<s, "list">>] = ListView(s)
  /\ Content = [f \in Fields |-> Content[f]]
BY FieldsAre DEF Content, Fields

(* The same after a step.                                                   *)
LEMMA ContentAtNext ==
  /\ DOMAIN Content' = Fields
  /\ \A d \in Devices : \A c \in Components : Content'[<<d, c>>] = ConfigView(d, c)'
  /\ \A s \in Slugs : Content'[<<s, "list">>] = ListView(s)'
  /\ Content' = [f \in Fields |-> Content'[f]]
BY FieldsAre DEF Content, Fields

(* The rest of what is promised is as it was.                               *)
Unheard == Told' = Told /\ Known' = Known /\ ask' = ask

(* A step that shows nothing new and tells nobody anything is no step.      *)
LEMMA NoStep ==
  ASSUME Whole, Remember, Unheard,
         \A d \in Devices : \A c \in Components : ConfigView(d, c)' = ConfigView(d, c),
         \A s \in Slugs : ListView(s)' = ListView(s)
  PROVE  UNCHANGED Promise!vars /\ before' = before
<1>1. ASSUME NEW f \in Fields PROVE Content'[f] = Content[f]
  <2>1. CASE \E d \in Devices : \E c \in Components : f = <<d, c>>
    <3>1. PICK d \in Devices : \E c \in Components : f = <<d, c>> BY <2>1
    <3>2. PICK c \in Components : f = <<d, c>> BY <3>1
    <3>3. ConfigView(d, c)' = ConfigView(d, c) OBVIOUS
    <3> QED BY <3>2, <3>3, ContentAt, ContentAtNext
  <2>2. CASE \E s \in Slugs : f = <<s, "list">>
    <3>1. PICK s \in Slugs : f = <<s, "list">> BY <2>2
    <3>2. ListView(s)' = ListView(s) OBVIOUS
    <3> QED BY <3>1, <3>2, ContentAt, ContentAtNext
  <2> QED BY <2>1, <2>2, FieldsAre
<1>2. Content' = Content BY <1>1, ContentAt, ContentAtNext
<1>3. before' = before
  <2>1. Told' \ Told = {} BY DEF Unheard
  <2>2. before' = [f \in Fields |-> before[f]] BY <1>2, <2>1, ContentAt DEF Remember
  <2> QED BY <2>2 DEF Whole
<1>4. (evicted \union ToSet(ledger))' = evicted \union ToSet(ledger) BY DEF Unheard, Known
<1>5. Told' = Told /\ ask' = ask BY DEF Unheard
<1> QED BY <1>2, <1>3, <1>4, <1>5 DEF Promise!vars

(* A step that shows something new sets it.                                 *)
LEMMA SetBy ==
  ASSUME NEW new, Whole, Remember, Unheard,
         \A f \in Fields : Content'[f] = IF f \in DOMAIN new THEN new[f] ELSE Content[f]
  PROVE  Promise!Set(new)
<1>1. Content' = [f \in DOMAIN Content |-> IF f \in DOMAIN new THEN new[f] ELSE Content[f]]
  BY ContentAt, ContentAtNext
<1>2. Told' \ Told = {} BY DEF Unheard
<1>3. before' = [f \in DOMAIN Content |-> IF Content'[f] # Content[f] THEN Content[f] ELSE before[f]]
  BY <1>2 DEF Remember
<1> QED BY <1>1, <1>3 DEF Promise!Set, Promise!Overlaid, Promise!Fields, Unheard, Known

(* A request has been made if what it asks for is shown.                    *)
LEMMA MadeBy ==
  ASSUME NEW r, \A f \in Fields : f \in DOMAIN Promise!Change(r) => Promise!Change(r)[f] = Content[f]
  PROVE  Promise!Made(r)
<1> DEFINE new == Promise!Change(r)
<1>1. \A f \in Fields : f \in DOMAIN new => new[f] = Content[f] OBVIOUS
<1> HIDE DEF new
<1>2. [f \in DOMAIN Content |-> IF f \in DOMAIN new THEN new[f] ELSE Content[f]] = Content
  BY <1>1, ContentAt
<1> QED BY <1>2 DEF Promise!Made, Promise!Overlaid, new

(* What a request asks for, by its kind.                                    *)
LEMMA Asks ==
  ASSUME NEW r \in Requests, Wellformed(ask[r])
  PROVE  LET a == ask[r]  new == Promise!Change(r) IN
         /\ a.kind = "config" =>
              /\ DOMAIN new = {<<a.device, c>> : c \in DOMAIN a.edit}
              /\ \A c \in DOMAIN a.edit : new[<<a.device, c>>] = a.edit[c]
         /\ a.kind = "import" => DOMAIN new = {}
         /\ a.kind = "add" =>
              /\ DOMAIN new = {<<a.device, "selection">>}
              /\ new[<<a.device, "selection">>] = Content[<<a.device, "selection">>] \union a.rules
         /\ a.kind = "append" =>
              /\ DOMAIN new = {<<a.slug, "list">>}
              /\ new[<<a.slug, "list">>] =
                   IF Content[<<a.slug, "list">>] \in {NoList, Smart} THEN Content[<<a.slug, "list">>]
                   ELSE Content[<<a.slug, "list">>] \union a.tracks
         /\ a.kind = "save" =>
              DOMAIN new = {<<a.slug, "list">>} /\ new[<<a.slug, "list">>] = a.tracks
         /\ a.kind = "delete" /\ Content[<<a.slug, "list">>] = NoList =>
              DOMAIN new = {<<a.slug, "list">>} /\ new[<<a.slug, "list">>] = NoList
         /\ a.kind = "delete" /\ Content[<<a.slug, "list">>] # NoList =>
              /\ DOMAIN new = {<<a.slug, "list">>} \union {f \in Fields : f[2] = "subscriptions"}
              /\ new[<<a.slug, "list">>] = NoList
              /\ \A d \in Devices :
                   new[<<d, "subscriptions">>] = Content[<<d, "subscriptions">>] \ {a.slug}
<1> DEFINE a == ask[r]  new == Promise!Change(r)
<1>1. CASE a.kind = "config"
  <2>1. new = [f \in {<<a.device, c>> : c \in DOMAIN a.edit} |-> a.edit[f[2]]]
    BY <1>1 DEF Promise!Change, Promise!Scope
  <2>2. DOMAIN new = {<<a.device, c>> : c \in DOMAIN a.edit} BY <2>1
  <2>3. \A c \in DOMAIN a.edit : new[<<a.device, c>>] = a.edit[c] BY <2>1
  <2> QED BY <1>1, <2>2, <2>3
<1>2. CASE a.kind = "import"
  <2>1. new = [f \in {} |-> f] BY <1>2 DEF Promise!Change
  <2> QED BY <1>2, <2>1
<1>3. CASE a.kind = "add"
  <2>1. new = [f \in {<<a.device, "selection">>} |-> Content[f] \union a.rules]
    BY <1>3 DEF Promise!Change, Promise!Scope
  <2> QED BY <1>3, <2>1
<1>4. CASE a.kind = "append"
  <2>1. new = [f \in {<<a.slug, "list">>} |->
                 IF Content[f] \in {NoList, Smart} THEN Content[f] ELSE Content[f] \union a.tracks]
    BY <1>4 DEF Promise!Change, Promise!Scope, Promise!List
  <2> QED BY <1>4, <2>1
<1>5. CASE a.kind = "save"
  <2>1. new = [f \in {<<a.slug, "list">>} |-> a.tracks]
    BY <1>5 DEF Promise!Change, Promise!Scope, Promise!List
  <2> QED BY <1>5, <2>1
<1>6. CASE a.kind = "delete" /\ Content[<<a.slug, "list">>] = NoList
  <2>1. new = [f \in {<<a.slug, "list">>} |-> NoList]
    BY <1>6 DEF Promise!Change, Promise!Scope, Promise!List
  <2> QED BY <1>6, <2>1
<1>7. CASE a.kind = "delete" /\ Content[<<a.slug, "list">>] # NoList
  <2> DEFINE F == {<<a.slug, "list">>} \union {f \in Fields : f[2] = "subscriptions"}
  <2>1. F = {<<a.slug, "list">>} \union {f \in DOMAIN Content : f[2] = "subscriptions"} BY ContentAt
  <2>2. new = [f \in F |-> IF f = <<a.slug, "list">> THEN NoList ELSE Content[f] \ {a.slug}]
    BY <1>7, <2>1 DEF Promise!Change, Promise!Scope, Promise!List, Promise!Fields
  <2>3. DOMAIN new = F /\ new[<<a.slug, "list">>] = NoList BY <2>2
  <2>4. ASSUME NEW d \in Devices
        PROVE  new[<<d, "subscriptions">>] = Content[<<d, "subscriptions">>] \ {a.slug}
    <3>1. <<d, "subscriptions">> \in F /\ <<d, "subscriptions">> # <<a.slug, "list">>
      BY FieldsAre DEF Components
    <3> QED BY <2>2, <3>1
  <2> QED BY <1>7, <2>3, <2>4
<1> QED BY <1>1, <1>2, <1>3, <1>4, <1>5, <1>6, <1>7

(* The fields a request touches are those it asks to change.                *)
LEMMA TouchesAre ==
  ASSUME NEW r \in Requests, Wellformed(ask[r]), NEW f \in Fields
  PROVE  Touches(r, f) <=> f \in DOMAIN Promise!Change(r)
<1> DEFINE a == ask[r]
<1>1. a.kind \in {"config", "import", "add", "append", "save", "delete"} BY DEF Wellformed
<1>2. CASE a.kind = "config"
  <2>1. DOMAIN Promise!Change(r) = {<<a.device, c>> : c \in DOMAIN a.edit} BY <1>2, Asks
  <2>2. Touches(r, f) <=> f[1] = a.device /\ f[2] \in DOMAIN a.edit BY <1>2 DEF Touches
  <2>3. f = <<f[1], f[2]>> BY DEF Fields
  <2> QED BY <2>1, <2>2, <2>3
<1>3. CASE a.kind = "import" BY <1>3, Asks DEF Touches
<1>4. CASE a.kind = "add" BY <1>4, Asks DEF Touches
<1>5. CASE a.kind \in {"append", "save"} BY <1>5, Asks DEF Touches
<1>6. CASE a.kind = "delete"
  <2>1. Touches(r, f) <=> \/ f = <<a.slug, "list">>
                          \/ f[2] = "subscriptions" /\ Content[<<a.slug, "list">>] # NoList
    BY <1>6 DEF Touches
  <2> DEFINE new == Promise!Change(r)
  <2>2. Content[<<a.slug, "list">>] = NoList => DOMAIN new = {<<a.slug, "list">>}
    BY <1>6, Asks
  <2>3. Content[<<a.slug, "list">>] # NoList =>
          DOMAIN new = {<<a.slug, "list">>} \union {g \in Fields : g[2] = "subscriptions"}
    BY <1>6, Asks
  <2> HIDE DEF new
  <2>4. Touches(r, f) <=> f \in DOMAIN new BY <2>1, <2>2, <2>3
  <2> QED BY <2>4 DEF new
<1> QED BY <1>1, <1>2, <1>3, <1>4, <1>5, <1>6

(* A success answer.                                                        *)
LEMMA TellBy ==
  ASSUME Whole, Remember, NEW r \in Requests, Wellformed(ask[r]),
         ask' = ask, Known' = Known, Awaited(r),
         reply \in [Requests -> {"none", "done", "failed"}], reply' = [reply EXCEPT ![r] = "done"],
         \A d \in Devices : \A c \in Components : ConfigView(d, c)' = ConfigView(d, c),
         \A s \in Slugs : ListView(s)' = ListView(s),
         r \in Known \/ Promise!Made(r)
  PROVE  Promise!Tell(r)
<1>1. ASSUME NEW f \in Fields PROVE Content'[f] = Content[f]
  <2>1. CASE \E d \in Devices : \E c \in Components : f = <<d, c>>
    <3>1. PICK d \in Devices : \E c \in Components : f = <<d, c>> BY <2>1
    <3>2. PICK c \in Components : f = <<d, c>> BY <3>1
    <3>3. ConfigView(d, c)' = ConfigView(d, c) OBVIOUS
    <3> QED BY <3>2, <3>3, ContentAt, ContentAtNext
  <2>2. CASE \E s \in Slugs : f = <<s, "list">>
    <3>1. PICK s \in Slugs : f = <<s, "list">> BY <2>2
    <3>2. ListView(s)' = ListView(s) OBVIOUS
    <3> QED BY <3>1, <3>2, ContentAt, ContentAtNext
  <2> QED BY <2>1, <2>2, FieldsAre
<1>2. Content' = Content BY <1>1, ContentAt, ContentAtNext
<1>3. Told' = Told \union {r} /\ r \notin Told BY DEF Told, Awaited
<1>4. Told' \ Told = {r} BY <1>3
<1>5. before' = [f \in DOMAIN Content |-> IF Touches(r, f) THEN Content[f] ELSE before[f]]
  BY <1>2, <1>4 DEF Remember
<1>6. before' = [f \in DOMAIN Content |->
                   IF f \in DOMAIN Promise!Change(r) THEN Content[f] ELSE before[f]]
  BY <1>5, TouchesAre, ContentAt
<1> QED BY <1>2, <1>3, <1>6 DEF Promise!Tell, Promise!Fields, Known

(* A step shows what was there, and remembers what it replaces.             *)
LEMMA WholeNext ==
  ASSUME Remember
  PROVE  /\ Whole'
         /\ \A f \in Fields : before'[f] = IF Content'[f] # Content[f] THEN Content[f]
                                          ELSE IF \E r \in Told' \ Told : Touches(r, f) THEN Content[f]
                                          ELSE before[f]
BY ContentAt DEF Remember, Whole

(* A request that failed is still unanswered, and nobody is told.           *)
LEMMA FailedReply ==
  ASSUME Values, NEW r \in Requests, Awaited(r),
         reply' = reply \/ reply' = [reply EXCEPT ![r] = "failed"]
  PROVE  Told' = Told /\ \A x \in Requests : Awaited(x) => Awaited(x)'
BY DEF Values, Told, Awaited

(* With a commit pending at most, it shows what the commit replaces.        *)
LEMMA CommitViews ==
  ASSUME drop = None, library = None
  PROVE  /\ \A d \in Devices : \A c \in Components :
              ConfigView(d, c) = IF CommitDecides(d, c) THEN commit.parts[c].old ELSE config[d][c]
         /\ \A s \in Slugs : ListView(s) = Loaded(s)
BY DEF ConfigView, ListView, LibraryDecides, DropDecides

(* The same after a step.                                                   *)
LEMMA CommitViewsNext ==
  ASSUME drop' = None, library' = None
  PROVE  /\ \A d \in Devices : \A c \in Components :
              ConfigView(d, c)' = IF CommitDecides(d, c)' THEN commit'.parts[c].old ELSE config'[d][c]
         /\ \A s \in Slugs : ListView(s)' = Loaded(s)'
BY DEF ConfigView, ListView, LibraryDecides, DropDecides

(* With a deletion pending at most, its journal decides.                    *)
LEMMA DropViews ==
  ASSUME commit = None, library = None
  PROVE  /\ \A d \in Devices : \A c \in Components :
              ConfigView(d, c) = IF DropDecides(d, c) THEN drop.subs[d].new ELSE config[d][c]
         /\ \A s \in Slugs : ListView(s) =
              IF drop # None /\ drop.slug = s /\ drop.phase = "publishing" THEN NoList ELSE Loaded(s)
BY DEF ConfigView, ListView, LibraryDecides, CommitDecides

(* The same after a step.                                                   *)
LEMMA DropViewsNext ==
  ASSUME commit' = None, library' = None
  PROVE  /\ \A d \in Devices : \A c \in Components :
              ConfigView(d, c)' = IF DropDecides(d, c)' THEN drop'.subs[d].new ELSE config'[d][c]
         /\ \A s \in Slugs : ListView(s)' =
              IF drop' # None /\ drop'.slug = s /\ drop'.phase = "publishing" THEN NoList ELSE Loaded(s)'
BY DEF ConfigView, ListView, LibraryDecides, CommitDecides

(* With a library drop pending at most, its new value is shown.             *)
LEMMA LibraryViews ==
  ASSUME commit = None, drop = None
  PROVE  /\ \A d \in Devices : \A c \in Components :
              ConfigView(d, c) = IF c = "selection" /\ LibraryDecides(d) THEN library.new ELSE config[d][c]
         /\ \A s \in Slugs : ListView(s) = IF LibraryDecides(s) THEN library.new ELSE Loaded(s)
BY DEF ConfigView, ListView, DropDecides, CommitDecides

(* The same after a step.                                                   *)
LEMMA LibraryViewsNext ==
  ASSUME commit' = None, drop' = None
  PROVE  /\ \A d \in Devices : \A c \in Components :
              ConfigView(d, c)' =
                IF c = "selection" /\ LibraryDecides(d)' THEN library'.new ELSE config'[d][c]
         /\ \A s \in Slugs : ListView(s)' = IF LibraryDecides(s)' THEN library'.new ELSE Loaded(s)'
BY DEF ConfigView, ListView, DropDecides, CommitDecides

-----------------------------------------------------------------------------
(* A configuration commit.                                                   *)

Implemented == [Promise!Next]_(Promise!vars)

(* A step of the abstract specification.                                    *)
LEMMA Steps ==
  /\ UNCHANGED Promise!vars => Implemented
  /\ \A r \in Requests : Promise!Apply(r) \/ Promise!Partly(r) \/ Promise!TakeBack(r)
                        \/ Promise!Note(r) \/ Promise!Tell(r) => Implemented
  /\ \A f \in Fields : Promise!Prune(f) => Implemented
BY ContentAt DEF Implemented, Promise!Next, Promise!Fields

(* What holds of a task and a journal of a commit.                          *)
LEMMA Committing ==
  ASSUME IInv, PInv
  PROVE  /\ task.kind = "config" =>
              /\ ConfigTask(task) /\ Runs("config") /\ ConfigAsked
              /\ drop = None /\ library = None
              /\ task.step # "journal" => commit # None
         /\ commit # None =>
              /\ IsCommit(commit) /\ CommitKept /\ drop = None /\ library = None
              /\ commit.device \in Devices /\ DOMAIN commit.parts \subseteq Components
<1>1. Tasks /\ CommitAt /\ Journals BY DEF IInv, Shapes
<1>2. task.kind = "config" => ConfigTask(task) /\ Runs("config") BY <1>1, TaskKinds
<1>3. task.kind = "config" /\ task.step # "journal" => commit # None BY <1>1 DEF CommitAt
<1>4. commit # None => IsCommit(commit) BY <1>1 DEF Journals
<1> QED BY <1>2, <1>3, <1>4 DEF PInv, Alone, CommitPart, IsCommit

(* What a step of a commit leaves alone of the invariant.                   *)
LEMMA CommitRest ==
  ASSUME PInv, IInv, Remember, task.kind = "config", task'.kind \in {"config", "idle"},
         UNCHANGED <<drop, library>>, daemon' \in {daemon, "up", "down"},
         daemon' = "reconcile" /\ task'.kind = "idle" => commit' = None,
         Named', CommitPart'
  PROVE  PInv'
<1>1. drop = None /\ library = None /\ Runs("config") /\ ConfigTask(task) BY Committing
<1>2. daemon \in {"up", "reconcile", "config"} BY <1>1 DEF Runs, ConfigTask
<1>3. Serial' BY DEF Serial
<1>4. Alone' BY <1>1, <1>2 DEF Alone
<1>5. Whole' BY WholeNext
<1>6. DropPart' /\ LibraryPart' /\ SavePart' BY <1>1 DEF DropPart, LibraryPart, SavePart
<1> QED BY <1>3, <1>4, <1>5, <1>6 DEF PInv

(* A journal that is left alone keeps what it holds.                        *)
LEMMA CommitStays ==
  ASSUME CommitKept, UNCHANGED <<ask, revs, config, manual, smart, commit>>, before' = before,
         \A x \in Requests : Awaited(x) => Awaited(x)'
  PROVE  CommitKept'
<1>1. Undoable' <=> Undoable BY DEF Undoable, AtOriginal, LiveParts
<1>2. OfClient => OfClient' BY DEF OfClient
<1>3. OfRepair => OfRepair' BY DEF OfRepair, Present, Loaded
<1>4. LiveParts({"old", "new"})' BY DEF CommitKept, LiveParts
<1>5. NamedParts(commit.parts)' BY DEF CommitKept, NamedParts
<1> QED BY <1>1, <1>2, <1>3, <1>4, <1>5 DEF CommitKept, Part

(* What is shown while the files and the registry stay.                     *)
LEMMA ShownStays ==
  ASSUME drop = None, library = None, drop' = None, library' = None,
         UNCHANGED <<revs, config, manual, smart, commit>>
  PROVE  /\ \A d \in Devices : \A c \in Components : ConfigView(d, c)' = ConfigView(d, c)
         /\ \A s \in Slugs : ListView(s)' = ListView(s)
<1>1. \A d, c : CommitDecides(d, c)' <=> CommitDecides(d, c)
  BY DEF CommitDecides, Undoable, AtOriginal, LiveParts
<1>2. \A s : Loaded(s)' = Loaded(s) BY DEF Loaded
<1> QED BY <1>1, <1>2, CommitViews, CommitViewsNext

(* A commit that fails, with its journal or without.                        *)
LEMMA CommitGivesUp ==
  ASSUME IInv, PInv, Remember, task.kind = "config", EndCommit("failed"),
         UNCHANGED <<ask, registry, files, commit, drop, library, ledger, evicted>>
  PROVE  PInv' /\ Implemented
<1>1. /\ ConfigTask(task) /\ ConfigAsked /\ drop = None /\ library = None
      /\ commit # None => CommitKept
  BY Committing
<1>2. Values BY DEF IInv, Shapes
<1>3. UNCHANGED <<revs, saved, imported, config, manual, smart, listRev>> BY DEF registry, files
<1>4. task' = NoTask /\ task'.kind = "idle"
      /\ daemon' \in {daemon, "up", "down"} /\ (task.who = "client" \/ daemon' # daemon \/ daemon' # "reconcile")
      /\ \/ task.who = "client" /\ reply' = [reply EXCEPT ![task.req] = "failed"] /\ daemon' = daemon
         \/ task.who # "client" /\ reply' = reply /\ daemon' \in {"up", "down"}
  BY <1>1, IdleKind DEF EndCommit, Answer, ConfigTask
<1>5. Told' = Told /\ \A x \in Requests : Awaited(x) => Awaited(x)'
  <2>1. CASE task.who = "client" BY <1>1, <1>2, <1>4, <2>1, FailedReply DEF ConfigAsked
  <2>2. CASE task.who # "client" BY <1>4, <2>2 DEF Told, Awaited
  <2> QED BY <2>1, <2>2
<1>6. Unheard BY <1>5 DEF Unheard, Known
<1>7. /\ \A d \in Devices : \A c \in Components : ConfigView(d, c)' = ConfigView(d, c)
      /\ \A s \in Slugs : ListView(s)' = ListView(s)
  BY <1>1, <1>3, ShownStays
<1>8. UNCHANGED Promise!vars /\ before' = before BY <1>6, <1>7, NoStep DEF PInv
<1>9. commit # None => CommitKept' BY <1>1, <1>3, <1>5, <1>8, CommitStays
<1>10. CommitPart' BY <1>4, <1>9 DEF CommitPart
<1>11. Named' BY <1>3 DEF PInv, Named
<1>12. daemon' # "reconcile"
  <2>1. Runs("config") BY Committing
  <2> QED BY <1>4, <2>1 DEF Runs
<1> QED BY <1>4, <1>8, <1>10, <1>11, <1>12, CommitRest, Steps

(* The journal is written: what is shown is what it keeps as the original.  *)
LEMMA JournalCommitPromised ==
  ASSUME IInv, PInv, Remember, JournalCommit
  PROVE  PInv' /\ Implemented
<1>1. task.kind = "config" /\ task.step = "journal" BY DEF JournalCommit, InCommit
<1>2. UNCHANGED <<ask, registry, files, drop, staged, library, ledger, prepared, evicted, crashes>>
  BY DEF JournalCommit
<1>3. CASE Failed /\ EndCommit("failed") /\ UNCHANGED commit BY <1>1, <1>2, <1>3, CommitGivesUp
<1>4. CASE ~ (Failed /\ EndCommit("failed") /\ UNCHANGED commit)
  <2> DEFINE d == task.device  e == task.edit
             j == [req |-> task.req, device |-> d, revs |-> revs[d],
                   parts |-> [c \in DOMAIN e |-> [old |-> config[d][c], new |-> e[c]]]]
  <2>1. commit' = j /\ To("publish") /\ UNCHANGED <<daemon, reply>> BY <1>4 DEF JournalCommit
  <2>2. /\ ConfigTask(task) /\ ConfigAsked /\ drop = None /\ library = None /\ commit = None
    BY <1>1, Committing DEF ConfigAsked
  <2>3. task' = [task EXCEPT !.step = "publish"] BY <2>1 DEF To
  <2>4. /\ task'.kind = "config" /\ task'.step = "publish" /\ task'.who = task.who
        /\ task'.req = task.req /\ task'.device = d /\ task'.edit = e
    BY <1>1, <2>2, <2>3 DEF ConfigTask
  <2>5. /\ UNCHANGED <<revs, saved, imported, config, manual, smart, listRev, drop, library>>
    BY <1>2 DEF registry, files
  <2>6. /\ commit'.req = task.req /\ commit'.device = d /\ commit'.revs = revs[d]
        /\ DOMAIN commit'.parts = DOMAIN e
        /\ \A c \in DOMAIN e : commit'.parts[c].old = config[d][c] /\ commit'.parts[c].new = e[c]
    BY <2>1
  <2>7. commit' # None
    <3>1. "req" \in DOMAIN commit' /\ "req" \notin DOMAIN None BY <2>1 DEF None
    <3> QED BY <3>1
  <2> HIDE DEF j
  <2>8. task.who # "boot" /\ d \in Devices /\ DOMAIN e \subseteq Components
    BY <1>1, <2>2 DEF ConfigTask, Edits
  <2>9. Undoable' /\ LiveParts({"old", "new"})'
    <3>1. AtOriginal' BY <2>5, <2>6 DEF AtOriginal
    <3>2. LiveParts({"old", "new"})' BY <2>5, <2>6 DEF LiveParts
    <3> QED BY <3>1, <3>2 DEF Undoable
  <2>10. Unheard BY <1>2, <2>1 DEF Unheard, Told, Known
  <2>11. ASSUME NEW x \in Devices, NEW c \in Components PROVE ConfigView(x, c)' = ConfigView(x, c)
    <3>1. ConfigView(x, c) = config[x][c] BY <2>2, CommitViews DEF CommitDecides
    <3>2. ConfigView(x, c)' = IF CommitDecides(x, c)' THEN commit'.parts[c].old ELSE config'[x][c]
      BY <2>2, <2>5, CommitViewsNext
    <3>3. CommitDecides(x, c)' => x = d /\ c \in DOMAIN e BY <2>6 DEF CommitDecides
    <3> QED BY <2>5, <2>6, <3>1, <3>2, <3>3
  <2>12. ASSUME NEW s \in Slugs PROVE ListView(s)' = ListView(s)
    BY <2>2, <2>5, CommitViews, CommitViewsNext DEF Loaded
  <2>13. UNCHANGED Promise!vars BY <2>10, <2>11, <2>12, NoStep DEF PInv
  <2>14. CommitKept'
    <3>1. OfClient' \/ OfRepair'
      <4>1. CASE task.who = "client"
        BY <1>2, <2>1, <2>2, <2>6, <4>1 DEF OfClient, ConfigAsked, Awaited
      <4>2. CASE task.who = "repair"
        <5>1. Present(config[d].subscriptions)' = Present(config[d].subscriptions)
          <6>1. manual' = manual /\ smart' = smart /\ d' = d /\ config' = config
            BY <2>4, <2>5
          <6> QED BY <6>1 DEF Present, Loaded
        <5>2. /\ e["subscriptions"] = Present(config[d].subscriptions)
              /\ DOMAIN e = {"subscriptions"} /\ task.req = "repair"
          BY <1>1, <2>2, <4>2 DEF ConfigAsked
        <5>3. commit'.parts["subscriptions"].old = config[d].subscriptions BY <2>6, <5>2
        <5>4. commit'.parts["subscriptions"].new = e["subscriptions"] BY <2>6, <5>2
        <5>5. Present(commit.parts["subscriptions"].old)' = Present(config[d].subscriptions)
          BY <2>5, <5>3 DEF Present, Loaded
        <5> QED BY <2>6, <5>2, <5>4, <5>5 DEF OfRepair
      <4> QED BY <2>2, <2>8, <4>1, <4>2 DEF ConfigTask
    <3>2. NamedParts(commit.parts)'
      BY <2>2, <2>6, <2>8 DEF NamedParts, PInv, Named, ConfigAsked
    <3> QED BY <2>9, <3>1, <3>2 DEF CommitKept
  <2>15. ConfigAsked' BY <1>1, <1>2, <2>1, <2>2, <2>4, <2>5, <2>6 DEF ConfigAsked, Awaited
  <2>16. CommitPart' BY <2>14, <2>15 DEF CommitPart
  <2>17. Named' BY <2>5 DEF PInv, Named
  <2> QED BY <1>1, <2>1, <2>4, <2>5, <2>13, <2>16, <2>17, CommitRest, Steps
<1> QED BY <1>3, <1>4

(* A component is written: the journal's original is still what is shown.   *)
LEMMA PublishComponentPromised ==
  ASSUME IInv, PInv, Remember, PublishComponent
  PROVE  PInv' /\ Implemented
<1>1. task.kind = "config" /\ task.step = "publish" BY DEF PublishComponent, InCommit
<1>2. UNCHANGED <<ask, daemon, registry, manual, smart, listRev, journals, answers, crashes>>
  BY DEF PublishComponent
<1>3. PICK c \in task.left :
       \/ /\ config' = [config EXCEPT ![task.device][c] = task.edit[c]]
          /\ task' = [task EXCEPT !.left = @ \ {c}, !.done = @ \union {c}]
       \/ /\ task' = [task EXCEPT !.left = @ \ {c}]
          /\ UNCHANGED config
  BY DEF PublishComponent
<1>4. /\ ConfigTask(task) /\ Runs("config") /\ ConfigAsked /\ drop = None /\ library = None
      /\ commit # None /\ IsCommit(commit) /\ CommitKept
  BY <1>1, Committing
<1>5. UNCHANGED <<ask, daemon, revs, saved, imported, manual, smart, listRev, commit, drop, library,
                 ledger, reply, evicted>>
  BY <1>2 DEF registry, journals, answers
<1>6. /\ commit.device = task.device /\ AtOriginal /\ DOMAIN commit.parts = DOMAIN task.edit
      /\ c \in DOMAIN commit.parts
      /\ \A x \in DOMAIN commit.parts : commit.parts[x].new = task.edit[x]
  BY <1>1 DEF IInv, CommitAt
<1>7. /\ task'.kind = "config" /\ task'.step = "publish" /\ task'.who = task.who
      /\ task'.req = task.req /\ task'.device = task.device /\ task'.edit = task.edit
  BY <1>1, <1>3, <1>4 DEF ConfigTask
<1>8. task.device \in Devices /\ c \in Components /\ task.who # "boot"
  BY <1>1, <1>4, <1>6 DEF ConfigTask, IsCommit
<1>9. Values BY DEF IInv, Shapes
<1>10. /\ config'[task.device][c] \in {config[task.device][c], commit.parts[c].new}
       /\ \A x \in Devices : \A y \in Components :
            x # task.device \/ y # c => config'[x][y] = config[x][y]
  <2>1. CASE UNCHANGED config BY <2>1
  <2>2. CASE config' = [config EXCEPT ![task.device][c] = task.edit[c]]
    BY <1>6, <1>8, <1>9, <2>2 DEF Values
  <2> QED BY <1>3, <2>1, <2>2
<1>11. LiveParts({"old", "new"}) BY <1>4 DEF CommitKept
<1>12. LiveParts({"old", "new"})'
  <2>1. \A x \in DOMAIN commit.parts : x \in Components BY <1>4 DEF IsCommit
  <2> QED BY <1>5, <1>6, <1>8, <1>10, <1>11, <2>1 DEF LiveParts
<1>13. Undoable /\ Undoable'
  <2>1. AtOriginal' BY <1>5, <1>6 DEF AtOriginal
  <2> QED BY <1>6, <1>11, <1>12, <2>1 DEF Undoable
<1>14. ASSUME NEW x \in Devices, NEW y \in Components PROVE ConfigView(x, y)' = ConfigView(x, y)
  <2>1. CommitDecides(x, y)' <=> CommitDecides(x, y) BY <1>5, <1>13 DEF CommitDecides
  <2>2. ~ CommitDecides(x, y) => config'[x][y] = config[x][y]
    BY <1>4, <1>6, <1>10, <1>13 DEF CommitDecides
  <2> QED BY <1>4, <1>5, <2>1, <2>2, CommitViews, CommitViewsNext
<1>15. ASSUME NEW s \in Slugs PROVE ListView(s)' = ListView(s)
  BY <1>4, <1>5, CommitViews, CommitViewsNext DEF Loaded
<1>16. Unheard BY <1>5 DEF Unheard, Told, Known
<1>17. UNCHANGED Promise!vars /\ before' = before BY <1>14, <1>15, <1>16, NoStep DEF PInv
<1>18. CommitKept'
  <2>1. OfClient => OfClient' BY <1>5 DEF OfClient, Awaited
  <2>2. OfRepair => OfRepair' BY <1>5 DEF OfRepair, Present, Loaded
  <2>3. NamedParts(commit.parts)' BY <1>4, <1>5 DEF CommitKept, NamedParts
  <2> QED BY <1>4, <1>12, <1>13, <2>1, <2>2, <2>3 DEF CommitKept
<1>19. ConfigAsked'
  <2>1. CASE task.who = "client"
    <3>1. ASSUME NEW y \in DOMAIN ask[task.req].edit, y \notin DOMAIN task.edit
          PROVE  config'[task.device][y] = ask[task.req].edit[y]
      <4>1. y \in Components
        <5>1. Wellformed(ask[task.req]) BY <1>4, <1>9, <2>1, Asked DEF ConfigAsked
        <5> QED BY <1>4, <2>1, <5>1 DEF Wellformed, Edits, ConfigAsked
      <4>2. config[task.device][y] = ask[task.req].edit[y] BY <1>1, <1>4, <2>1, <3>1 DEF ConfigAsked
      <4>3. y # c BY <1>6, <3>1
      <4> QED BY <1>8, <1>10, <4>1, <4>2, <4>3
    <3> QED BY <1>1, <1>4, <1>5, <1>7, <2>1, <3>1 DEF ConfigAsked, Awaited
  <2>2. CASE task.who # "client" BY <1>1, <1>4, <1>5, <1>7, <2>2 DEF ConfigAsked
  <2> QED BY <2>1, <2>2
<1>20. Named'
  <2>1. NamedParts(commit.parts) BY <1>4 DEF CommitKept
  <2>2. "subscriptions" \in Components BY DEF Components
  <2> QED BY <1>6, <1>10, <2>1, <2>2 DEF PInv, Named, NamedParts
<1>21. CommitPart' BY <1>18, <1>19 DEF CommitPart
<1> QED BY <1>1, <1>5, <1>7, <1>17, <1>20, <1>21, CommitRest, Steps

(* A journal goes that shows nothing but what is live.                      *)
LEMMA CommitLeaves ==
  ASSUME IInv, PInv, Remember, task.kind = "config", task' = NoTask, commit' = None,
         daemon' \in {daemon, "up", "down"},
         \/ reply' = reply
         \/ task.who = "client" /\ reply' = [reply EXCEPT ![task.req] = "failed"],
         UNCHANGED <<ask, registry, files, drop, library, ledger, evicted>>,
         Undoable => \A c \in DOMAIN commit.parts : Part(c) = commit.parts[c].old
  PROVE  PInv' /\ Implemented
<1>1. ConfigTask(task) /\ ConfigAsked /\ drop = None /\ library = None BY Committing
<1>2. Values BY DEF IInv, Shapes
<1>3. UNCHANGED <<revs, saved, imported, config, manual, smart, listRev, drop, library>>
  BY DEF registry, files
<1>4. Told' = Told
  <2>1. CASE reply' = reply BY <2>1 DEF Told
  <2>2. CASE reply' # reply BY <1>1, <1>2, <2>2, FailedReply DEF ConfigAsked
  <2> QED BY <2>1, <2>2
<1>5. Unheard BY <1>4 DEF Unheard, Known
<1>6. ASSUME NEW x \in Devices, NEW y \in Components PROVE ConfigView(x, y)' = ConfigView(x, y)
  <2>1. ConfigView(x, y)' = config'[x][y] BY <1>1, <1>3, CommitViewsNext DEF CommitDecides
  <2>2. ConfigView(x, y) = config[x][y] BY <1>1, CommitViews DEF CommitDecides, Part
  <2> QED BY <1>3, <2>1, <2>2
<1>7. ASSUME NEW s \in Slugs PROVE ListView(s)' = ListView(s)
  BY <1>1, <1>3, CommitViews, CommitViewsNext DEF Loaded
<1>8. UNCHANGED Promise!vars BY <1>5, <1>6, <1>7, NoStep DEF PInv
<1>9. task'.kind = "idle" BY IdleKind
<1>10. CommitPart' BY <1>9 DEF CommitPart
<1>11. Named' BY <1>3 DEF PInv, Named
<1> QED BY <1>3, <1>8, <1>9, <1>10, <1>11, CommitRest, Steps

(* The journal is narrowed to the components that were written, or goes.   *)
LEMMA NarrowPromised ==
  ASSUME IInv, PInv, Remember, Narrow
  PROVE  PInv' /\ Implemented
<1>1. task.kind = "config" /\ task.step = "publish" /\ task.left = {} BY DEF Narrow, InCommit
<1>2. UNCHANGED <<ask, registry, files, drop, staged, library, ledger, prepared, evicted, crashes>>
  BY DEF Narrow
<1>3. /\ ConfigTask(task) /\ Runs("config") /\ ConfigAsked /\ drop = None /\ library = None
      /\ commit # None /\ IsCommit(commit) /\ CommitKept
  BY <1>1, Committing
<1>4. /\ commit.device = task.device /\ AtOriginal /\ DOMAIN commit.parts = DOMAIN task.edit
      /\ task.done \subseteq DOMAIN commit.parts
      /\ \A x \in DOMAIN commit.parts :
           /\ commit.parts[x].new = task.edit[x]
           /\ Part(x) = IF x \in task.done THEN commit.parts[x].new ELSE commit.parts[x].old
  BY <1>1 DEF IInv, CommitAt
<1>5. UNCHANGED <<revs, saved, imported, config, manual, smart, listRev, drop, library>>
  BY <1>2 DEF registry, files
<1>6. CASE EndCommit("failed") /\ UNCHANGED commit BY <1>1, <1>2, <1>6, CommitGivesUp
<1>7. CASE task.done = {} /\ commit' = None /\ EndCommit("failed")
  <2>1. task' = NoTask /\ daemon' \in {daemon, "up", "down"}
        /\ (reply' = reply \/ (task.who = "client" /\ reply' = [reply EXCEPT ![task.req] = "failed"]))
    BY <1>3, <1>7 DEF EndCommit, Answer, ConfigTask
  <2>2. \A c \in DOMAIN commit.parts : Part(c) = commit.parts[c].old BY <1>4, <1>7
  <2> QED BY <1>1, <1>2, <1>7, <2>1, <2>2, CommitLeaves
<1>8. CASE /\ UNCHANGED <<daemon, reply, commit>>
           /\ \/ task' = [task EXCEPT !.step = "restore", !.left = task.done]
              \/ task.done = DOMAIN commit.parts /\ task' = [task EXCEPT !.step = "advance"]
  <2>1. /\ task'.kind = "config" /\ task'.step \in {"advance", "restore"} /\ task'.who = task.who
        /\ task'.req = task.req /\ task'.device = task.device /\ task'.edit = task.edit
        /\ task'.done = task.done
        /\ task'.step = "advance" => task.done = DOMAIN commit.parts
    BY <1>1, <1>3, <1>8 DEF ConfigTask
  <2>2. Unheard BY <1>2, <1>8 DEF Unheard, Told, Known
  <2>3. /\ \A d \in Devices : \A c \in Components : ConfigView(d, c)' = ConfigView(d, c)
        /\ \A s \in Slugs : ListView(s)' = ListView(s)
    BY <1>3, <1>5, <1>8, ShownStays
  <2>4. UNCHANGED Promise!vars /\ before' = before BY <2>2, <2>3, NoStep DEF PInv
  <2>5. CommitKept' BY <1>2, <1>3, <1>5, <1>8, <2>4, CommitStays DEF Awaited
  <2>6. ConfigAsked' BY <1>1, <1>2, <1>3, <1>4, <1>5, <1>8, <2>1 DEF ConfigAsked, Awaited
  <2>7. CommitPart' BY <2>5, <2>6 DEF CommitPart
  <2>8. Named' BY <1>5 DEF PInv, Named
  <2> QED BY <1>1, <1>5, <1>8, <2>1, <2>4, <2>7, <2>8, CommitRest, Steps
<1>9. CASE /\ task.done # {} /\ commit' = Restricted(commit, task.done) /\ To("advance")
           /\ UNCHANGED <<daemon, reply>>
  <2>1. /\ commit'.req = commit.req /\ commit'.device = commit.device /\ commit'.revs = commit.revs
        /\ DOMAIN commit'.parts = task.done
        /\ \A c \in task.done : commit'.parts[c] = commit.parts[c]
    BY <1>3, <1>9 DEF Restricted, IsCommit
  <2>2. commit' # None
    <3>1. DOMAIN commit' = DOMAIN commit BY <1>9 DEF Restricted
    <3>2. "req" \in DOMAIN commit' /\ "req" \notin DOMAIN None BY <1>3, <3>1 DEF IsCommit, None
    <3> QED BY <3>2
  <2>3. task' = [task EXCEPT !.step = "advance"] BY <1>9 DEF To
  <2>4. /\ task'.kind = "config" /\ task'.step = "advance" /\ task'.who = task.who
        /\ task'.req = task.req /\ task'.device = task.device /\ task'.edit = task.edit
        /\ task'.done = task.done
    BY <1>1, <1>3, <2>3 DEF ConfigTask
  <2>5. LiveParts({"old", "new"}) /\ Undoable BY <1>3, <1>4 DEF CommitKept, Undoable
  <2>6. Undoable' /\ LiveParts({"old", "new"})'
    <3>1. AtOriginal' BY <1>4, <1>5, <2>1 DEF AtOriginal
    <3>2. LiveParts({"old", "new"})' BY <1>4, <1>5, <2>1, <2>5 DEF LiveParts
    <3> QED BY <3>1, <3>2 DEF Undoable
  <2>7. Unheard BY <1>2, <1>9 DEF Unheard, Told, Known
  <2>8. ASSUME NEW x \in Devices, NEW y \in Components PROVE ConfigView(x, y)' = ConfigView(x, y)
    <3>1. ConfigView(x, y) = IF CommitDecides(x, y) THEN commit.parts[y].old ELSE config[x][y]
      BY <1>3, CommitViews
    <3>2. ConfigView(x, y)' = IF CommitDecides(x, y)' THEN commit'.parts[y].old ELSE config'[x][y]
      BY <1>3, <1>5, CommitViewsNext
    <3>3. CommitDecides(x, y)' <=> x = commit.device /\ y \in task.done
      BY <2>1, <2>2, <2>6 DEF CommitDecides
    <3>4. CommitDecides(x, y) <=> x = commit.device /\ y \in DOMAIN commit.parts
      BY <1>3, <2>5 DEF CommitDecides
    <3>5. CASE y \in task.done BY <1>4, <1>5, <2>1, <3>1, <3>2, <3>3, <3>4, <3>5
    <3>6. CASE y \notin task.done
      <4>1. x = commit.device /\ y \in DOMAIN commit.parts => config[x][y] = commit.parts[y].old
        BY <1>4, <3>6 DEF Part
      <4> QED BY <1>5, <3>1, <3>2, <3>3, <3>4, <3>6, <4>1
    <3> QED BY <3>5, <3>6
  <2>9. ASSUME NEW s \in Slugs PROVE ListView(s)' = ListView(s)
    BY <1>3, <1>5, CommitViews, CommitViewsNext DEF Loaded
  <2>10. UNCHANGED Promise!vars /\ before' = before BY <2>7, <2>8, <2>9, NoStep DEF PInv
  <2>11. CommitKept'
    <3>1. OfClient => OfClient' BY <1>2, <1>4, <1>9, <2>1 DEF OfClient, Awaited
    <3>2. task.done # {} => (OfRepair => OfRepair')
      <4> SUFFICES ASSUME task.done # {}, OfRepair PROVE OfRepair' OBVIOUS
      <4>1. task.done = {"subscriptions"} BY <1>4 DEF OfRepair
      <4> QED BY <1>5, <2>1, <4>1 DEF OfRepair, Present, Loaded
    <3>3. NamedParts(commit.parts)'
      BY <1>3, <1>4, <2>1 DEF CommitKept, NamedParts
    <3> QED BY <1>3, <1>9, <2>6, <3>1, <3>2, <3>3 DEF CommitKept
  <2>12. ConfigAsked' BY <1>1, <1>2, <1>3, <1>4, <1>5, <1>9, <2>1, <2>4 DEF ConfigAsked, Awaited
  <2>13. CommitPart' BY <2>11, <2>12 DEF CommitPart
  <2>14. Named' BY <1>5 DEF PInv, Named
  <2> QED BY <1>1, <1>5, <1>9, <2>4, <2>10, <2>13, <2>14, CommitRest, Steps
<1>10. DOMAIN commit.parts # {} BY <1>3 DEF IsCommit
<1>11. \/ task.done = DOMAIN commit.parts /\ To("advance") /\ UNCHANGED <<daemon, reply, commit>>
       \/ task.done = {} /\ commit' = None /\ EndCommit("failed")
       \/ EndCommit("failed") /\ UNCHANGED commit
       \/ /\ task.done # {} /\ commit' = Restricted(commit, task.done) /\ To("advance")
          /\ UNCHANGED <<daemon, reply>>
       \/ /\ task' = [task EXCEPT !.step = "restore", !.left = task.done]
          /\ UNCHANGED <<daemon, reply, commit>>
  <2>1. CASE task.done = DOMAIN commit.parts BY <1>10, <2>1 DEF Narrow
  <2>2. CASE task.done = {} BY <1>10, <2>2 DEF Narrow
  <2>3. CASE task.done # DOMAIN commit.parts /\ task.done # {} BY <2>3 DEF Narrow
  <2> QED BY <2>1, <2>2, <2>3
<1> QED BY <1>6, <1>7, <1>8, <1>9, <1>11 DEF To

(* The registry moves past a pending journal, or back before it: what the   *)
(* journal names is done, or taken back.                                    *)
LEMMA Turned ==
  ASSUME IInv, Whole, Remember, commit # None, CommitKept, drop = None, library = None,
         UNCHANGED <<ask, config, manual, smart, reply, ledger, evicted, commit, drop, library>>
  PROVE  CommitKept' /\ Implemented
<1> DEFINE d == commit.device
           P == DOMAIN commit.parts
<1>1. IsCommit(commit) /\ Values BY DEF IInv, Shapes, Journals
<1>2. d \in Devices /\ P \subseteq Components BY <1>1 DEF IsCommit
<1>3. /\ OfClient => OfClient'
      /\ OfRepair => OfRepair'
      /\ NamedParts(commit.parts)'
      /\ LiveParts({"old", "new"}) /\ LiveParts({"old", "new"})'
  BY DEF CommitKept, OfClient, OfRepair, Present, Loaded, NamedParts, LiveParts, Awaited
<1>4. Unheard BY DEF Unheard, Told, Known
<1>5. \A s \in Slugs : ListView(s)' = ListView(s) BY CommitViews, CommitViewsNext DEF Loaded
<1>6. \A x \in Devices : \A y \in Components :
        /\ ConfigView(x, y) = IF Undoable /\ x = d /\ y \in P THEN commit.parts[y].old ELSE config[x][y]
        /\ ConfigView(x, y)' = IF Undoable' /\ x = d /\ y \in P THEN commit.parts[y].old ELSE config[x][y]
  BY CommitViews, CommitViewsNext DEF CommitDecides
<1>7. \A x \in P : Part(x) \in {commit.parts[x].old, commit.parts[x].new} BY <1>3 DEF LiveParts, Part
<1>8. (Part(1))' = Part(1) /\ \A x : Part(x)' = Part(x) BY DEF Part
<1>9. CASE Undoable' <=> Undoable
  <2>1. \A x \in Devices : \A y \in Components : ConfigView(x, y)' = ConfigView(x, y) BY <1>6, <1>9
  <2>2. UNCHANGED Promise!vars /\ before' = before BY <1>4, <1>5, <2>1, NoStep
  <2>3. CommitKept' BY <1>3, <1>8, <1>9, <2>2 DEF CommitKept
  <2> QED BY <2>2, <2>3, Steps
<1>10. CASE ~ (Undoable' <=> Undoable)
  <2> DEFINE M == {x \in P : Part(x) # commit.parts[x].old}
             G == {<<d, x>> : x \in M}
  <2>1. \A f \in Fields : f \notin G => Content'[f] = Content[f]
    <3> SUFFICES ASSUME NEW f \in Fields, f \notin G PROVE Content'[f] = Content[f] OBVIOUS
    <3>1. CASE \E x \in Devices : \E y \in Components : f = <<x, y>>
      <4>1. PICK x \in Devices : \E y \in Components : f = <<x, y>> BY <3>1
      <4>2. PICK y \in Components : f = <<x, y>> BY <4>1
      <4>3. x = d /\ y \in P => config[x][y] = commit.parts[y].old BY <4>2 DEF Part
      <4>4. ConfigView(x, y)' = ConfigView(x, y) BY <1>6, <4>3
      <4> QED BY <4>2, <4>4, ContentAt, ContentAtNext
    <3>2. CASE \E s \in Slugs : f = <<s, "list">> BY <1>5, <3>2, ContentAt, ContentAtNext
    <3> QED BY <3>1, <3>2, FieldsAre
  <2>2. \A x \in M : /\ x \in P /\ x \in Components /\ <<d, x>> \in Fields /\ <<d, x>> \in G
                     /\ Part(x) = commit.parts[x].new /\ Part(x) # commit.parts[x].old
                     /\ Content[<<d, x>>] = IF Undoable THEN commit.parts[x].old ELSE commit.parts[x].new
                     /\ Content'[<<d, x>>] = IF Undoable' THEN commit.parts[x].old ELSE commit.parts[x].new
    <3> SUFFICES ASSUME NEW x \in M
                 PROVE  /\ x \in P /\ x \in Components /\ <<d, x>> \in Fields /\ <<d, x>> \in G
                        /\ Part(x) = commit.parts[x].new /\ Part(x) # commit.parts[x].old
                        /\ Content[<<d, x>>] = IF Undoable THEN commit.parts[x].old ELSE commit.parts[x].new
                        /\ Content'[<<d, x>>] = IF Undoable' THEN commit.parts[x].old ELSE commit.parts[x].new
      OBVIOUS
    <3>1. x \in P /\ x \in Components /\ <<d, x>> \in G BY <1>2
    <3>2. <<d, x>> \in Fields BY <1>2, <3>1, FieldsAre
    <3>3. Part(x) = commit.parts[x].new /\ Part(x) # commit.parts[x].old BY <1>7
    <3>4. config[d][x] = commit.parts[x].new BY <3>3 DEF Part
    <3>5. Content[<<d, x>>] = ConfigView(d, x) BY <1>2, <3>1, ContentAt
    <3>6. Content'[<<d, x>>] = ConfigView(d, x)' BY <1>2, <3>1, ContentAtNext
    <3> QED BY <1>2, <1>6, <3>1, <3>2, <3>3, <3>4, <3>5, <3>6
  <2> HIDE DEF M
  <2>3. \A f \in Fields : f \in G => \E x \in M : f = <<d, x>> OBVIOUS
  <2>4. Told' \ Told = {} BY <1>4 DEF Unheard
  <2>5. CommitKept'
    <3>1. ASSUME ~ Undoable', NEW x \in P, Part(x) # commit.parts[x].old
          PROVE  before'[<<d, x>>] = commit.parts[x].old
      <4>1. x \in M BY <3>1 DEF M
      <4>2. Content[<<d, x>>] = commit.parts[x].old /\ Content'[<<d, x>>] = commit.parts[x].new
        BY <1>10, <2>2, <3>1, <4>1
      <4>3. before'[<<d, x>>] = Content[<<d, x>>] BY <2>2, <3>1, <4>1, <4>2, WholeNext
      <4> QED BY <4>2, <4>3
    <3>2. ~ Undoable' => \A x \in DOMAIN commit'.parts :
            (Part(x) # commit.parts[x].old)' => before'[<<commit'.device, x>>] = commit'.parts[x].old
      BY <1>8, <3>1
    <3> QED BY <1>3, <3>2 DEF CommitKept
  <2>6. CASE Undoable /\ ~ Undoable' /\ OfClient
    <3> DEFINE r == commit.req
    <3>1. r \in Requests /\ r \notin Told /\ Wellformed(ask[r]) BY <1>1, <2>6, Asked DEF OfClient, Awaited, Told
    <3>2. /\ DOMAIN Promise!Change(r) = {<<d, c>> : c \in DOMAIN ask[r].edit}
          /\ \A c \in DOMAIN ask[r].edit : Promise!Change(r)[<<d, c>>] = ask[r].edit[c]
      <4>1. ask[r].kind = "config" /\ ask[r].device = d BY <2>6 DEF OfClient
      <4> HIDE DEF r, d
      <4> QED BY <3>1, <4>1, Asks
    <3>3. \A x \in M : <<d, x>> \in DOMAIN Promise!Change(r)
                       /\ Promise!Change(r)[<<d, x>>] = commit.parts[x].new
      BY <2>2, <2>6, <3>2 DEF OfClient
    <3>4. G \in SUBSET DOMAIN Promise!Change(r) BY <3>3
    <3> DEFINE new == [f \in G |-> Promise!Change(r)[f]]
    <3>5. \A f \in Fields : Content'[f] = IF f \in DOMAIN new THEN new[f] ELSE Content[f]
      BY <2>1, <2>2, <2>3, <2>6, <3>3
    <3>6. Promise!Set(new) BY <1>4, <3>5, SetBy
    <3>7. Promise!Partly(r) BY <2>6, <3>1, <3>4, <3>6 DEF Promise!Partly, OfClient
    <3> QED BY <2>5, <3>1, <3>7, Steps
  <2>7. CASE ~ Undoable /\ Undoable' /\ OfClient
    <3> DEFINE r == commit.req
    <3>1. r \in Requests /\ r \notin Told BY <2>7 DEF OfClient, Awaited, Told
    <3>2. \A x \in M : before[<<d, x>>] = commit.parts[x].old BY <2>2, <2>7 DEF CommitKept
    <3>3. Promise!Scope(r) = {<<d, c>> : c \in DOMAIN ask[r].edit} BY <2>7 DEF OfClient, Promise!Scope
    <3>4. G \in SUBSET Promise!Scope(r) BY <2>2, <2>7, <3>3 DEF OfClient
    <3> DEFINE new == [f \in G |-> before[f]]
    <3>5. \A f \in Fields : Content'[f] = IF f \in DOMAIN new THEN new[f] ELSE Content[f]
      BY <2>1, <2>2, <2>3, <2>7, <3>2
    <3>6. Promise!Set(new) BY <1>4, <3>5, SetBy
    <3>7. Promise!TakeBack(r) BY <3>1, <3>4, <3>6 DEF Promise!TakeBack
    <3> QED BY <2>5, <3>1, <3>7, Steps
  <2>8. CASE OfRepair /\ M # {}
    <3> DEFINE subs == <<d, "subscriptions">>
    <3>1. M = {"subscriptions"} BY <2>2, <2>8 DEF OfRepair
    <3>2. G = {subs} BY <3>1
    <3>3. subs \in Fields /\ subs[2] = "subscriptions" BY <2>2, <3>1
    <3>4. CASE Undoable /\ ~ Undoable'
      <4>1. Content[subs] = commit.parts["subscriptions"].old /\ Content'[subs] = commit.parts["subscriptions"].new
        BY <2>2, <3>1, <3>4
      <4>2. "subscriptions" \in P BY <2>2, <3>1
      <4>3. Content[subs] \subseteq Slugs BY <4>1, <4>2 DEF CommitKept, NamedParts
      <4>4. \A s \in Slugs : Content[Promise!List(s)] = Loaded(s)
        <5>1. \A s \in Slugs : Content[<<s, "list">>] = ListView(s) BY ContentAt
        <5>2. \A s \in Slugs : ListView(s) = Loaded(s) BY CommitViews
        <5>3. \A s \in Slugs : Promise!List(s) = <<s, "list">> BY DEF Promise!List
        <5> HIDE DEF subs
        <5> QED BY <5>1, <5>2, <5>3
      <4>5. Content'[subs] = {s \in Content[subs] : Content[Promise!List(s)] # NoList}
        BY <2>8, <4>1, <4>3, <4>4 DEF OfRepair, Present
      <4> DEFINE new == [g \in {subs} |-> {s \in Content[g] : Content[Promise!List(s)] # NoList}]
      <4>6. \A g \in Fields : Content'[g] = IF g \in DOMAIN new THEN new[g] ELSE Content[g]
        BY <2>1, <3>2, <4>5
      <4>7. Promise!Set(new) BY <1>4, <4>6, SetBy
      <4>8. new = [g \in {subs} |-> {s \in Content[subs] : Content[Promise!List(s)] # NoList}] OBVIOUS
      <4>9. Promise!Prune(subs) BY <3>3, <4>7, <4>8 DEF Promise!Prune
      <4> QED BY <2>5, <3>3, <4>9, Steps
    <3>5. CASE ~ Undoable /\ Undoable'
      <4>1. Content'[subs] = commit.parts["subscriptions"].old /\ before[subs] = commit.parts["subscriptions"].old
        BY <2>2, <3>1, <3>5 DEF CommitKept
      <4> DEFINE new == [g \in {subs} |-> before[subs]]
      <4>2. \A g \in Fields : Content'[g] = IF g \in DOMAIN new THEN new[g] ELSE Content[g]
        BY <2>1, <3>2, <4>1
      <4>3. Promise!Set(new) BY <1>4, <4>2, SetBy
      <4>4. Promise!Prune(subs) BY <3>3, <4>3 DEF Promise!Prune
      <4> QED BY <2>5, <3>3, <4>4, Steps
    <3> QED BY <1>10, <3>4, <3>5
  <2>9. CASE M = {}
    <3>1. \A x \in Devices : \A y \in Components : ConfigView(x, y)' = ConfigView(x, y)
      <4> SUFFICES ASSUME NEW x \in Devices, NEW y \in Components PROVE ConfigView(x, y)' = ConfigView(x, y)
        OBVIOUS
      <4>1. x = d /\ y \in P => config[x][y] = commit.parts[y].old BY <2>9 DEF M, Part
      <4> QED BY <1>6, <4>1
    <3>2. UNCHANGED Promise!vars BY <1>4, <1>5, <3>1, NoStep
    <3> QED BY <2>5, <3>2, Steps
  <2> QED BY <1>10, <2>5, <2>6, <2>7, <2>8, <2>9 DEF CommitKept
<1> QED BY <1>9, <1>10

(* The registry advances: what the journal names takes effect.              *)
LEMMA AdvancePromised ==
  ASSUME IInv, PInv, Remember, Advance
  PROVE  PInv' /\ Implemented
<1>1. task.kind = "config" /\ task.step = "advance" BY DEF Advance, InCommit
<1>2. UNCHANGED <<ask, daemon, imported, files, journals, answers, crashes>> BY DEF Advance
<1>3. /\ ConfigTask(task) /\ Runs("config") /\ ConfigAsked /\ drop = None /\ library = None
      /\ commit # None /\ IsCommit(commit) /\ CommitKept
  BY <1>1, Committing
<1>4. UNCHANGED <<ask, daemon, config, manual, smart, listRev, commit, drop, library, ledger,
                 reply, evicted>>
  BY <1>2 DEF files, journals, answers
<1>5. \/ task' = [task EXCEPT !.step = "remove"]
      \/ task' = [task EXCEPT !.step = "restore", !.left = DOMAIN commit.parts]
  BY DEF Advance, To
<1>6. /\ task'.kind = "config" /\ task'.step \in {"remove", "restore"} /\ task'.who = task.who
      /\ task'.req = task.req /\ task'.device = task.device /\ task'.edit = task.edit
      /\ task'.done = task.done
  BY <1>1, <1>3, <1>5 DEF ConfigTask
<1>7. CommitKept' /\ Implemented BY <1>3, <1>4, Turned DEF PInv
<1>8. ConfigAsked' BY <1>1, <1>3, <1>4, <1>6 DEF ConfigAsked, Awaited
<1>9. CommitPart' BY <1>7, <1>8 DEF CommitPart
<1>10. Named' BY <1>4 DEF PInv, Named
<1> QED BY <1>1, <1>4, <1>6, <1>7, <1>9, <1>10, CommitRest

(* A component goes back: the journal's original is what was shown.         *)
LEMMA RestoreComponentPromised ==
  ASSUME IInv, PInv, Remember, RestoreComponent
  PROVE  PInv' /\ Implemented
<1>1. task.kind = "config" /\ task.step = "restore" BY DEF RestoreComponent, InCommit
<1>2. UNCHANGED <<ask, registry, manual, smart, listRev, journals, ledger, prepared, evicted, crashes>>
  BY DEF RestoreComponent
<1>3. /\ ConfigTask(task) /\ Runs("config") /\ ConfigAsked /\ drop = None /\ library = None
      /\ commit # None /\ IsCommit(commit) /\ CommitKept
  BY <1>1, Committing
<1>4. UNCHANGED <<ask, revs, saved, imported, manual, smart, listRev, commit, drop, library,
                 ledger, evicted>>
  BY <1>2 DEF registry, journals
<1>5. AtOriginal /\ task.left \subseteq DOMAIN commit.parts BY <1>1 DEF IInv, CommitAt
<1>6. CASE EndCommit("failed") /\ UNCHANGED config
  BY <1>1, <1>2, <1>4, <1>6, CommitGivesUp DEF registry, files
<1>7. CASE ~ (EndCommit("failed") /\ UNCHANGED config)
  <2>1. PICK c \in task.left :
          /\ config' = [config EXCEPT ![commit.device][c] = commit.parts[c].old]
          /\ task' = [task EXCEPT !.left = @ \ {c}]
          /\ UNCHANGED <<daemon, reply>>
    BY <1>7 DEF RestoreComponent
  <2>2. /\ task'.kind = "config" /\ task'.step = "restore" /\ task'.who = task.who
        /\ task'.req = task.req /\ task'.device = task.device /\ task'.edit = task.edit
        /\ task'.done = task.done
    BY <1>1, <1>3, <2>1 DEF ConfigTask
  <2>3. Values BY DEF IInv, Shapes
  <2>4. commit.device \in Devices /\ c \in DOMAIN commit.parts /\ c \in Components
    BY <1>3, <1>5, <2>1 DEF IsCommit
  <2>5. /\ config'[commit.device][c] = commit.parts[c].old
        /\ \A x \in Devices : \A y \in Components :
             x # commit.device \/ y # c => config'[x][y] = config[x][y]
    BY <2>1, <2>3, <2>4 DEF Values
  <2>6. LiveParts({"old", "new"}) BY <1>3 DEF CommitKept
  <2>7. LiveParts({"old", "new"})'
    <3>1. \A x \in DOMAIN commit.parts : x \in Components BY <1>3 DEF IsCommit
    <3> QED BY <1>4, <2>4, <2>5, <2>6, <3>1 DEF LiveParts
  <2>8. Undoable /\ Undoable'
    <3>1. AtOriginal' BY <1>4, <1>5 DEF AtOriginal
    <3> QED BY <1>5, <2>6, <2>7, <3>1 DEF Undoable
  <2>9. ASSUME NEW x \in Devices, NEW y \in Components PROVE ConfigView(x, y)' = ConfigView(x, y)
    <3>1. CommitDecides(x, y)' <=> CommitDecides(x, y) BY <1>4, <2>8 DEF CommitDecides
    <3>2. ~ CommitDecides(x, y) => config'[x][y] = config[x][y]
      BY <1>3, <2>4, <2>5, <2>8 DEF CommitDecides
    <3> QED BY <1>3, <1>4, <3>1, <3>2, CommitViews, CommitViewsNext
  <2>10. ASSUME NEW s \in Slugs PROVE ListView(s)' = ListView(s)
    BY <1>3, <1>4, CommitViews, CommitViewsNext DEF Loaded
  <2>11. Unheard BY <1>4, <2>1 DEF Unheard, Told, Known
  <2>12. UNCHANGED Promise!vars /\ before' = before BY <2>9, <2>10, <2>11, NoStep DEF PInv
  <2>13. CommitKept'
    <3>1. OfClient => OfClient' BY <1>4, <2>1 DEF OfClient, Awaited
    <3>2. OfRepair => OfRepair' BY <1>4 DEF OfRepair, Present, Loaded
    <3>3. NamedParts(commit.parts)' BY <1>3, <1>4 DEF CommitKept, NamedParts
    <3> QED BY <1>3, <2>7, <2>8, <3>1, <3>2, <3>3 DEF CommitKept
  <2>14. ConfigAsked' BY <1>1, <1>3, <1>4, <2>1, <2>2 DEF ConfigAsked, Awaited
  <2>15. Named'
    <3>1. NamedParts(commit.parts) BY <1>3 DEF CommitKept
    <3>2. "subscriptions" \in Components BY DEF Components
    <3> QED BY <2>4, <2>5, <3>1, <3>2 DEF PInv, Named, NamedParts
  <2>16. CommitPart' BY <2>13, <2>14 DEF CommitPart
  <2> QED BY <1>1, <1>4, <2>1, <2>2, <2>12, <2>15, <2>16, CommitRest, Steps
<1> QED BY <1>6, <1>7

(* The journal goes: a client whose every component was written is told.   *)
LEMMA RemoveCommitPromised ==
  ASSUME IInv, PInv, Remember, RemoveCommit
  PROVE  PInv' /\ Implemented
<1>1. /\ task.kind = "config"
      /\ task.step = "remove" \/ (task.step = "restore" /\ task.left = {})
  BY DEF RemoveCommit, InCommit
<1>2. UNCHANGED <<ask, registry, files, drop, staged, library, ledger, prepared, evicted, crashes>>
  BY DEF RemoveCommit
<1>3. /\ ConfigTask(task) /\ Runs("config") /\ ConfigAsked /\ drop = None /\ library = None
      /\ commit # None /\ IsCommit(commit) /\ CommitKept
  BY <1>1, Committing
<1>4. UNCHANGED <<revs, saved, imported, config, manual, smart, listRev, drop, library>>
  BY <1>2 DEF registry, files
<1>5. Undoable => \A c \in DOMAIN commit.parts : Part(c) = commit.parts[c].old
  <2>1. CASE task.step = "restore" BY <1>1, <2>1 DEF IInv, CommitAt
  <2>2. CASE task.step = "remove"
    <3>1. AtTarget BY <1>1, <2>2 DEF IInv, CommitAt
    <3>2. ~ AtOriginal
      <4>1. PICK c \in DOMAIN commit.parts : TRUE BY <1>3 DEF IsCommit
      <4>2. c \in Components /\ commit.revs[c] \in Nat BY <1>3, <4>1 DEF IsCommit
      <4>3. revs[commit.device][c] = commit.revs[c] + 1 BY <3>1, <4>1, <4>2 DEF AtTarget
      <4> QED BY <4>2, <4>3 DEF AtOriginal
    <3> QED BY <3>2 DEF Undoable
  <2> QED BY <1>1, <2>1, <2>2
<1>6. CASE EndCommit("failed") /\ UNCHANGED commit BY <1>1, <1>2, <1>6, CommitGivesUp
<1> DEFINE how == IF \/ task.who = "boot"
                     \/ task.step = "remove" /\ task.done = DOMAIN task.edit
                  THEN "done" ELSE "failed"
<1>7. CASE commit' = None /\ EndCommit(how) /\ ~ (task.who = "client" /\ how = "done")
  <2>1. task' = NoTask /\ daemon' \in {daemon, "up", "down"}
        /\ (reply' = reply \/ (task.who = "client" /\ reply' = [reply EXCEPT ![task.req] = "failed"]))
    BY <1>3, <1>7 DEF EndCommit, Answer, ConfigTask
  <2> QED BY <1>1, <1>2, <1>5, <1>7, <2>1, CommitLeaves
<1>8. CASE commit' = None /\ EndCommit(how) /\ task.who = "client" /\ how = "done"
  <2> DEFINE r == task.req  d == task.device  a == ask[r]
  <2>1. task.step = "remove" /\ task.done = DOMAIN task.edit BY <1>8
  <2>2. task' = NoTask /\ reply' = [reply EXCEPT ![r] = "done"] /\ UNCHANGED daemon
    BY <1>8, <2>1 DEF EndCommit, Answer
  <2>3. /\ r \in Requests /\ Awaited(r) /\ a.kind = "config" /\ a.device = d
        /\ DOMAIN task.edit \subseteq DOMAIN a.edit
        /\ \A c \in DOMAIN a.edit : IF c \in DOMAIN task.edit THEN task.edit[c] = a.edit[c]
                                    ELSE config[d][c] = a.edit[c]
    BY <1>3, <1>8, <2>1 DEF ConfigAsked
  <2>4. Values /\ Wellformed(a) BY <2>3, Asked DEF IInv, Shapes
  <2>5. d \in Devices /\ DOMAIN a.edit \subseteq Components
    BY <1>3, <2>3, <2>4 DEF ConfigTask, Wellformed, Edits
  <2>6. \A c \in DOMAIN a.edit : config[d][c] = a.edit[c]
    <3>1. commit.device = d /\ DOMAIN commit.parts = task.done
          /\ \A c \in task.done : commit.parts[c].new = task.edit[c]
      BY <1>3, <1>8, <2>1 DEF ConfigAsked
    <3>2. LiveParts({"new"}) BY <1>1, <2>1 DEF IInv, CommitAt
    <3>3. \A c \in task.done : config[d][c] = task.edit[c] BY <3>1, <3>2 DEF LiveParts
    <3> QED BY <2>1, <2>3, <3>3
  <2>7. ~ Undoable
    <3>1. AtTarget BY <1>1, <2>1 DEF IInv, CommitAt
    <3>2. ~ AtOriginal
      <4>1. PICK c \in DOMAIN commit.parts : TRUE BY <1>3 DEF IsCommit
      <4>2. c \in Components /\ commit.revs[c] \in Nat BY <1>3, <4>1 DEF IsCommit
      <4>3. revs[commit.device][c] = commit.revs[c] + 1 BY <3>1, <4>1, <4>2 DEF AtTarget
      <4> QED BY <4>2, <4>3 DEF AtOriginal
    <3> QED BY <3>2 DEF Undoable
  <2>8. \A x \in Devices : \A y \in Components :
          ConfigView(x, y) = config[x][y] /\ ConfigView(x, y)' = config[x][y]
    BY <1>3, <1>4, <1>8, <2>7, CommitViews, CommitViewsNext DEF CommitDecides
  <2>9. \A s \in Slugs : ListView(s)' = ListView(s)
    BY <1>3, <1>4, CommitViews, CommitViewsNext DEF Loaded
  <2> HIDE DEF r, d
  <2>10. Promise!Made(r)
    <3>1. /\ DOMAIN Promise!Change(r) = {<<d, c>> : c \in DOMAIN a.edit}
          /\ \A c \in DOMAIN a.edit : Promise!Change(r)[<<d, c>>] = a.edit[c]
      BY <2>3, <2>4, Asks
    <3>2. ASSUME NEW f \in Fields, f \in DOMAIN Promise!Change(r)
          PROVE  Promise!Change(r)[f] = Content[f]
      <4>1. PICK c \in DOMAIN a.edit : f = <<d, c>> BY <3>1, <3>2
      <4>2. c \in Components /\ config[d][c] = a.edit[c] BY <2>5, <2>6
      <4>3. Content[<<d, c>>] = ConfigView(d, c) BY <2>5, <4>2, ContentAt
      <4> QED BY <2>5, <2>8, <3>1, <4>1, <4>2, <4>3
    <3> QED BY <3>2, MadeBy
  <2>11. Known' = Known BY <1>2 DEF Known
  <2>12. Promise!Tell(r)
    <3>1. \A x \in Devices : \A y \in Components : ConfigView(x, y)' = ConfigView(x, y) BY <2>8
    <3>2. Whole /\ reply \in [Requests -> {"none", "done", "failed"}] BY <2>4 DEF PInv, Values
    <3>3. ask' = ask /\ r \in Requests /\ Wellformed(ask[r]) /\ Awaited(r) BY <1>2, <2>3, <2>4
    <3>4. reply' = [reply EXCEPT ![r] = "done"] BY <2>2
    <3> QED BY <2>9, <2>10, <2>11, <3>1, <3>2, <3>3, <3>4, TellBy
  <2>13. task'.kind = "idle" BY <2>2, IdleKind
  <2>14. CommitPart' BY <1>8, <2>13 DEF CommitPart
  <2>15. Named' BY <1>4 DEF PInv, Named
  <2>16. PInv' BY <1>1, <1>4, <1>8, <2>2, <2>13, <2>14, <2>15, CommitRest
  <2> QED BY <2>3, <2>12, <2>16, Steps
<1> QED BY <1>6, <1>7, <1>8 DEF RemoveCommit

(* A step of a configuration commit.                                        *)
LEMMA CommitStepPromised ==
  ASSUME IInv, PInv, Remember, CommitStep
  PROVE  PInv' /\ Implemented
BY JournalCommitPromised, PublishComponentPromised, NarrowPromised, AdvancePromised,
   RestoreComponentPromised, RemoveCommitPromised
DEF CommitStep

-----------------------------------------------------------------------------
(* A deletion.                                                               *)

(* What holds of a task and a journal of a deletion.                        *)
LEMMA Deleting ==
  ASSUME IInv, PInv
  PROVE  /\ task.kind = "delete" =>
              /\ DeleteTask(task) /\ Runs("playlists") /\ DeleteAsked
              /\ commit = None /\ library = None
              /\ task.step \notin {"stage", "prepare"} => drop # None
         /\ drop # None =>
              /\ IsDrop(drop) /\ DropKept /\ commit = None /\ library = None
              /\ drop.req \in Requests /\ drop.slug \in Slugs /\ Subs \subseteq Devices
<1>1. Tasks /\ DropAt /\ Journals BY DEF IInv, Shapes
<1>2. task.kind = "delete" => DeleteTask(task) /\ Runs("playlists") BY <1>1, TaskKinds
<1>3. task.kind = "delete" /\ task.step \notin {"stage", "prepare"} => drop # None
  BY <1>1 DEF DropAt
<1>4. drop # None => IsDrop(drop) BY <1>1 DEF Journals
<1> QED BY <1>2, <1>3, <1>4 DEF PInv, Alone, DropPart, IsDrop, Subs

(* What a step of a deletion leaves alone of the invariant.                 *)
LEMMA DeleteRest ==
  ASSUME PInv, IInv, Remember, task.kind = "delete", task'.kind \in {"delete", "idle"},
         UNCHANGED <<commit, library>>, daemon' \in {daemon, "up", "down", "refused"},
         Named', DropPart'
  PROVE  PInv'
<1>1. commit = None /\ library = None /\ Runs("playlists") /\ DeleteTask(task) BY Deleting
<1>2. daemon \in {"up", "playlists"} BY <1>1 DEF Runs, DeleteTask
<1>3. Serial' BY DEF Serial
<1>4. Alone' BY <1>1, <1>2 DEF Alone
<1>5. Whole' BY WholeNext
<1>6. CommitPart' /\ LibraryPart' /\ SavePart' BY <1>1 DEF CommitPart, LibraryPart, SavePart
<1> QED BY <1>3, <1>4, <1>5, <1>6 DEF PInv

(* A step of a deletion that leaves its journal, the subscriptions and the *)
(* playlists alone, and tells nobody that it is done.                       *)
LEMMA DeleteQuiet ==
  ASSUME IInv, PInv, Remember, task.kind = "delete",
         UNCHANGED <<ask, config, manual, smart, commit, drop, library, ledger, evicted>>,
         \/ reply' = reply
         \/ task.who = "client" /\ reply' = [reply EXCEPT ![task.req] = "failed"],
         daemon' \in {daemon, "down", "refused"},
         \/ task' = NoTask
         \/ /\ task'.kind = "delete" /\ task'.req = task.req /\ task'.who = task.who
            /\ reply' = reply
            /\ \/ task'.step = task.step
               \/ task.step = "stage" /\ task'.step = "prepare"
               \/ task.step = "subscriptions" /\ task'.step = "revisions"
               \/ task.step \notin {"stage", "prepare"} /\ task'.step \in {"restore", "undone"}
  PROVE  PInv' /\ Implemented
<1>1. /\ DeleteTask(task) /\ DeleteAsked /\ commit = None /\ library = None
      /\ drop # None => DropKept
  BY Deleting
<1>2. Values BY DEF IInv, Shapes
<1>3. Told' = Told /\ \A x \in Requests : Awaited(x) => Awaited(x)'
  <2>1. CASE reply' = reply BY <2>1 DEF Told, Awaited
  <2>2. CASE reply' # reply BY <1>1, <1>2, <2>2, FailedReply DEF DeleteAsked, DeleteTask
  <2> QED BY <2>1, <2>2
<1>4. Unheard BY <1>3 DEF Unheard, Known
<1>5. \A s : Loaded(s)' = Loaded(s) /\ Live(s)' = Live(s) BY DEF Loaded, Live
<1>6. \A d \in Devices : \A c \in Components : ConfigView(d, c)' = ConfigView(d, c)
  BY <1>1, DropViews, DropViewsNext DEF DropDecides
<1>7. \A s \in Slugs : ListView(s)' = ListView(s) BY <1>1, <1>5, DropViews, DropViewsNext
<1>8. UNCHANGED Promise!vars /\ before' = before BY <1>4, <1>6, <1>7, NoStep DEF PInv
<1>9. drop # None => DropKept'
  <2> SUFFICES ASSUME drop # None PROVE DropKept' OBVIOUS
  <2>1. drop.req \in Requests BY Deleting
  <2>2. Awaited(drop.req)' BY <1>1, <1>3, <2>1 DEF DropKept
  <2>3. Subs' = Subs BY DEF Subs
  <2>4. Exclusive(drop.slug, drop.list)' BY <1>1 DEF DropKept, Exclusive
  <2>5. Live(drop.slug)' = Live(drop.slug) BY DEF Live
  <2> QED BY <1>1, <1>8, <2>2, <2>3, <2>4, <2>5 DEF DropKept
<1>10. task'.kind = "delete" => DeleteAsked'
  <2> SUFFICES ASSUME task'.kind = "delete" PROVE DeleteAsked' OBVIOUS
  <2>1. /\ task'.req = task.req /\ task'.who = task.who /\ reply' = reply
        /\ \/ task'.step = task.step
           \/ task.step = "stage" /\ task'.step = "prepare"
           \/ task.step = "subscriptions" /\ task'.step = "revisions"
           \/ task.step \notin {"stage", "prepare"} /\ task'.step \in {"restore", "undone"}
    BY IdleKind
  <2>2. task'.who = "client" => Awaited(task.req)' BY <1>1, <2>1 DEF DeleteAsked, Awaited
  <2>3. task'.step \in {"stage", "prepare"} =>
          drop' = None /\ Exclusive(ask[task.req].slug, Loaded(ask[task.req].slug))'
    BY <1>1, <2>1 DEF DeleteAsked, Exclusive, Loaded
  <2>4. task'.step \notin {"stage", "prepare"} => drop.req = task.req
    BY <1>1, <2>1 DEF DeleteAsked
  <2>5. task'.step = "publish" =>
          /\ drop.phase = "prepared"
          /\ \A d \in Devices \ Subs : drop.slug \notin config[d].subscriptions
    BY <1>1, <2>1 DEF DeleteAsked
  <2>6. task'.step \in {"subscriptions", "revisions"} => drop.phase = "publishing"
    BY <1>1, <2>1 DEF DeleteAsked
  <2> QED BY <2>1, <2>2, <2>3, <2>4, <2>5, <2>6 DEF DeleteAsked, Subs, Awaited
<1>11. DropPart' BY <1>9, <1>10 DEF DropPart
<1>12. Named' BY DEF PInv, Named
<1> QED BY <1>8, <1>11, <1>12, IdleKind, DeleteRest, Steps

(* How a deletion fails.                                                    *)
LEMMA DeleteFails ==
  ASSUME IInv, PInv, Remember, task.kind = "delete",
         UNCHANGED <<ask, config, manual, smart, commit, drop, library, ledger, evicted>>,
         \/ task.who = "client" /\ Answer(task.req, "failed") /\ UNCHANGED daemon
         \/ EndDelete("failed")
         \/ task.who = "boot" /\ EndDelete("refused")
         \/ task.step \notin {"stage", "prepare"} /\ (PublishFails("failed") \/ PublishFails("refused"))
  PROVE  PInv' /\ Implemented
<1>1. DeleteTask(task) BY Deleting
<1>2. /\ \/ reply' = reply
         \/ task.who = "client" /\ reply' = [reply EXCEPT ![task.req] = "failed"]
      /\ daemon' \in {daemon, "down", "refused"}
      /\ \/ task' = NoTask
         \/ /\ task' = [task EXCEPT !.step = "restore", !.left = DOMAIN drop.subs]
            /\ reply' = reply /\ task.step \notin {"stage", "prepare"}
  BY <1>1 DEF Answer, EndDelete, PublishFails, DeleteTask
<1>3. task' = [task EXCEPT !.step = "restore", !.left = DOMAIN drop.subs] =>
        task'.kind = "delete" /\ task'.req = task.req /\ task'.who = task.who /\ task'.step = "restore"
  BY <1>1 DEF DeleteTask
<1> QED BY <1>2, <1>3, DeleteQuiet

(* The targets are staged.                                                  *)
LEMMA StagePromised ==
  ASSUME IInv, PInv, Remember, Stage
  PROVE  PInv' /\ Implemented
<1>1. task.kind = "delete" /\ task.step = "stage" BY DEF Stage, InDelete
<1>2. UNCHANGED <<ask, daemon, registry, files, commit, drop, library, ledger, prepared, evicted, crashes>>
  BY DEF Stage
<1>3. DeleteTask(task) /\ task.who = "client" BY <1>1, Deleting DEF DeleteTask
<1>4. UNCHANGED <<config, manual, smart>> BY <1>2 DEF files
<1>5. CASE Answer(task.req, "failed") BY <1>1, <1>2, <1>3, <1>4, <1>5, DeleteFails
<1>6. CASE To("prepare") /\ UNCHANGED reply
  <2>1. /\ task'.kind = "delete" /\ task'.req = task.req /\ task'.who = task.who
        /\ task'.step = "prepare"
    BY <1>1, <1>3, <1>6 DEF To, DeleteTask
  <2> QED BY <1>1, <1>2, <1>4, <1>6, <2>1, DeleteQuiet
<1> QED BY <1>5, <1>6 DEF Stage

(* What a load of the playlist of a deletion yields.                        *)
LEMMA LiveLoaded ==
  ASSUME NEW s \in Slugs, Exclusive(s, drop.list)
  PROVE  Live(s) \in {drop.list, NoList} => Loaded(s) = Live(s)
BY DEF Exclusive, Live, Loaded

(* The journal is written as prepared: nothing shows.                       *)
LEMMA PreparePromised ==
  ASSUME IInv, PInv, Remember, Prepare
  PROVE  PInv' /\ Implemented
<1>1. task.kind = "delete" /\ task.step = "prepare" BY DEF Prepare, InDelete
<1>2. UNCHANGED <<ask, daemon, registry, files, commit, staged, library, ledger, prepared, evicted, crashes>>
  BY DEF Prepare
<1>3. /\ DeleteTask(task) /\ task.who = "client" /\ DeleteAsked /\ commit = None /\ library = None
      /\ drop = None
  BY <1>1, Deleting DEF DeleteTask, DeleteAsked
<1>4. UNCHANGED <<revs, config, manual, smart, listRev>> BY <1>2 DEF files, registry
<1>5. CASE Answer(task.req, "failed") /\ UNCHANGED drop
  BY <1>1, <1>2, <1>3, <1>4, <1>5, DeleteFails
<1>6. CASE ~ (Answer(task.req, "failed") /\ UNCHANGED drop)
  <2> DEFINE r == task.req  s == ask[r].slug
  <2>1. /\ drop' = [req |-> r, slug |-> s, phase |-> "prepared", list |-> Loaded(s),
                    subs |-> [d \in Subscribed(s) |->
                                [old |-> config[d].subscriptions,
                                 new |-> config[d].subscriptions \ {s},
                                 rev |-> revs[d].subscriptions]]]
        /\ To("publish") /\ UNCHANGED reply
    BY <1>6 DEF Prepare
  <2>2. /\ r \in Requests /\ ask[r].kind = "delete" /\ Awaited(r) /\ Exclusive(s, Loaded(s))
    BY <1>1, <1>3 DEF DeleteTask, DeleteAsked
  <2>3. Values /\ s \in Slugs /\ manual[s] # Smart
    <3>1. Values BY DEF IInv, Shapes
    <3>2. Wellformed(ask[r]) BY <2>2, <3>1, Asked
    <3>3. s \in Slugs BY <2>2, <3>2 DEF Wellformed
    <3> QED BY <3>1, <3>3, HostAssumption DEF Values, Listed
  <2>4. /\ drop'.req = r /\ drop'.slug = s /\ drop'.phase = "prepared" /\ drop'.list = Loaded(s)
        /\ DOMAIN drop'.subs = Subscribed(s)
        /\ \A d \in Subscribed(s) : /\ drop'.subs[d].old = config[d].subscriptions
                                    /\ drop'.subs[d].new = config[d].subscriptions \ {s}
    BY <2>1
  <2>5. drop' # None
    <3>1. "req" \in DOMAIN drop' /\ "req" \notin DOMAIN None BY <2>1 DEF None
    <3> QED BY <3>1
  <2>6. /\ task'.kind = "delete" /\ task'.step = "publish" /\ task'.who = task.who /\ task'.req = r
    BY <1>1, <1>3, <2>1 DEF To, DeleteTask
  <2> HIDE DEF r, s
  <2>7. \A d \in Devices : \A c \in Components : ConfigView(d, c)' = ConfigView(d, c)
    BY <1>2, <1>3, <1>4, <2>4, DropViews, DropViewsNext DEF DropDecides
  <2>8. \A x \in Slugs : ListView(x)' = ListView(x)
    BY <1>2, <1>3, <1>4, <2>4, DropViews, DropViewsNext DEF Loaded
  <2>9. Unheard BY <1>2, <2>1 DEF Unheard, Told, Known
  <2>10. UNCHANGED Promise!vars BY <2>7, <2>8, <2>9, NoStep DEF PInv
  <2>11. Subs' = Subscribed(s) BY <2>4 DEF Subs
  <2>12. DropKept'
    <3>1. Awaited(drop.req)' BY <2>1, <2>2, <2>4 DEF Awaited
    <3>2. ask'[drop'.req].kind = "delete" /\ ask'[drop'.req].slug = drop'.slug
      BY <1>2, <2>2, <2>4 DEF s
    <3>3. Exclusive(drop.slug, drop.list)' BY <1>4, <2>2, <2>4 DEF Exclusive
    <3>4. ASSUME NEW d \in Subscribed(s)
          PROVE  /\ drop'.subs[d].old \subseteq Slugs /\ drop'.slug \in drop'.subs[d].old
                 /\ drop'.subs[d].new = drop'.subs[d].old \ {drop'.slug}
                 /\ config'[d].subscriptions = drop'.subs[d].old
      BY <1>4, <2>4, <3>4 DEF Subscribed, PInv, Named
    <3>5. Live(drop.slug)' = drop'.list BY <1>4, <2>2, <2>3, <2>4 DEF Live, Loaded, Exclusive
    <3> QED BY <2>4, <2>11, <3>1, <3>2, <3>3, <3>4, <3>5 DEF DropKept
  <2>13. DeleteAsked'
    BY <1>3, <1>4, <2>1, <2>2, <2>4, <2>6, <2>11 DEF DeleteAsked, Subscribed, Awaited
  <2>14. DropPart' BY <2>12, <2>13 DEF DropPart
  <2>15. Named' BY <1>4 DEF PInv, Named
  <2> QED BY <1>1, <1>2, <2>6, <2>10, <2>14, <2>15, DeleteRest, Steps
<1> QED BY <1>5, <1>6

(* The journal is published: the deletion takes effect, all of it at once.  *)
LEMMA PublishPromised ==
  ASSUME IInv, PInv, Remember, Publish
  PROVE  PInv' /\ Implemented
<1>1. task.kind = "delete" /\ task.step = "publish" BY DEF Publish, InDelete
<1>2. UNCHANGED <<ask, daemon, registry, files, commit, staged, library, ledger, prepared, evicted, crashes>>
  BY DEF Publish
<1>3. /\ DeleteTask(task) /\ task.who = "client" /\ DeleteAsked /\ commit = None /\ library = None
      /\ drop # None /\ IsDrop(drop) /\ DropKept /\ Subs \subseteq Devices
  BY <1>1, Deleting DEF DeleteTask
<1>4. UNCHANGED <<revs, config, manual, smart, listRev>> BY <1>2 DEF files, registry
<1>5. CASE Answer(task.req, "failed") /\ UNCHANGED drop
  BY <1>1, <1>2, <1>3, <1>4, <1>5, DeleteFails
<1>6. CASE ~ (Answer(task.req, "failed") /\ UNCHANGED drop)
  <2> DEFINE r == drop.req  s == drop.slug
  <2>1. /\ drop' = [drop EXCEPT !.phase = "publishing"]
        /\ task' = [task EXCEPT !.step = "subscriptions", !.left = DOMAIN drop.subs]
        /\ UNCHANGED reply
    BY <1>6 DEF Publish
  <2>2. /\ r = task.req /\ drop.phase = "prepared"
        /\ \A d \in Devices \ Subs : s \notin config[d].subscriptions
    BY <1>1, <1>3 DEF DeleteAsked
  <2>3. /\ Awaited(r) /\ ask[r].kind = "delete" /\ ask[r].slug = s /\ Exclusive(s, drop.list)
        /\ Live(s) = drop.list
        /\ \A d \in Subs : /\ s \in drop.subs[d].old /\ drop.subs[d].new = drop.subs[d].old \ {s}
                           /\ config[d].subscriptions = drop.subs[d].old
    BY <1>3, <2>2 DEF DropKept
  <2>4. r \in Requests /\ s \in Slugs /\ Wellformed(ask[r])
    BY <1>3, Asked DEF IsDrop, IInv, Shapes
  <2>5. /\ drop'.req = r /\ drop'.slug = s /\ drop'.phase = "publishing" /\ drop'.list = drop.list
        /\ drop'.subs = drop.subs
    BY <1>3, <2>1 DEF IsDrop
  <2>6. drop' # None
    <3>1. DOMAIN drop' = DOMAIN drop BY <2>1
    <3>2. "req" \in DOMAIN drop' /\ "req" \notin DOMAIN None BY <1>3, <3>1 DEF IsDrop, None
    <3> QED BY <3>2
  <2>7. /\ task'.kind = "delete" /\ task'.step = "subscriptions" /\ task'.who = task.who
        /\ task'.req = task.req
    BY <1>1, <1>3, <2>1 DEF DeleteTask
  <2>8. Unheard BY <1>2, <2>1 DEF Unheard, Told, Known
  <2>9. Loaded(s) = drop.list /\ drop.list # NoList
    BY <2>3, <2>4, LiveLoaded DEF Exclusive
  <2>10. /\ \A x \in Slugs : ListView(x) = Loaded(x)
         /\ \A x \in Slugs : ListView(x)' = IF x = s THEN NoList ELSE Loaded(x)
    BY <1>2, <1>3, <1>4, <2>2, <2>5, <2>6, DropViews, DropViewsNext DEF Loaded
  <2>11. \A d \in Devices : \A c \in Components :
           /\ ConfigView(d, c) = config[d][c]
           /\ ConfigView(d, c)' = IF c = "subscriptions" THEN config[d][c] \ {s} ELSE config[d][c]
    <3> SUFFICES ASSUME NEW d \in Devices, NEW c \in Components
                 PROVE  /\ ConfigView(d, c) = config[d][c]
                        /\ ConfigView(d, c)' = IF c = "subscriptions" THEN config[d][c] \ {s}
                                               ELSE config[d][c]
      OBVIOUS
    <3>1. ConfigView(d, c) = config[d][c] BY <1>3, <2>2, DropViews DEF DropDecides
    <3>2. ConfigView(d, c)' = IF c = "subscriptions" /\ d \in Subs THEN drop.subs[d].new
                              ELSE config[d][c]
      BY <1>2, <1>3, <1>4, <2>5, <2>6, DropViewsNext DEF DropDecides, Subs
    <3>3. c = "subscriptions" => config[d][c] = config[d].subscriptions OBVIOUS
    <3>4. d \notin Subs => config[d].subscriptions \ {s} = config[d].subscriptions BY <2>2
    <3> QED BY <2>3, <3>1, <3>2, <3>3, <3>4
  <2> DEFINE new == Promise!Change(r)
  <2>12. Content[<<s, "list">>] = drop.list BY <2>4, <2>9, <2>10, ContentAt
  <2>13. /\ DOMAIN new = {<<s, "list">>} \union {f \in Fields : f[2] = "subscriptions"}
         /\ new[<<s, "list">>] = NoList
         /\ \A d \in Devices : new[<<d, "subscriptions">>] = Content[<<d, "subscriptions">>] \ {s}
    <3> HIDE DEF s
    <3>1. ask[r].slug = s /\ ask[r].kind = "delete" /\ Content[<<s, "list">>] # NoList
      BY <2>3, <2>9, <2>12
    <3> HIDE DEF r
    <3> QED BY <2>4, <3>1, Asks
  <2> HIDE DEF new, r, s
  <2>14. \A f \in Fields : Content'[f] = IF f \in DOMAIN new THEN new[f] ELSE Content[f]
    <3> SUFFICES ASSUME NEW f \in Fields
                 PROVE Content'[f] = IF f \in DOMAIN new THEN new[f] ELSE Content[f]
      OBVIOUS
    <3>1. CASE \E d \in Devices : \E c \in Components : f = <<d, c>>
      <4>1. PICK d \in Devices : \E c \in Components : f = <<d, c>> BY <3>1
      <4>2. PICK c \in Components : f = <<d, c>> BY <4>1
      <4>3. /\ Content'[f] = ConfigView(d, c)' /\ Content[f] = ConfigView(d, c)
            /\ f[2] = c /\ c # "list"
        BY <4>2, FieldsAre, ContentAt, ContentAtNext
      <4>4. f \in DOMAIN new <=> c = "subscriptions" BY <2>13, <4>2, <4>3
      <4>5. CASE c = "subscriptions"
        <5>1. Content[f] = config[d][c] /\ Content'[f] = config[d][c] \ {s} BY <2>11, <4>3, <4>5
        <5>2. new[f] = Content[f] \ {s} BY <2>13, <4>2, <4>5
        <5> QED BY <4>4, <4>5, <5>1, <5>2
      <4>6. CASE c # "subscriptions" BY <2>11, <4>3, <4>4, <4>6
      <4> QED BY <4>5, <4>6
    <3>2. CASE \E x \in Slugs : f = <<x, "list">>
      <4>1. PICK x \in Slugs : f = <<x, "list">> BY <3>2
      <4>2. /\ Content'[f] = ListView(x)' /\ Content[f] = ListView(x) /\ f[2] = "list"
        BY <4>1, ContentAt, ContentAtNext
      <4>3. f \in DOMAIN new <=> x = s BY <2>13, <4>1, <4>2
      <4> QED BY <2>10, <2>13, <4>1, <4>2, <4>3
    <3> QED BY <3>1, <3>2, FieldsAre
  <2>15. Promise!Apply(r)
    <3>1. Promise!Set(new) BY <2>8, <2>14, SetBy DEF PInv
    <3>2. r \notin Told BY <2>3 DEF Told, Awaited
    <3> QED BY <3>1, <3>2 DEF Promise!Apply, new
  <2>16. Subs' = Subs BY <2>5 DEF Subs
  <2>17. DropKept'
    <3>1. Awaited(drop.req)' BY <2>1, <2>3, <2>5 DEF Awaited
    <3>2. ask'[drop'.req].kind = "delete" /\ ask'[drop'.req].slug = drop'.slug
      BY <1>2, <2>3, <2>5
    <3>3. Exclusive(drop.slug, drop.list)' BY <1>4, <2>3, <2>5 DEF Exclusive
    <3>4. \A d \in Subs :
            /\ drop'.subs[d].old \subseteq Slugs /\ drop'.slug \in drop'.subs[d].old
            /\ drop'.subs[d].new = drop'.subs[d].old \ {drop'.slug}
      BY <1>3, <2>5 DEF DropKept, s
    <3>5. before'[<<s, "list">>] = drop.list
      <4>1. <<s, "list">> \in Fields BY <2>4, FieldsAre
      <4>2. Content'[<<s, "list">>] = NoList BY <2>4, <2>10, ContentAtNext
      <4> QED BY <2>9, <2>12, <4>1, <4>2, WholeNext
    <3>6. ASSUME NEW d \in Subs PROVE before'[<<d, "subscriptions">>] = drop.subs[d].old
      <4>1. d \in Devices /\ "subscriptions" \in Components /\ <<d, "subscriptions">> \in Fields
        BY <1>3, FieldsAre DEF Components
      <4>2. /\ Content[<<d, "subscriptions">>] = drop.subs[d].old
            /\ Content'[<<d, "subscriptions">>] = drop.subs[d].old \ {s}
        BY <2>3, <2>11, <4>1, ContentAt, ContentAtNext
      <4>3. s \in drop.subs[d].old BY <2>3
      <4> QED BY <4>1, <4>2, <4>3, WholeNext
    <3>7. drop'.slug = s /\ drop'.list = drop.list /\ drop'.subs = drop.subs /\ drop'.phase = "publishing"
      BY <2>5
    <3> QED BY <2>16, <3>1, <3>2, <3>3, <3>4, <3>5, <3>6, <3>7 DEF DropKept
  <2>18. DeleteAsked' BY <1>3, <2>1, <2>2, <2>3, <2>5, <2>7 DEF DeleteAsked, Awaited
  <2>19. DropPart' BY <2>17, <2>18 DEF DropPart
  <2>20. Named' BY <1>4 DEF PInv, Named
  <2> QED BY <1>1, <1>2, <2>4, <2>7, <2>15, <2>19, <2>20, DeleteRest, Steps
<1> QED BY <1>5, <1>6

(* Behind a published journal the files move and nothing shows.             *)
LEMMA DeleteMoves ==
  ASSUME IInv, PInv, Remember, task.kind = "delete", task.step \notin {"stage", "prepare", "publish"},
         UNCHANGED <<ask, daemon, commit, drop, library, ledger, reply, evicted>>,
         task'.kind = "delete", task'.req = task.req, task'.who = task.who,
         \/ task'.step = task.step
         \/ task.step = "subscriptions" /\ task'.step = "revisions"
         \/ task'.step \in {"restore", "undone"},
         \A d \in Devices : \A c \in Components :
           \/ config'[d][c] = config[d][c]
           \/ /\ c = "subscriptions" /\ d \in Subs
              /\ config'[d][c] \in {drop.subs[d].old, drop.subs[d].new},
         \A s \in Slugs : s # drop.slug => Loaded(s)' = Loaded(s),
         Exclusive(drop.slug, drop.list)',
         drop.phase = "prepared" =>
           /\ UNCHANGED <<manual, smart>>
           /\ \A d \in Devices : \A c \in Components : config'[d][c] = config[d][c]
  PROVE  PInv' /\ Implemented
<1>1. /\ DeleteTask(task) /\ DeleteAsked /\ commit = None /\ library = None
      /\ drop # None /\ IsDrop(drop) /\ DropKept /\ Subs \subseteq Devices
      /\ drop.req \in Requests /\ drop.slug \in Slugs
  BY Deleting
<1>2. drop.phase \in {"prepared", "publishing"} BY <1>1 DEF IsDrop
<1>3. Unheard BY DEF Unheard, Told, Known
<1>4. ASSUME NEW d \in Devices, NEW c \in Components PROVE ConfigView(d, c)' = ConfigView(d, c)
  <2>1. DropDecides(d, c)' <=> DropDecides(d, c) BY DEF DropDecides
  <2>2. ~ DropDecides(d, c) => config'[d][c] = config[d][c] BY <1>1, <1>2 DEF DropDecides, Subs
  <2> QED BY <1>1, <2>1, <2>2, DropViews, DropViewsNext
<1>5. ASSUME NEW s \in Slugs PROVE ListView(s)' = ListView(s)
  <2>1. drop.phase = "prepared" => Loaded(s)' = Loaded(s) BY DEF Loaded
  <2> QED BY <1>1, <1>2, <2>1, DropViews, DropViewsNext
<1>6. UNCHANGED Promise!vars /\ before' = before BY <1>3, <1>4, <1>5, NoStep DEF PInv
<1>7. DropKept'
  <2>1. Awaited(drop.req)' BY <1>1 DEF DropKept, Awaited
  <2>2. Subs' = Subs BY DEF Subs
  <2>3. drop.phase = "prepared" =>
          /\ Live(drop.slug)' = drop.list
          /\ \A d \in Subs : config'[d].subscriptions = drop.subs[d].old
    <3>1. "subscriptions" \in Components BY DEF Components
    <3>2. drop.phase = "prepared" => Live(drop.slug)' = Live(drop.slug) BY DEF Live
    <3> QED BY <1>1, <3>1, <3>2 DEF DropKept
  <2> QED BY <1>1, <1>6, <2>1, <2>2, <2>3 DEF DropKept
<1>8. DeleteAsked' BY <1>1 DEF DeleteAsked, Awaited
<1>9. DropPart' BY <1>7, <1>8 DEF DropPart
<1>10. Named'
  <2>1. \A d \in Subs : drop.subs[d].old \subseteq Slugs /\ drop.subs[d].new \subseteq Slugs
    BY <1>1 DEF DropKept
  <2>2. "subscriptions" \in Components BY DEF Components
  <2> QED BY <2>1, <2>2 DEF PInv, Named
<1> QED BY <1>6, <1>9, <1>10, DeleteRest, Steps

(* The subscriptions of one device become their target.                     *)
LEMMA ScrubSubscriptionsPromised ==
  ASSUME IInv, PInv, Remember, ScrubSubscriptions
  PROVE  PInv' /\ Implemented
<1>1. task.kind = "delete" /\ task.step = "subscriptions" BY DEF ScrubSubscriptions, InDelete
<1>2. UNCHANGED <<ask, registry, manual, smart, listRev, commit, drop, library, ledger, prepared,
                 evicted, crashes>>
  BY DEF ScrubSubscriptions
<1>3. /\ DeleteTask(task) /\ DeleteAsked /\ drop # None /\ DropKept /\ drop.phase = "publishing"
      /\ Subs \subseteq Devices
  BY <1>1, Deleting DEF DeleteAsked
<1>4. CASE (PublishFails("failed") \/ PublishFails("refused")) /\ UNCHANGED config
  BY <1>1, <1>2, <1>4, DeleteFails
<1>5. CASE ~ ((PublishFails("failed") \/ PublishFails("refused")) /\ UNCHANGED config)
  <2>1. PICK d \in task.left :
          /\ task' = [task EXCEPT !.left = @ \ {d}]
          /\ UNCHANGED <<daemon, reply>>
          /\ \/ UNCHANGED config
             \/ config' = [config EXCEPT ![d].subscriptions = drop.subs[d].new]
    BY <1>5 DEF ScrubSubscriptions
  <2>2. task'.kind = "delete" /\ task'.step = task.step /\ task'.who = task.who /\ task'.req = task.req
    BY <1>1, <1>3, <2>1 DEF DeleteTask
  <2>3. d \in Subs BY <1>1, <2>1 DEF IInv, DropAt
  <2>4. Values BY DEF IInv, Shapes
  <2>5. \A x \in Devices : \A c \in Components :
          \/ config'[x][c] = config[x][c]
          \/ c = "subscriptions" /\ x \in Subs /\ config'[x][c] \in {drop.subs[x].old, drop.subs[x].new}
    <3>1. CASE UNCHANGED config BY <3>1
    <3>2. CASE config' = [config EXCEPT ![d].subscriptions = drop.subs[d].new]
      BY <1>3, <2>3, <2>4, <3>2 DEF Values, Components
    <3> QED BY <2>1, <3>1, <3>2
  <2>6. Exclusive(drop.slug, drop.list)' BY <1>2, <1>3 DEF DropKept, Exclusive
  <2>7. \A s : Loaded(s)' = Loaded(s) BY <1>2 DEF Loaded
  <2> QED BY <1>1, <1>2, <1>3, <2>1, <2>2, <2>5, <2>6, <2>7, DeleteMoves
<1> QED BY <1>4, <1>5

(* The playlist's file is staged.                                           *)
LEMMA StagePlaylistPromised ==
  ASSUME IInv, PInv, Remember, StagePlaylist
  PROVE  PInv' /\ Implemented
<1>1. task.kind = "delete" /\ task.step = "subscriptions" BY DEF StagePlaylist, InDelete
<1>2. UNCHANGED <<ask, registry, config, listRev, commit, drop, library, ledger, prepared, evicted, crashes>>
  BY DEF StagePlaylist
<1>3. /\ DeleteTask(task) /\ DeleteAsked /\ drop # None /\ DropKept /\ drop.phase = "publishing"
      /\ drop.slug \in Slugs
  BY <1>1, Deleting DEF DeleteAsked
<1>4. CASE (PublishFails("failed") \/ PublishFails("refused")) /\ UNCHANGED <<manual, smart>>
  BY <1>1, <1>2, <1>4, DeleteFails
<1>5. CASE ~ ((PublishFails("failed") \/ PublishFails("refused")) /\ UNCHANGED <<manual, smart>>)
  <2>1. /\ task' = [task EXCEPT !.step = "revisions", !.left = DOMAIN drop.subs]
        /\ UNCHANGED <<daemon, reply>>
        /\ UNCHANGED <<manual, smart>> \/ Unlinked(drop.slug)
    BY <1>5 DEF StagePlaylist
  <2>2. task'.kind = "delete" /\ task'.step = "revisions" /\ task'.who = task.who /\ task'.req = task.req
    BY <1>1, <1>3, <2>1 DEF DeleteTask
  <2>3. Values BY DEF IInv, Shapes
  <2>4. Exclusive(drop.slug, drop.list)'
    <3>1. CASE UNCHANGED <<manual, smart>> BY <1>2, <1>3, <3>1 DEF DropKept, Exclusive
    <3>2. CASE Unlinked(drop.slug)
      BY <1>2, <1>3, <2>3, <3>2 DEF DropKept, Exclusive, Unlinked, Values
    <3> QED BY <2>1, <3>1, <3>2
  <2>5. \A s \in Slugs : s # drop.slug => Loaded(s)' = Loaded(s)
    BY <1>3, <2>1, <2>3 DEF Loaded, Unlinked, Values
  <2> QED BY <1>1, <1>2, <1>3, <2>1, <2>2, <2>4, <2>5, DeleteMoves
<1> QED BY <1>4, <1>5

(* The revision of one device's subscriptions advances.                     *)
LEMMA AdvanceSubscriptionPromised ==
  ASSUME IInv, PInv, Remember, AdvanceSubscription
  PROVE  PInv' /\ Implemented
<1>1. task.kind = "delete" /\ task.step = "revisions" BY DEF AdvanceSubscription, InDelete
<1>2. UNCHANGED <<ask, imported, files, journals, ledger, prepared, evicted, crashes>>
  BY DEF AdvanceSubscription
<1>3. UNCHANGED <<config, manual, smart, commit, drop, library>> BY <1>2 DEF files, journals
<1>4. DeleteTask(task) BY <1>1, Deleting
<1>5. CASE PublishFails("failed") \/ PublishFails("refused")
  BY <1>1, <1>2, <1>3, <1>5, DeleteFails
<1>6. CASE \E d \in task.left : task' = [task EXCEPT !.left = @ \ {d}] /\ UNCHANGED <<daemon, reply>>
  <2>1. task'.kind = "delete" /\ task'.step = task.step /\ task'.who = task.who /\ task'.req = task.req
    BY <1>1, <1>4, <1>6 DEF DeleteTask
  <2> QED BY <1>1, <1>2, <1>3, <1>6, <2>1, DeleteQuiet
<1> QED BY <1>5, <1>6 DEF AdvanceSubscription

(* The subscriptions of one device go back.                                 *)
LEMMA RestoreSubscriptionsPromised ==
  ASSUME IInv, PInv, Remember, RestoreSubscriptions
  PROVE  PInv' /\ Implemented
<1>1. task.kind = "delete" /\ task.step = "restore" BY DEF RestoreSubscriptions, InDelete
<1>2. UNCHANGED <<ask, registry, manual, smart, listRev, commit, drop, library, ledger, prepared,
                 evicted, crashes>>
  BY DEF RestoreSubscriptions
<1>3. /\ DeleteTask(task) /\ drop # None /\ DropKept /\ Subs \subseteq Devices
  BY <1>1, Deleting
<1>4. CASE (EndDelete("failed") \/ EndDelete(IF task.who = "boot" THEN "refused" ELSE "failed"))
           /\ UNCHANGED config
  <2>1. EndDelete("failed") \/ (task.who = "boot" /\ EndDelete("refused"))
    <3>1. CASE task.who = "boot" BY <1>4, <3>1
    <3>2. CASE task.who # "boot" BY <1>4, <3>2
    <3> QED BY <3>1, <3>2
  <2> QED BY <1>1, <1>2, <1>4, <2>1, DeleteFails
<1>5. CASE ~ ((EndDelete("failed") \/ EndDelete(IF task.who = "boot" THEN "refused" ELSE "failed"))
              /\ UNCHANGED config)
  <2>1. PICK d \in task.left :
          /\ task' = [task EXCEPT !.left = @ \ {d}]
          /\ UNCHANGED <<daemon, reply>>
          /\ config' = [config EXCEPT ![d].subscriptions = drop.subs[d].old]
    BY <1>5 DEF RestoreSubscriptions
  <2>2. task'.kind = "delete" /\ task'.step = task.step /\ task'.who = task.who /\ task'.req = task.req
    BY <1>1, <1>3, <2>1 DEF DeleteTask
  <2>3. d \in Subs BY <1>1, <2>1 DEF IInv, DropAt
  <2>4. Values BY DEF IInv, Shapes
  <2>5. \A x \in Devices : \A c \in Components :
          \/ config'[x][c] = config[x][c]
          \/ c = "subscriptions" /\ x \in Subs /\ config'[x][c] \in {drop.subs[x].old, drop.subs[x].new}
    BY <1>3, <2>1, <2>3, <2>4 DEF Values, Components
  <2>6. drop.phase = "prepared" =>
          \A x \in Devices : \A c \in Components : config'[x][c] = config[x][c]
    BY <1>3, <2>1, <2>3, <2>4 DEF Values, Components, DropKept
  <2>7. Exclusive(drop.slug, drop.list)' BY <1>2, <1>3 DEF DropKept, Exclusive
  <2>8. \A s : Loaded(s)' = Loaded(s) BY <1>2 DEF Loaded
  <2> QED BY <1>1, <1>2, <1>3, <2>1, <2>2, <2>5, <2>6, <2>7, <2>8, DeleteMoves
<1> QED BY <1>4, <1>5

(* The playlist's file goes back.                                           *)
LEMMA RestorePlaylistPromised ==
  ASSUME IInv, PInv, Remember, RestorePlaylist
  PROVE  PInv' /\ Implemented
<1>1. task.kind = "delete" /\ task.step = "restore" BY DEF RestorePlaylist, InDelete
<1>2. UNCHANGED <<ask, registry, config, listRev, commit, drop, library, ledger, prepared, evicted, crashes>>
  BY DEF RestorePlaylist
<1>3. /\ DeleteTask(task) /\ drop # None /\ DropKept /\ drop.slug \in Slugs
  BY <1>1, Deleting
<1>4. CASE (EndDelete("failed") \/ EndDelete(IF task.who = "boot" THEN "refused" ELSE "failed"))
           /\ UNCHANGED <<manual, smart>>
  <2>1. EndDelete("failed") \/ (task.who = "boot" /\ EndDelete("refused"))
    <3>1. CASE task.who = "boot" BY <1>4, <3>1
    <3>2. CASE task.who # "boot" BY <1>4, <3>2
    <3> QED BY <3>1, <3>2
  <2> QED BY <1>1, <1>2, <1>4, <2>1, DeleteFails
<1>5. CASE ~ ((EndDelete("failed") \/ EndDelete(IF task.who = "boot" THEN "refused" ELSE "failed"))
              /\ UNCHANGED <<manual, smart>>)
  <2>1. /\ To("undone") /\ UNCHANGED <<daemon, reply>>
        /\ UNCHANGED <<manual, smart>> \/ (Live(drop.slug) = NoList /\ Relinked(drop.slug))
    BY <1>5 DEF RestorePlaylist
  <2>2. task'.kind = "delete" /\ task'.step = "undone" /\ task'.who = task.who /\ task'.req = task.req
    BY <1>1, <1>3, <2>1 DEF DeleteTask, To
  <2>3. Values BY DEF IInv, Shapes
  <2>4. Exclusive(drop.slug, drop.list)'
    <3>1. CASE UNCHANGED <<manual, smart>> BY <1>2, <1>3, <3>1 DEF DropKept, Exclusive
    <3>2. CASE Relinked(drop.slug)
      BY <1>2, <1>3, <2>3, <3>2 DEF DropKept, Exclusive, Relinked, Values
    <3> QED BY <2>1, <3>1, <3>2
  <2>5. \A s \in Slugs : s # drop.slug => Loaded(s)' = Loaded(s)
    BY <1>3, <2>1, <2>3 DEF Loaded, Relinked, Values
  <2>6. drop.phase = "prepared" => UNCHANGED <<manual, smart>>
    BY <1>3, <2>1 DEF DropKept, Exclusive
  <2> QED BY <1>1, <1>2, <1>3, <2>1, <2>2, <2>4, <2>5, <2>6, DeleteMoves
<1> QED BY <1>4, <1>5

(* The journal goes: the deletion is done, or taken back.                   *)
LEMMA CleanupPromised ==
  ASSUME IInv, PInv, Remember, Cleanup
  PROVE  PInv' /\ Implemented
<1>1. /\ task.kind = "delete"
      /\ (task.step = "revisions" /\ task.left = {}) \/ task.step = "undone"
  BY DEF Cleanup, InDelete
<1>2. UNCHANGED <<ask, registry, files, commit, library, ledger, prepared, evicted, crashes>>
  BY DEF Cleanup
<1>3. /\ DeleteTask(task) /\ DeleteAsked /\ commit = None /\ library = None
      /\ drop # None /\ IsDrop(drop) /\ DropKept /\ Subs \subseteq Devices
      /\ drop.req \in Requests /\ drop.slug \in Slugs /\ drop.req = task.req
  BY <1>1, Deleting DEF DeleteAsked
<1>4. UNCHANGED <<revs, config, manual, smart, listRev>> BY <1>2 DEF files, registry
<1> DEFINE r == drop.req  s == drop.slug
           how == IF task.step = "revisions" \/ task.who = "boot" THEN "done" ELSE "failed"
<1>5. CASE EndDelete("failed") /\ UNCHANGED drop BY <1>1, <1>2, <1>4, <1>5, DeleteFails
<1>6. CASE drop' = None /\ EndDelete(how)
  <2>1. /\ Awaited(r) /\ ask[r].kind = "delete" /\ ask[r].slug = s /\ Exclusive(s, drop.list)
    BY <1>3 DEF DropKept
  <2>2. Values /\ Wellformed(ask[r]) BY <1>3, Asked DEF IInv, Shapes
  <2>3. /\ task' = NoTask /\ daemon' = daemon
        /\ IF task.who = "client" THEN reply' = [reply EXCEPT ![r] = how] ELSE reply' = reply
    BY <1>3, <1>6 DEF EndDelete, Answer, DeleteTask
  <2>4. PInv'
    <3>1. task'.kind = "idle" BY <2>3, IdleKind
    <3>2. DropPart' BY <1>6, <3>1 DEF DropPart
    <3>3. Named' BY <1>4 DEF PInv, Named
    <3> QED BY <1>1, <1>2, <2>3, <3>1, <3>2, <3>3, DeleteRest
  <2>5. /\ \A x \in Slugs : ListView(x)' = Loaded(x)
        /\ \A d \in Devices : \A c \in Components : ConfigView(d, c)' = config[d][c]
    BY <1>2, <1>3, <1>4, <1>6, DropViews, DropViewsNext DEF DropDecides, Loaded
  <2>6. /\ \A x \in Slugs : ListView(x) = IF x = s /\ drop.phase = "publishing" THEN NoList ELSE Loaded(x)
        /\ \A d \in Devices : \A c \in Components :
             ConfigView(d, c) = IF c = "subscriptions" /\ d \in Subs /\ drop.phase = "publishing"
                                THEN drop.subs[d].new ELSE config[d][c]
    BY <1>3, DropViews DEF DropDecides, Subs
  <2>7. Known' = Known /\ ask' = ask BY <1>2 DEF Known
  <2>8. CASE task.step = "revisions"
    <3>1. Live(s) = NoList /\ \A d \in Subs : config[d].subscriptions = drop.subs[d].new
      BY <1>1, <2>8 DEF IInv, DropAt, Scrubbed
    <3>2. Loaded(s) = NoList BY <1>3, <2>1, <3>1, LiveLoaded
    <3>3. \A x \in Slugs : ListView(x) = Loaded(x) /\ ListView(x)' = ListView(x)
      BY <2>5, <2>6, <3>2
    <3>4. ASSUME NEW d \in Devices, NEW c \in Components PROVE ConfigView(d, c)' = ConfigView(d, c)
      <4>1. c = "subscriptions" => config[d][c] = config[d].subscriptions OBVIOUS
      <4> QED BY <2>5, <2>6, <3>1, <4>1
    <3>5. CASE task.who = "client"
      <4>1. reply' = [reply EXCEPT ![r] = "done"] BY <2>3, <2>8, <3>5
      <4>2. Content[<<s, "list">>] = NoList BY <1>3, <3>2, <3>3, ContentAt
      <4>3. Promise!Made(r)
        <5>1. DOMAIN Promise!Change(r) = {<<s, "list">>} /\ Promise!Change(r)[<<s, "list">>] = NoList
          <6>1. Content[<<ask[r].slug, "list">>] = NoList BY <2>1, <4>2
          <6> HIDE DEF r, s
          <6> QED BY <1>3, <2>1, <2>2, <6>1, Asks DEF r
        <5> QED BY <4>2, <5>1, MadeBy
      <4>4. reply \in [Requests -> {"none", "done", "failed"}] BY <2>2 DEF Values
      <4>5. r \in Requests BY <1>3
      <4> HIDE DEF r, s
      <4>6. Promise!Tell(r)
        BY <2>1, <2>2, <2>7, <3>3, <3>4, <4>1, <4>3, <4>4, <4>5, TellBy DEF PInv
      <4> QED BY <2>4, <4>5, <4>6, Steps
    <3>6. CASE task.who # "client"
      <4>1. Unheard BY <2>3, <2>7, <3>6 DEF Unheard, Told
      <4>2. UNCHANGED Promise!vars BY <3>3, <3>4, <4>1, NoStep DEF PInv
      <4> QED BY <2>4, <4>2, Steps
    <3> QED BY <3>5, <3>6
  <2>9. CASE task.step = "undone"
    <3>1. Live(s) = drop.list /\ \A d \in Subs : config[d].subscriptions = drop.subs[d].old
      BY <1>1, <2>9 DEF IInv, DropAt, Original
    <3>2. Loaded(s) = drop.list BY <1>3, <2>1, <3>1, LiveLoaded
    <3>3. Told' = Told
      <4>1. reply' = reply \/ reply' = [reply EXCEPT ![r] = "failed"] BY <2>3, <2>9
      <4> QED BY <1>3, <2>1, <2>2, <4>1, FailedReply
    <3>4. Unheard BY <2>7, <3>3 DEF Unheard
    <3>5. CASE drop.phase = "prepared"
      <4>1. \A x \in Slugs : ListView(x)' = ListView(x) BY <2>5, <2>6, <3>5
      <4>2. \A d \in Devices : \A c \in Components : ConfigView(d, c)' = ConfigView(d, c)
        BY <2>5, <2>6, <3>5
      <4>3. UNCHANGED Promise!vars BY <3>4, <4>1, <4>2, NoStep DEF PInv
      <4> QED BY <2>4, <4>3, Steps
    <3>6. CASE drop.phase = "publishing"
      <4> DEFINE G == {<<s, "list">>} \union {<<d, "subscriptions">> : d \in Subs}
                 new == [f \in G |-> before[f]]
      <4>1. /\ before[<<s, "list">>] = drop.list
            /\ \A d \in Subs : before[<<d, "subscriptions">>] = drop.subs[d].old
        BY <1>3, <3>6 DEF DropKept
      <4>2. Promise!Scope(r) = {<<s, "list">>} \union {f \in Fields : f[2] = "subscriptions"}
        <5>1. DOMAIN Content = Fields BY ContentAt
        <5> QED BY <2>1, <5>1 DEF Promise!Scope, Promise!List, Promise!Fields
      <4>3. G \in SUBSET Promise!Scope(r)
        <5>1. ASSUME NEW d \in Subs PROVE <<d, "subscriptions">> \in {f \in Fields : f[2] = "subscriptions"}
          BY <1>3, FieldsAre DEF Components
        <5> QED BY <4>2, <5>1
      <4>4. ASSUME NEW f \in Fields
            PROVE  Content'[f] = IF f \in DOMAIN new THEN new[f] ELSE Content[f]
        <5>1. CASE \E d \in Devices : \E c \in Components : f = <<d, c>>
          <6>1. PICK d \in Devices : \E c \in Components : f = <<d, c>> BY <5>1
          <6>2. PICK c \in Components : f = <<d, c>> BY <6>1
          <6>3. /\ Content'[f] = ConfigView(d, c)' /\ Content[f] = ConfigView(d, c) /\ c # "list"
            BY <6>2, FieldsAre, ContentAt, ContentAtNext
          <6>4. f \in G <=> c = "subscriptions" /\ d \in Subs BY <6>2, <6>3
          <6>5. CASE c = "subscriptions" /\ d \in Subs
            <7>1. Content'[f] = drop.subs[d].old BY <2>5, <3>1, <6>3, <6>5
            <7>2. new[f] = drop.subs[d].old BY <4>1, <6>2, <6>4, <6>5
            <7> QED BY <6>4, <6>5, <7>1, <7>2
          <6>6. CASE ~ (c = "subscriptions" /\ d \in Subs) BY <2>5, <2>6, <6>3, <6>4, <6>6
          <6> QED BY <6>5, <6>6
        <5>2. CASE \E x \in Slugs : f = <<x, "list">>
          <6>1. PICK x \in Slugs : f = <<x, "list">> BY <5>2
          <6>2. Content'[f] = Loaded(x) /\ Content[f] = IF x = s THEN NoList ELSE Loaded(x)
            BY <2>5, <2>6, <3>6, <6>1, ContentAt, ContentAtNext
          <6>3. f \in G <=> x = s BY <6>1
          <6>4. CASE x = s BY <3>2, <4>1, <6>1, <6>2, <6>3, <6>4
          <6>5. CASE x # s BY <6>2, <6>3, <6>5
          <6> QED BY <6>4, <6>5
        <5> QED BY <5>1, <5>2, FieldsAre
      <4>5. Promise!Set(new) BY <3>4, <4>4, SetBy DEF PInv
      <4>6. r \notin Told BY <2>1 DEF Told, Awaited
      <4>7. Promise!TakeBack(r) BY <4>3, <4>5, <4>6 DEF Promise!TakeBack
      <4> QED BY <1>3, <2>4, <4>7, Steps
    <3> QED BY <1>3, <3>5, <3>6 DEF IsDrop
  <2> QED BY <1>1, <2>8, <2>9
<1> QED BY <1>5, <1>6 DEF Cleanup

(* A step of a deletion.                                                    *)
LEMMA DeleteStepPromised ==
  ASSUME IInv, PInv, Remember, DeleteStep
  PROVE  PInv' /\ Implemented
BY StagePromised, PreparePromised, PublishPromised, ScrubSubscriptionsPromised,
   StagePlaylistPromised, AdvanceSubscriptionPromised, RestoreSubscriptionsPromised,
   RestorePlaylistPromised, CleanupPromised
DEF DeleteStep

-----------------------------------------------------------------------------
(* A save.                                                                   *)

(* With no journal pending what is live is what is shown.                   *)
LEMMA PlainViews ==
  ASSUME Settled
  PROVE  /\ \A d \in Devices : \A c \in Components : ConfigView(d, c) = config[d][c]
         /\ \A s \in Slugs : ListView(s) = Loaded(s)
BY DEF Settled, ConfigView, ListView, LibraryDecides, DropDecides, CommitDecides

(* The same after a step.                                                   *)
LEMMA PlainViewsNext ==
  ASSUME Settled'
  PROVE  /\ \A d \in Devices : \A c \in Components : ConfigView(d, c)' = config'[d][c]
         /\ \A s \in Slugs : ListView(s)' = Loaded(s)'
BY DEF Settled, ConfigView, ListView, LibraryDecides, DropDecides, CommitDecides

(* With no journal pending only what the task was asked for matters.        *)
LEMMA PlainRest ==
  ASSUME Remember, Settled', Named',
         task'.kind = "config" => ConfigAsked',
         task'.kind = "delete" => DeleteAsked',
         task'.kind = "library" => LibraryAsked',
         task'.kind = "save" => SaveAsked'
  PROVE  PInv'
<1>1. Serial' /\ Alone' BY DEF Serial, Alone, Settled
<1>2. Whole' BY WholeNext
<1>3. CommitPart' /\ DropPart' /\ LibraryPart' /\ SavePart'
  BY DEF CommitPart, DropPart, LibraryPart, SavePart, Settled
<1> QED BY <1>1, <1>2, <1>3 DEF PInv

(* A save: the new kind is written, then the other goes.                    *)
LEMMA SaveStepPromised ==
  ASSUME IInv, PInv, Remember, SaveStep
  PROVE  PInv' /\ Implemented
<1>1. /\ task.kind = "save"
      /\ UNCHANGED <<ask, daemon, registry, config, listRev, journals, ledger, prepared, evicted, crashes>>
  BY DEF SaveStep
<1>2. Values /\ SaveTask(task) BY <1>1, TaskKinds DEF IInv, Shapes
<1>3. Settled /\ Settled' BY <1>1 DEF PInv, Alone, Settled, journals
<1>0. /\ task.req \in Requests /\ Wellformed(ask[task.req]) /\ ask[task.req].kind = "save"
      /\ ask[task.req].slug \in Slugs
  BY <1>2, Asked DEF SaveTask, Wellformed
<1> PICK r \in Requests : r = task.req BY <1>0
<1> PICK a : a = ask[r] OBVIOUS
<1> PICK s \in Slugs : s = a.slug BY <1>0
<1>4. /\ r \in Requests /\ Wellformed(a) /\ a.kind = "save" /\ s \in Slugs
      /\ a.tracks = Smart \/ a.tracks \subseteq Names
  BY <1>0 DEF Wellformed
<1>5. a.tracks # NoList BY <1>4, HostAssumption
<1>6. /\ Awaited(r)
      /\ task.step # "write" => IF a.tracks = Smart THEN s \in smart ELSE manual[s] = a.tracks
      /\ task.step = "saved" /\ a.tracks = Smart => manual[s] = NoList
  BY <1>1 DEF PInv, SavePart, SaveAsked
<1>7. DOMAIN manual = Slugs /\ smart \subseteq Slugs /\ \A x \in Slugs : manual[x] # Smart
  BY <1>2, HostAssumption DEF Values, Listed
<1>8. Known' = Known /\ ask' = ask BY <1>1 DEF Known
<1>9. Named' BY <1>1 DEF PInv, Named
<1>10. \A d \in Devices : \A c \in Components : ConfigView(d, c)' = ConfigView(d, c)
  BY <1>1, <1>3, PlainViews, PlainViewsNext
<1>11. /\ DOMAIN Promise!Change(r) = {<<s, "list">>}
       /\ Promise!Change(r)[<<s, "list">>] = a.tracks
  <2> QED BY <1>4, Asks
<1>12. /\ task.step \in {"write", "other", "saved"}
       /\ task.step = "write" =>
            \/ /\ IF a.tracks = Smart THEN smart' = smart \union {s} /\ UNCHANGED manual
                  ELSE manual' = [manual EXCEPT ![s] = a.tracks] /\ UNCHANGED smart
               /\ To("other") /\ UNCHANGED reply
            \/ Answer(r, "failed") /\ UNCHANGED <<manual, smart>>
       /\ task.step = "other" =>
            \/ /\ IF a.tracks = Smart THEN manual' = [manual EXCEPT ![s] = NoList] /\ UNCHANGED smart
                  ELSE smart' = smart \ {s} /\ UNCHANGED manual
               /\ To("saved") /\ UNCHANGED reply
            \/ Answer(r, "failed") /\ UNCHANGED <<manual, smart>>
       /\ task.step = "saved" => Answer(r, "done") /\ UNCHANGED <<manual, smart>>
  <2>1. task.step \in {"write", "other", "saved"} BY <1>2 DEF SaveTask
  <2>2. CASE task.step = "write" BY <2>2, Zenon DEF SaveStep
  <2>3. CASE task.step = "other"
    <3>1. task.step # "write" BY <2>3
    <3> QED BY <2>3, <3>1, Zenon DEF SaveStep
  <2>4. CASE task.step = "saved"
    <3>1. task.step # "write" /\ task.step # "other" BY <2>4
    <3> QED BY <2>4, <3>1, Zenon DEF SaveStep
  <2> QED BY <2>1, <2>2, <2>3, <2>4
<1>13. CASE Answer(r, "failed") /\ UNCHANGED <<manual, smart>>
  <2>1. task' = NoTask /\ reply' = [reply EXCEPT ![r] = "failed"] BY <1>13 DEF Answer
  <2>2. PInv' BY <1>3, <1>9, <2>1, IdleKind, PlainRest
  <2>3. Unheard BY <1>2, <1>4, <1>6, <1>8, <2>1, FailedReply DEF Unheard
  <2>4. \A x \in Slugs : ListView(x)' = ListView(x)
    BY <1>3, <1>13, PlainViews, PlainViewsNext DEF Loaded
  <2>5. UNCHANGED Promise!vars BY <1>10, <2>3, <2>4, NoStep DEF PInv
  <2> QED BY <2>2, <2>5, Steps
<1>14. CASE task.step = "saved"
  <2>1. task' = NoTask /\ reply' = [reply EXCEPT ![r] = "done"] /\ UNCHANGED <<manual, smart>>
    BY <1>12, <1>14 DEF Answer
  <2>2. PInv' BY <1>3, <1>9, <2>1, IdleKind, PlainRest
  <2>3. \A x \in Slugs : ListView(x)' = ListView(x)
    BY <1>3, <2>1, PlainViews, PlainViewsNext DEF Loaded
  <2>4. Loaded(s) = a.tracks BY <1>4, <1>5, <1>6, <1>14 DEF Loaded
  <2>5. Content[<<s, "list">>] = a.tracks BY <1>3, <1>4, <2>4, PlainViews, ContentAt
  <2>6. Promise!Made(r) BY <1>11, <2>5, MadeBy
  <2>7. reply \in [Requests -> {"none", "done", "failed"}] /\ Whole BY <1>2 DEF Values, PInv
  <2>8. Wellformed(ask[r]) BY <1>4
  <2>9. Promise!Tell(r) BY <1>4, <1>6, <1>8, <1>10, <2>1, <2>3, <2>6, <2>7, <2>8, TellBy
  <2> QED BY <1>4, <2>2, <2>9, Steps
<1>15. CASE task.step # "saved" /\ ~ (Answer(r, "failed") /\ UNCHANGED <<manual, smart>>)
  <2>1. /\ UNCHANGED reply
        /\ \/ To("other") /\ task.step = "write"
           \/ To("saved") /\ task.step = "other"
    BY <1>12, <1>15
  <2>2. /\ task'.kind = "save" /\ task'.req = r
        /\ \/ task'.step = "other" /\ task.step = "write"
           \/ task'.step = "saved" /\ task.step = "other"
    BY <1>2, <2>1 DEF To, SaveTask
  <2>3. IF a.tracks = Smart
        THEN s \in smart' /\ (task'.step = "saved" => manual'[s] = NoList)
        ELSE manual'[s] = a.tracks
    BY <1>4, <1>6, <1>7, <1>12, <1>15, <2>2
  <2>4. SaveAsked'
    <3>1. Awaited(r)' BY <1>6, <2>1 DEF Awaited
    <3>2. ask'[task'.req] = a BY <1>8, <2>2
    <3> QED BY <2>2, <2>3, <3>1, <3>2 DEF SaveAsked
  <2>5. PInv' BY <1>3, <1>9, <2>2, <2>4, PlainRest
  <2>6. \A x \in Slugs : x # s => Loaded(x)' = Loaded(x)
    BY <1>4, <1>7, <1>12, <1>15, <2>2 DEF Loaded
  <2>7. Loaded(s)' = a.tracks \/ Loaded(s)' = Loaded(s)
    BY <1>4, <1>5, <1>6, <1>7, <1>12, <1>15, <2>2, <2>3 DEF Loaded
  <2>8. Unheard BY <1>8, <2>1 DEF Unheard, Told
  <2>9. CASE Loaded(s)' = Loaded(s)
    <3>1. \A x \in Slugs : ListView(x)' = ListView(x)
      BY <1>3, <2>6, <2>9, PlainViews, PlainViewsNext
    <3>2. UNCHANGED Promise!vars BY <1>10, <2>8, <3>1, NoStep DEF PInv
    <3> QED BY <2>5, <3>2, Steps
  <2>10. CASE Loaded(s)' = a.tracks
    <3> DEFINE new == Promise!Change(r)
    <3>0. DOMAIN new = {<<s, "list">>} /\ new[<<s, "list">>] = a.tracks BY <1>11
    <3> HIDE DEF new
    <3>1. ASSUME NEW f \in Fields
          PROVE  Content'[f] = IF f \in DOMAIN new THEN new[f] ELSE Content[f]
      <4>1. CASE \E d \in Devices : \E c \in Components : f = <<d, c>>
        <5>1. PICK d \in Devices : \E c \in Components : f = <<d, c>> BY <4>1
        <5>2. PICK c \in Components : f = <<d, c>> BY <5>1
        <5>3. c # "list" BY <5>2, FieldsAre
        <5> QED BY <1>10, <3>0, <5>2, <5>3, ContentAt, ContentAtNext
      <4>2. CASE \E x \in Slugs : f = <<x, "list">>
        <5>1. PICK x \in Slugs : f = <<x, "list">> BY <4>2
        <5>2. Content'[f] = Loaded(x)' /\ Content[f] = Loaded(x)
          BY <1>3, <5>1, PlainViews, PlainViewsNext, ContentAt, ContentAtNext
        <5>3. f \in DOMAIN new <=> x = s BY <3>0, <5>1
        <5> QED BY <2>6, <2>10, <3>0, <5>1, <5>2, <5>3
      <4> QED BY <4>1, <4>2, FieldsAre
    <3>2. Promise!Set(new) BY <2>8, <3>1, SetBy DEF PInv
    <3>3. r \notin Told BY <1>6 DEF Told, Awaited
    <3>4. Promise!Apply(r) BY <3>2, <3>3 DEF Promise!Apply, new
    <3> QED BY <1>4, <2>5, <3>4, Steps
  <2> QED BY <2>7, <2>9, <2>10
<1> QED BY <1>12, <1>13, <1>14, <1>15

-----------------------------------------------------------------------------
(* A library drop.                                                           *)

(* What holds of a task and a journal of a library drop.                    *)
LEMMA Librarying ==
  ASSUME IInv, PInv
  PROVE  /\ task.kind = "library" =>
              /\ LibraryTask(task) /\ Runs("library") /\ LibraryAsked
              /\ commit = None /\ drop = None /\ Wellformed(ask[task.req])
              /\ task.step \in {"evaluate", "journal", "answer"} => library = None
              /\ task.step \in {"forward", "recover"} => library # None
         /\ library # None =>
              /\ IsLibrary(library) /\ LibraryKept /\ library.req \in Requests
              /\ Wellformed(ask[library.req])
<1>1. Values /\ Tasks /\ Journals /\ LibraryAt BY DEF IInv, Shapes
<1>2. task.kind = "library" => LibraryTask(task) /\ Runs("library") BY <1>1, TaskKinds
<1>3. \A r \in Requests : Wellformed(ask[r]) BY <1>1, Asked
<1>4. library # None => IsLibrary(library) /\ library.req \in Requests
  BY <1>1 DEF Journals, IsLibrary
<1>5. task.kind = "library" =>
        /\ commit = None /\ drop = None /\ LibraryAsked
        /\ task.step \in {"evaluate", "journal", "answer"} => library = None
        /\ task.step \in {"forward", "recover"} => library # None
  BY <1>1 DEF PInv, Serial, LibraryPart, LibraryAt
<1>6. library # None => LibraryKept BY DEF PInv, LibraryPart
<1> QED BY <1>2, <1>3, <1>4, <1>5, <1>6 DEF LibraryTask

(* What a step of a drop leaves alone of the invariant.                     *)
LEMMA LibraryRest ==
  ASSUME IInv, PInv, Remember, task.kind = "library", task'.kind \in {"library", "idle"},
         UNCHANGED <<commit, drop>>, daemon' = "reconcile" => library' = None,
         \A d \in Devices : config'[d].subscriptions = config[d].subscriptions,
         task'.kind = "library" => LibraryAsked',
         library' # None => LibraryKept'
  PROVE  PInv'
<1>1. commit' = None /\ drop' = None BY Librarying
<1>2. Serial' /\ Alone' BY <1>1 DEF Serial, Alone
<1>3. Whole' /\ Named' BY WholeNext DEF PInv, Named
<1>4. CommitPart' /\ DropPart' /\ LibraryPart' /\ SavePart'
  BY <1>1 DEF CommitPart, DropPart, LibraryPart, SavePart
<1> QED BY <1>2, <1>3, <1>4 DEF PInv

(* What is shown while a drop is pending: its new value.                    *)
LEMMA LibraryShows ==
  ASSUME commit = None, drop = None, library # None,
         IsLibrary(library), Wellformed(ask[library.req])
  PROVE  LET a == ask[library.req] IN
         /\ a.kind \in Drops
         /\ a.kind = "add" => a.device \in Devices
         /\ a.kind = "append" => a.slug \in Slugs
         /\ \A d \in Devices : \A c \in Components :
              ConfigView(d, c) = IF a.kind = "add" /\ d = a.device /\ c = "selection"
                                 THEN library.new ELSE config[d][c]
         /\ \A s \in Slugs :
              ListView(s) = IF a.kind = "append" /\ s = a.slug THEN library.new ELSE Loaded(s)
<1> DEFINE a == ask[library.req]
<1>1. /\ a.kind \in Drops
      /\ a.kind = "add" => a.device \in Devices
  BY DEF IsLibrary, Wellformed
<1>2. a.kind = "append" => a.slug \in Slugs BY DEF Wellformed
<1>3. Devices \cap Slugs = {} BY HostAssumption
<1>4. ASSUME NEW d \in Devices PROVE LibraryDecides(d) <=> a.kind = "add" /\ d = a.device
  BY <1>1, <1>2, <1>3 DEF LibraryDecides, Target, Drops
<1>5. ASSUME NEW s \in Slugs PROVE LibraryDecides(s) <=> a.kind = "append" /\ s = a.slug
  BY <1>1, <1>2, <1>3 DEF LibraryDecides, Target, Drops
<1>6. \A d \in Devices : \A c \in Components :
        ConfigView(d, c) = IF a.kind = "add" /\ d = a.device /\ c = "selection"
                           THEN library.new ELSE config[d][c]
  BY <1>4, LibraryViews
<1>7. \A s \in Slugs :
        ListView(s) = IF a.kind = "append" /\ s = a.slug THEN library.new ELSE Loaded(s)
  BY <1>5, LibraryViews
<1> QED BY <1>1, <1>2, <1>6, <1>7

(* The same after a step.                                                   *)
LEMMA LibraryShowsNext ==
  ASSUME commit' = None, drop' = None, library' # None, UNCHANGED ask,
         IsLibrary(library)', Wellformed(ask[library'.req])
  PROVE  LET a == ask[library'.req] IN
         /\ \A d \in Devices : \A c \in Components :
              ConfigView(d, c)' = IF a.kind = "add" /\ d = a.device /\ c = "selection"
                                  THEN library'.new ELSE config'[d][c]
         /\ \A s \in Slugs :
              ListView(s)' = IF a.kind = "append" /\ s = a.slug THEN library'.new ELSE Loaded(s)'
<1> DEFINE a == ask[library'.req]
<1>1. /\ a.kind \in Drops
      /\ a.kind = "add" => a.device \in Devices
  BY DEF IsLibrary, Wellformed
<1>2. a.kind = "append" => a.slug \in Slugs BY DEF Wellformed
<1>3. Devices \cap Slugs = {} BY HostAssumption
<1>4. \A d \in Devices : LibraryDecides(d)' <=> a.kind = "add" /\ d = a.device
  BY <1>1, <1>2, <1>3 DEF LibraryDecides, Target, Drops
<1>5. \A s \in Slugs : LibraryDecides(s)' <=> a.kind = "append" /\ s = a.slug
  BY <1>1, <1>2, <1>3 DEF LibraryDecides, Target, Drops
<1>6. \A d \in Devices : \A c \in Components :
        ConfigView(d, c)' = IF a.kind = "add" /\ d = a.device /\ c = "selection"
                            THEN library'.new ELSE config'[d][c]
  BY <1>4, LibraryViewsNext
<1>7. \A s \in Slugs :
        ListView(s)' = IF a.kind = "append" /\ s = a.slug THEN library'.new ELSE Loaded(s)'
  BY <1>5, LibraryViewsNext
<1> QED BY <1>6, <1>7

(* While the files and the journal stay, so does what is shown.             *)
LEMMA LibraryStays ==
  ASSUME commit = None, drop = None, commit' = None, drop' = None,
         UNCHANGED <<ask, config, manual, smart, library>>
  PROVE  /\ \A d \in Devices : \A c \in Components : ConfigView(d, c)' = ConfigView(d, c)
         /\ \A s \in Slugs : ListView(s)' = ListView(s)
<1>1. \A x : LibraryDecides(x)' <=> LibraryDecides(x) BY DEF LibraryDecides, Target
<1>2. \A s : Loaded(s)' = Loaded(s) BY DEF Loaded
<1> QED BY <1>1, <1>2, LibraryViews, LibraryViewsNext

(* What was written is shown whether its journal is there or not.           *)
LEMMA LibraryReal ==
  ASSUME library # None, IsLibrary(library), Wellformed(ask[library.req]), LibraryLive
  PROVE  LET a == ask[library.req] IN
         /\ a.kind = "add" => config[a.device]["selection"] = library.new
         /\ a.kind = "append" => Loaded(a.slug) = library.new
<1> DEFINE a == ask[library.req]
<1>1. CASE a.kind = "add" BY <1>1 DEF LibraryLive
<1>2. CASE a.kind = "append"
  <2>1. library.new \subseteq Names BY <1>2 DEF IsLibrary
  <2>2. library.new # NoList BY <2>1, HostAssumption
  <2>3. manual[a.slug] = library.new BY <1>2 DEF LibraryLive
  <2> QED BY <1>2, <2>2, <2>3 DEF Loaded
<1> QED BY <1>1, <1>2

(* The journal goes once its value is live: nothing shows.                  *)
LEMMA LibraryGone ==
  ASSUME commit = None, drop = None, commit' = None, drop' = None, library' = None,
         UNCHANGED <<ask, config, manual, smart>>,
         library # None => IsLibrary(library) /\ Wellformed(ask[library.req]) /\ LibraryLive
  PROVE  /\ \A d \in Devices : \A c \in Components : ConfigView(d, c)' = ConfigView(d, c)
         /\ \A s \in Slugs : ListView(s)' = ListView(s)
<1>1. CASE library = None BY <1>1, LibraryStays
<1>2. CASE library # None
  <2>1. /\ \A d \in Devices : \A c \in Components : ConfigView(d, c)' = config[d][c]
        /\ \A s \in Slugs : ListView(s)' = Loaded(s)
    BY LibraryViewsNext DEF LibraryDecides, Loaded
  <2> QED BY <1>2, <2>1, LibraryShows, LibraryReal
<1> QED BY <1>1, <1>2

(* How a drop ends: what it named is live or still pending, and a request   *)
(* is told of only what is remembered.                                      *)
LEMMA LibraryEnds ==
  ASSUME IInv, PInv, Remember, task.kind = "library", NEW how \in {"done", "failed"},
         EndLibrary(how), UNCHANGED <<ask, config, manual, smart, commit, drop, ledger, evicted>>,
         library' = library \/ (library' = None /\ (library # None => LibraryLive)),
         how = "done" => library' = None /\ ~ task.written,
         how = "done" /\ task.who = "client" => task.req \in Known
  PROVE  PInv' /\ Implemented
<1>1. /\ LibraryTask(task) /\ Runs("library") /\ LibraryAsked /\ commit = None /\ drop = None
      /\ Wellformed(ask[task.req])
      /\ library # None => IsLibrary(library) /\ LibraryKept /\ Wellformed(ask[library.req])
  BY Librarying
<1>2. Values BY DEF IInv, Shapes
<1>3. /\ \A d \in Devices : \A c \in Components : ConfigView(d, c)' = ConfigView(d, c)
      /\ \A s \in Slugs : ListView(s)' = ListView(s)
  <2>1. CASE library' = library BY <1>1, <2>1, LibraryStays
  <2>2. CASE library' = None /\ (library # None => LibraryLive) BY <1>1, <2>2, LibraryGone
  <2> QED BY <2>1, <2>2
<1>4. Known' = Known BY DEF Known
<1>5. /\ task.who \in {"client", "boot"}
      /\ task.req \in Requests
      /\ ask[task.req].kind \in Drops
      /\ task.who = "client" => Awaited(task.req) /\ daemon = "up"
  BY <1>1 DEF LibraryTask, LibraryAsked, Runs
<1>6. library' # None => LibraryKept'
  BY <1>1 DEF LibraryKept, LibraryLive
<1> PICK r \in Requests : r = task.req BY <1>5
<1>7. CASE task.who = "client" /\ how = "done" /\ ask[r].kind = "add"
  <2>1. task' = [task EXCEPT !.step = "answer"] /\ UNCHANGED <<reply, daemon>>
    BY <1>7 DEF EndLibrary
  <2>2. /\ task'.kind = "library" /\ task'.who = task.who /\ task'.req = task.req
        /\ task'.written = task.written /\ task'.step = "answer"
    BY <1>1, <2>1 DEF LibraryTask
  <2>3. LibraryAsked' BY <1>4, <1>5, <1>7, <2>1, <2>2 DEF LibraryAsked, Awaited
  <2>4. PInv' BY <1>5, <1>6, <1>7, <2>1, <2>2, <2>3, LibraryRest
  <2>5. Unheard BY <1>4, <2>1 DEF Unheard, Told
  <2>6. UNCHANGED Promise!vars BY <1>3, <2>5, NoStep DEF PInv
  <2> QED BY <2>4, <2>6, Steps
<1>8. CASE task.who = "client" /\ ~ (how = "done" /\ ask[r].kind = "add")
  <2>1. task' = NoTask /\ reply' = [reply EXCEPT ![r] = how] /\ daemon' = daemon
    BY <1>8 DEF EndLibrary, Answer
  <2>2. PInv' BY <1>5, <1>6, <1>8, <2>1, LibraryRest, IdleKind
  <2>3. CASE how = "done"
    <3>1. reply \in [Requests -> {"none", "done", "failed"}] BY <1>2 DEF Values
    <3>2. Whole BY DEF PInv
    <3>3. Promise!Tell(r) BY <1>1, <1>3, <1>4, <1>5, <1>8, <2>1, <2>3, <3>1, <3>2, TellBy
    <3> QED BY <2>2, <3>3, Steps
  <2>4. CASE how = "failed"
    <3>1. Told' = Told BY <1>2, <1>5, <1>8, <2>1, <2>4, FailedReply
    <3>2. Unheard BY <1>4, <3>1 DEF Unheard
    <3>3. UNCHANGED Promise!vars BY <1>3, <3>2, NoStep DEF PInv
    <3> QED BY <2>2, <3>3, Steps
  <2> QED BY <2>3, <2>4
<1>9. CASE task.who = "boot"
  <2>1. task' = NoTask /\ UNCHANGED reply /\ daemon' = (IF how = "done" THEN "reconcile" ELSE "down")
    BY <1>9 DEF EndLibrary
  <2>2. PInv' BY <1>6, <2>1, LibraryRest, IdleKind
  <2>3. Unheard BY <1>4, <2>1 DEF Unheard, Told
  <2>4. UNCHANGED Promise!vars BY <1>3, <2>3, NoStep DEF PInv
  <2> QED BY <2>2, <2>4, Steps
<1> QED BY <1>5, <1>7, <1>8, <1>9

(* A drop that goes on without a change of what is shown.                   *)
LEMMA LibraryGoes ==
  ASSUME IInv, PInv, Remember, task.kind = "library",
         UNCHANGED <<ask, daemon, reply, commit, drop>>, Known' = Known,
         task'.kind = "library", task'.who = task.who, task'.req = task.req,
         task'.step # "answer", task'.written => LibraryLive',
         library' # None => LibraryKept',
         \A d \in Devices : config'[d].subscriptions = config[d].subscriptions,
         \A d \in Devices : \A c \in Components : ConfigView(d, c)' = ConfigView(d, c),
         \A s \in Slugs : ListView(s)' = ListView(s)
  PROVE  PInv' /\ Implemented
<1>1. LibraryTask(task) /\ Runs("library") /\ LibraryAsked BY Librarying
<1>2. daemon' # "reconcile" BY <1>1 DEF LibraryTask, Runs
<1>3. LibraryAsked' BY <1>1 DEF LibraryAsked, Awaited
<1>4. PInv' BY <1>2, <1>3, LibraryRest
<1>5. Unheard BY DEF Unheard, Told
<1>6. UNCHANGED Promise!vars BY <1>5, NoStep DEF PInv
<1> QED BY <1>4, <1>6, Steps

(* A request is looked at: it is remembered, refused or goes on.            *)
LEMMA EvaluatePromised ==
  ASSUME IInv, PInv, Remember, Evaluate
  PROVE  PInv' /\ Implemented
<1>1. task.kind = "library" /\ task.step = "evaluate" BY DEF Evaluate, InLibrary
<1>2. UNCHANGED <<ask, saved, imported, files, journals, ledger, prepared, evicted, crashes, faults>>
  BY DEF Evaluate
<1>3. LibraryTask(task) /\ commit = None /\ drop = None /\ library = None BY <1>1, Librarying
<1>4. ~ task.written BY <1>1, <1>3 DEF IInv, LibraryAt, LibraryTask
<1>5. UNCHANGED <<config, manual, smart, commit, drop, library>> BY <1>2 DEF files, journals
<1> DEFINE r == task.req
<1>6. \/ Remembered(r) /\ EndLibrary("done")
      \/ EndLibrary("failed")
      \/ To("journal") /\ UNCHANGED <<daemon, revs, reply>>
  BY Zenon DEF Evaluate
<1>7. CASE Remembered(r) /\ EndLibrary("done")
  <2>1. task.req \in Known BY <1>7 DEF Remembered, Known
  <2> QED BY <1>1, <1>2, <1>3, <1>4, <1>5, <1>7, <2>1, LibraryEnds
<1>8. CASE EndLibrary("failed") BY <1>1, <1>2, <1>5, <1>8, LibraryEnds
<1>9. CASE To("journal") /\ UNCHANGED <<daemon, revs, reply>>
  <2>1. /\ task'.kind = "library" /\ task'.who = task.who /\ task'.req = task.req
        /\ task'.written = task.written /\ task'.step = "journal"
    BY <1>3, <1>9 DEF To, LibraryTask
  <2>2. Known' = Known BY <1>2 DEF Known
  <2>3. /\ \A d \in Devices : \A c \in Components : ConfigView(d, c)' = ConfigView(d, c)
        /\ \A s \in Slugs : ListView(s)' = ListView(s)
    BY <1>2, <1>3, <1>5, LibraryStays
  <2> QED BY <1>1, <1>2, <1>3, <1>4, <1>5, <1>9, <2>1, <2>2, <2>3, LibraryGoes
<1> QED BY <1>6, <1>7, <1>8, <1>9

(* The mutation is journalled: the request takes effect.                    *)
LEMMA JournalMutationPromised ==
  ASSUME IInv, PInv, Remember, JournalMutation
  PROVE  PInv' /\ Implemented
<1>1. task.kind = "library" /\ task.step = "journal" BY DEF JournalMutation, InLibrary
<1>2. UNCHANGED <<ask, saved, imported, files, commit, drop, staged, ledger, evicted, crashes>>
  BY DEF JournalMutation
<1>3. /\ LibraryTask(task) /\ LibraryAsked /\ Runs("library")
      /\ commit = None /\ drop = None /\ library = None
      /\ Wellformed(ask[task.req])
  BY <1>1, Librarying
<1>4. UNCHANGED <<config, manual, smart, commit, drop>> BY <1>2 DEF files
<1>5. Values /\ LibraryAt BY DEF IInv, Shapes
<1>6. CASE EndLibrary("failed") /\ UNCHANGED library BY <1>1, <1>2, <1>4, <1>6, LibraryEnds
<1>7. CASE library' = Mutation(task.req) /\ To("forward") /\ UNCHANGED <<daemon, revs, reply>>
  <2>1. task.who = "client" /\ task.req \in Requests /\ ask[task.req].kind \in Drops
    BY <1>1, <1>3 DEF LibraryTask
  <2> PICK r \in Requests : r = task.req BY <2>1
  <2> PICK a : a = ask[r] OBVIOUS
  <2>2. /\ Awaited(r) /\ Wellformed(a) /\ a.kind \in {"add", "append"} BY <1>3, <2>1 DEF LibraryAsked, Drops
  <2>3. /\ task'.kind = "library" /\ task'.who = task.who /\ task'.req = r
        /\ task'.written = task.written /\ task'.step = "forward"
    BY <1>3, <1>7 DEF To, LibraryTask
  <2>4. ~ task.written BY <1>1, <1>3, <1>5 DEF LibraryAt, LibraryTask
  <2>5. library'.req = r /\ library'.phase = "prepared" BY <1>7 DEF Mutation
  <2>6. library' # None
    <3>1. "req" \in DOMAIN library' /\ "req" \notin DOMAIN None BY <1>7 DEF Mutation, None
    <3> QED BY <3>1
  <2>7. \A s : Loaded(s)' = Loaded(s) BY <1>4 DEF Loaded
  <2>8. \A d \in Devices : \A c \in Components : ConfigView(d, c) = config[d][c]
    BY <1>3, LibraryViews DEF LibraryDecides
  <2>9. \A s \in Slugs : ListView(s) = Loaded(s) BY <1>3, LibraryViews DEF LibraryDecides
  <2>10. Unheard BY <1>2, <1>7 DEF Unheard, Told, Known
  <2>11. r \notin Told BY <2>2 DEF Told, Awaited
  <2>12. Devices \cap Slugs = {} BY HostAssumption
  <2>13. /\ \A d \in Devices : \A c \in Components :
              ConfigView(d, c)' = IF c = "selection" /\ LibraryDecides(d)' THEN library'.new ELSE config[d][c]
         /\ \A s \in Slugs : ListView(s)' = IF LibraryDecides(s)' THEN library'.new ELSE Loaded(s)
    BY <1>3, <1>4, <2>7, LibraryViewsNext
  <2>14. \A x : LibraryDecides(x)' <=> x = Target(r)
    BY <1>2, <2>5, <2>6 DEF LibraryDecides, Target
  <2>15. CASE a.kind = "add"
    <3>1. a.device \in Devices /\ Target(r) = a.device BY <2>2, <2>15 DEF Wellformed, Target
    <3>2. library'.new = config[a.device]["selection"] \union a.rules BY <1>7, <2>15 DEF Mutation
    <3>3. LibraryKept' BY <1>2, <2>5, <2>15, <3>2 DEF LibraryKept
    <3>4. PInv'
      <4>1. LibraryAsked' BY <1>7, <2>2, <2>3, <2>4 DEF LibraryAsked, Awaited
      <4>2. daemon' # "reconcile" BY <1>3, <1>7 DEF LibraryTask, Runs
      <4> QED BY <1>1, <1>4, <2>3, <3>3, <4>1, <4>2, LibraryRest
    <3> DEFINE new == Promise!Change(r)
    <3>5. /\ DOMAIN new = {<<a.device, "selection">>}
          /\ new[<<a.device, "selection">>] = config[a.device]["selection"] \union a.rules
      <4>1. Content[<<a.device, "selection">>] = config[a.device]["selection"]
        BY <2>8, <3>1, ContentAt DEF Components
      <4> QED BY <2>2, <2>15, <4>1, Asks
    <3> HIDE DEF new
    <3>6. ASSUME NEW f \in Fields
          PROVE  Content'[f] = IF f \in DOMAIN new THEN new[f] ELSE Content[f]
      <4>1. CASE \E d \in Devices : \E c \in Components : f = <<d, c>>
        <5>1. PICK d \in Devices : \E c \in Components : f = <<d, c>> BY <4>1
        <5>2. PICK c \in Components : f = <<d, c>> BY <5>1
        <5>3. f \in DOMAIN new <=> d = a.device /\ c = "selection" BY <3>5, <5>2
        <5>4. Content'[f] = IF c = "selection" /\ d = a.device THEN library'.new ELSE config[d][c]
          BY <2>13, <2>14, <3>1, <5>2, ContentAtNext
        <5>5. Content[f] = config[d][c] BY <2>8, <5>2, ContentAt
        <5> QED BY <3>2, <3>5, <5>2, <5>3, <5>4, <5>5
      <4>2. CASE \E s \in Slugs : f = <<s, "list">>
        <5>1. PICK s \in Slugs : f = <<s, "list">> BY <4>2
        <5>2. s # a.device BY <2>12, <3>1
        <5>3. Content'[f] = Loaded(s) BY <2>13, <2>14, <3>1, <5>1, <5>2, ContentAtNext
        <5>4. Content[f] = Loaded(s) BY <2>9, <5>1, ContentAt
        <5>5. f \notin DOMAIN new BY <3>5, <5>1, <5>2
        <5> QED BY <5>3, <5>4, <5>5
      <4> QED BY <4>1, <4>2, FieldsAre
    <3>7. Promise!Set(new) BY <2>10, <3>6, SetBy DEF PInv
    <3>8. Promise!Apply(r) BY <2>11, <3>7 DEF Promise!Apply, new
    <3> QED BY <3>4, <3>8, Steps
  <2>16. CASE a.kind = "append"
    <3>1. a.slug \in Slugs /\ Target(r) = a.slug BY <2>2, <2>16 DEF Wellformed, Target
    <3>2. library'.new = manual[a.slug] \union a.tracks BY <1>7, <2>16 DEF Mutation
    <3>3. manual[a.slug] # NoList /\ Listed(manual[a.slug])
      BY <1>1, <1>5, <2>16, <3>1 DEF LibraryAt, Values
    <3>4. manual[a.slug] # Smart BY <3>3, HostAssumption DEF Listed
    <3>5. LibraryKept' BY <1>2, <2>5, <2>16, <3>2 DEF LibraryKept
    <3>6. PInv'
      <4>1. LibraryAsked' BY <1>7, <2>2, <2>3, <2>4 DEF LibraryAsked, Awaited
      <4>2. daemon' # "reconcile" BY <1>3, <1>7 DEF LibraryTask, Runs
      <4> QED BY <1>1, <1>4, <2>3, <3>5, <4>1, <4>2, LibraryRest
    <3> DEFINE new == Promise!Change(r)
    <3>7. /\ DOMAIN new = {<<a.slug, "list">>}
          /\ new[<<a.slug, "list">>] = manual[a.slug] \union a.tracks
      <4>1. Content[<<a.slug, "list">>] = manual[a.slug] BY <2>9, <3>1, <3>3, ContentAt DEF Loaded
      <4> QED BY <2>2, <2>16, <3>3, <3>4, <4>1, Asks
    <3> HIDE DEF new
    <3>8. ASSUME NEW f \in Fields
          PROVE  Content'[f] = IF f \in DOMAIN new THEN new[f] ELSE Content[f]
      <4>1. CASE \E d \in Devices : \E c \in Components : f = <<d, c>>
        <5>1. PICK d \in Devices : \E c \in Components : f = <<d, c>> BY <4>1
        <5>2. PICK c \in Components : f = <<d, c>> BY <5>1
        <5>3. d # a.slug BY <2>12, <3>1
        <5>4. f \notin DOMAIN new BY <3>7, <5>2, <5>3
        <5>5. Content'[f] = config[d][c] BY <2>13, <2>14, <3>1, <5>2, <5>3, ContentAtNext
        <5>6. Content[f] = config[d][c] BY <2>8, <5>2, ContentAt
        <5> QED BY <5>4, <5>5, <5>6
      <4>2. CASE \E s \in Slugs : f = <<s, "list">>
        <5>1. PICK s \in Slugs : f = <<s, "list">> BY <4>2
        <5>2. f \in DOMAIN new <=> s = a.slug BY <3>7, <5>1
        <5>3. Content'[f] = IF s = a.slug THEN library'.new ELSE Loaded(s)
          BY <2>13, <2>14, <3>1, <5>1, ContentAtNext
        <5>4. Content[f] = Loaded(s) BY <2>9, <5>1, ContentAt
        <5> QED BY <3>2, <3>7, <5>1, <5>2, <5>3, <5>4
      <4> QED BY <4>1, <4>2, FieldsAre
    <3>9. Promise!Set(new) BY <2>10, <3>8, SetBy DEF PInv
    <3>10. Promise!Apply(r) BY <2>11, <3>9 DEF Promise!Apply, new
    <3> QED BY <3>6, <3>10, Steps
  <2> QED BY <2>2, <2>15, <2>16
<1> QED BY <1>6, <1>7 DEF JournalMutation

(* A request is remembered: nothing shows.                                  *)
LEMMA NoteBy ==
  ASSUME NEW r \in Requests, Whole, Remember, Told' = Told, ask' = ask,
         Known' = Known \union {r}, Promise!Made(r),
         \A d \in Devices : \A c \in Components : ConfigView(d, c)' = ConfigView(d, c),
         \A s \in Slugs : ListView(s)' = ListView(s)
  PROVE  Promise!Note(r)
<1>1. ASSUME NEW f \in Fields PROVE Content'[f] = Content[f]
  <2>1. CASE \E d \in Devices : \E c \in Components : f = <<d, c>>
    <3>1. PICK d \in Devices : \E c \in Components : f = <<d, c>> BY <2>1
    <3>2. PICK c \in Components : f = <<d, c>> BY <3>1
    <3>3. ConfigView(d, c)' = ConfigView(d, c) OBVIOUS
    <3> QED BY <3>2, <3>3, ContentAt, ContentAtNext
  <2>2. CASE \E s \in Slugs : f = <<s, "list">>
    <3>1. PICK s \in Slugs : f = <<s, "list">> BY <2>2
    <3>2. ListView(s)' = ListView(s) OBVIOUS
    <3> QED BY <3>1, <3>2, ContentAt, ContentAtNext
  <2> QED BY <2>1, <2>2, FieldsAre
<1>2. Content' = Content BY <1>1, ContentAt, ContentAtNext
<1>3. before' = before
  <2>1. Told' \ Told = {} OBVIOUS
  <2>2. before' = [f \in Fields |-> before[f]] BY <1>2, <2>1, ContentAt DEF Remember
  <2> QED BY <2>2 DEF Whole
<1>4. (evicted \union ToSet(ledger))' = (evicted \union ToSet(ledger)) \union {r} BY DEF Known
<1> QED BY <1>2, <1>3, <1>4 DEF Promise!Note

(* A write of the roll-forward: the payload is what was already shown, the  *)
(* revision does not show, and what is acknowledged has been made.          *)
LEMMA RollWritePromised ==
  ASSUME IInv, PInv, Remember, RollWrite
  PROVE  PInv' /\ Implemented
<1>1. /\ task.kind = "library" /\ task.step \in {"recover", "forward"} /\ ~ task.written
      /\ UNCHANGED <<ask, imported, smart, journals, prepared, crashes>>
  BY DEF RollWrite, Rolling
<1>2. /\ LibraryTask(task) /\ LibraryAsked /\ commit = None /\ drop = None
      /\ library # None /\ IsLibrary(library) /\ LibraryKept /\ library.req \in Requests
      /\ Wellformed(ask[library.req])
  BY <1>1, Librarying
<1>3. Values /\ Journals /\ Ledgered BY DEF IInv, Shapes
<1>4. UNCHANGED <<commit, drop, library>> /\ commit' = None /\ drop' = None BY <1>1, <1>2 DEF journals
<1> PICK r \in Requests : r = library.req BY <1>2
<1> PICK a : a = ask[r] OBVIOUS
<1>5. /\ a.kind \in {"add", "append"}
      /\ a.kind = "add" => a.device \in Devices
      /\ a.kind = "append" => a.slug \in Slugs
  BY <1>2 DEF IsLibrary, Drops, Wellformed
<1>6. /\ \A d \in Devices : \A c \in Components :
           ConfigView(d, c) = IF a.kind = "add" /\ d = a.device /\ c = "selection"
                              THEN library.new ELSE config[d][c]
      /\ \A s \in Slugs :
           ListView(s) = IF a.kind = "append" /\ s = a.slug THEN library.new ELSE Loaded(s)
  BY <1>2, LibraryShows
<1>7. CASE EndLibrary("failed") /\ UNCHANGED <<config, manual, saved, listRev, ledger, evicted>>
  BY <1>1, <1>4, <1>7, LibraryEnds
<1>8. ASSUME UNCHANGED <<daemon, revs, reply>>,
             \/ task' = [task EXCEPT !.written = TRUE]
             \/ \E next : task' = [task EXCEPT !.written = TRUE, !.records = next]
      PROVE  /\ task'.kind = "library" /\ task'.who = task.who /\ task'.req = task.req
             /\ task'.step = task.step /\ task'.step # "answer"
  BY <1>1, <1>2, <1>8 DEF LibraryTask
<1>9. CASE WritePayload /\ UNCHANGED <<daemon, revs, reply>>
  <2>1. library.phase = "prepared" /\ task' = [task EXCEPT !.written = TRUE]
        /\ UNCHANGED <<saved, listRev, ledger, evicted>>
    BY <1>9 DEF WritePayload
  <2>2. /\ config \in [Devices -> [Components -> Contents]]
        /\ DOMAIN manual = Slugs
    BY <1>3 DEF Values
  <2>3. Known' = Known BY <2>1 DEF Known
  <2>4. LibraryKept' BY <1>1, <1>2, <1>4, <2>1 DEF LibraryKept
  <2>5. CASE a.kind = "add"
    <3>1. config' = [config EXCEPT ![a.device].selection = library.new] /\ UNCHANGED manual
      BY <1>9, <2>5 DEF WritePayload
    <3>2. \A d \in Devices : \A c \in Components :
            config'[d][c] = IF d = a.device /\ c = "selection" THEN library.new ELSE config[d][c]
      BY <1>5, <2>2, <2>5, <3>1
    <3>3. "selection" \in Components /\ "subscriptions" \in Components BY DEF Components
    <3>4. LibraryLive' BY <1>1, <1>4, <1>5, <2>5, <3>2, <3>3 DEF LibraryLive
    <3>5. \A d \in Devices : config'[d].subscriptions = config[d].subscriptions BY <3>2, <3>3
    <3>6. \A s : Loaded(s)' = Loaded(s) BY <1>1, <3>1 DEF Loaded
    <3>7. /\ \A d \in Devices : \A c \in Components : ConfigView(d, c)' = ConfigView(d, c)
          /\ \A s \in Slugs : ListView(s)' = ListView(s)
      <4>1. IsLibrary(library)' BY <1>1, <1>2, <1>4 DEF IsLibrary
      <4>2. /\ \A d \in Devices : \A c \in Components :
                 ConfigView(d, c)' = IF d = a.device /\ c = "selection" THEN library.new ELSE config'[d][c]
            /\ \A s \in Slugs : ListView(s)' = Loaded(s)'
        BY <1>1, <1>2, <1>4, <2>5, <4>1, LibraryShowsNext
      <4> QED BY <1>6, <2>5, <3>2, <3>6, <4>2
    <3> QED BY <1>1, <1>4, <1>8, <1>9, <2>1, <2>3, <2>4, <3>4, <3>5, <3>7, LibraryGoes
  <2>6. CASE a.kind = "append"
    <3>1. manual' = [manual EXCEPT ![a.slug] = library.new] /\ UNCHANGED config
      BY <1>9, <2>6 DEF WritePayload
    <3>2. manual'[a.slug] = library.new /\ \A s \in Slugs : s # a.slug => manual'[s] = manual[s]
      BY <1>5, <2>2, <2>6, <3>1
    <3>3. LibraryLive' BY <1>1, <1>4, <2>6, <3>2 DEF LibraryLive
    <3>4. \A s \in Slugs : s # a.slug => Loaded(s)' = Loaded(s) BY <1>1, <3>2 DEF Loaded
    <3>5. /\ \A d \in Devices : \A c \in Components : ConfigView(d, c)' = ConfigView(d, c)
          /\ \A s \in Slugs : ListView(s)' = ListView(s)
      <4>1. IsLibrary(library)' BY <1>1, <1>2, <1>4 DEF IsLibrary
      <4>2. /\ \A d \in Devices : \A c \in Components : ConfigView(d, c)' = config'[d][c]
            /\ \A s \in Slugs :
                 ListView(s)' = IF s = a.slug THEN library.new ELSE Loaded(s)'
        BY <1>1, <1>2, <1>4, <2>6, <4>1, LibraryShowsNext
      <4> QED BY <1>6, <2>6, <3>1, <3>4, <4>2
    <3> QED BY <1>1, <1>4, <1>8, <1>9, <2>1, <2>3, <2>4, <3>1, <3>3, <3>5, LibraryGoes
  <2> QED BY <1>5, <2>5, <2>6
<1>10. ASSUME UNCHANGED <<daemon, revs, reply, config, manual>>, library.phase # "prepared"
       PROVE  /\ LibraryLive /\ LibraryLive' /\ LibraryKept'
              /\ \A d \in Devices : \A c \in Components : ConfigView(d, c)' = ConfigView(d, c)
              /\ \A s \in Slugs : ListView(s)' = ListView(s)
  <2>1. LibraryLive BY <1>2, <1>10 DEF LibraryKept
  <2>2. LibraryLive' BY <1>1, <1>4, <1>10, <2>1 DEF LibraryLive
  <2>3. LibraryKept' BY <1>1, <1>2, <1>4, <2>2 DEF LibraryKept
  <2>4. /\ \A d \in Devices : \A c \in Components : ConfigView(d, c)' = ConfigView(d, c)
        /\ \A s \in Slugs : ListView(s)' = ListView(s)
    BY <1>1, <1>2, <1>4, <1>10, LibraryStays
  <2> QED BY <2>1, <2>2, <2>3, <2>4
<1>11. CASE WriteRevision /\ UNCHANGED <<daemon, revs, reply>>
  <2>1. /\ library.phase = "payload" /\ UNCHANGED <<config, manual, ledger, evicted>>
        /\ \/ task' = [task EXCEPT !.written = TRUE]
           \/ \E next : task' = [task EXCEPT !.written = TRUE, !.records = next]
    BY <1>11 DEF WriteRevision
  <2>2. Known' = Known BY <2>1 DEF Known
  <2> QED BY <1>1, <1>4, <1>8, <1>10, <1>11, <2>1, <2>2, LibraryGoes
<1>12. CASE WriteLedger /\ UNCHANGED <<daemon, revs, reply>>
  <2>1. /\ library.phase = "revision" /\ ledger' = Acknowledged
        /\ evicted' = evicted \union (ToSet(ledger) \ ToSet(Acknowledged))
        /\ task' = [task EXCEPT !.written = TRUE] /\ UNCHANGED <<config, manual>>
    BY <1>12 DEF WriteLedger
  <2>2. LibraryLive /\ LibraryLive' /\ LibraryKept' BY <1>10, <1>12, <2>1
  <2>3. /\ \A d \in Devices : \A c \in Components : ConfigView(d, c)' = ConfigView(d, c)
        /\ \A s \in Slugs : ListView(s)' = ListView(s)
    BY <1>10, <1>12, <2>1
  <2>4. Known' = Known \union {r}
    <3>1. r \in ToSet(Acknowledged) /\ ToSet(Acknowledged) \subseteq ToSet(ledger) \union {r}
      BY <1>2, <1>3, AcknowledgedShape DEF Ledgered
    <3> QED BY <2>1, <3>1 DEF Known
  <2>5. Promise!Made(r)
    <3> DEFINE new == Promise!Change(r)
    <3>1. CASE a.kind = "add"
      <4>1. Content[<<a.device, "selection">>] = library.new
        BY <1>5, <1>6, <3>1, ContentAt DEF Components
      <4>2. a.rules \subseteq library.new BY <1>2, <3>1 DEF LibraryKept
      <4>3. /\ DOMAIN new = {<<a.device, "selection">>}
            /\ new[<<a.device, "selection">>] = Content[<<a.device, "selection">>] \union a.rules
        BY <1>2, <3>1, Asks
      <4> HIDE DEF new
      <4>4. new[<<a.device, "selection">>] = library.new BY <4>1, <4>2, <4>3
      <4> QED BY <4>1, <4>3, <4>4, MadeBy DEF new
    <3>2. CASE a.kind = "append"
      <4>1. Content[<<a.slug, "list">>] = library.new
        BY <1>5, <1>6, <3>2, ContentAt
      <4>2. a.tracks \subseteq library.new BY <1>2, <3>2 DEF LibraryKept
      <4>3. /\ DOMAIN new = {<<a.slug, "list">>}
            /\ new[<<a.slug, "list">>] \in
                 {Content[<<a.slug, "list">>], Content[<<a.slug, "list">>] \union a.tracks}
        BY <1>2, <3>2, Asks
      <4> HIDE DEF new
      <4>4. new[<<a.slug, "list">>] = library.new BY <4>1, <4>2, <4>3
      <4> QED BY <4>1, <4>3, <4>4, MadeBy DEF new
    <3> QED BY <1>5, <3>1, <3>2
  <2>6. PInv'
    <3>1. LibraryAsked' BY <1>2, <1>8, <1>12, <2>1, <2>2 DEF LibraryAsked, Awaited
    <3>2. daemon' # "reconcile"
      <4>1. Runs("library") BY <1>1, Librarying
      <4> QED BY <1>2, <1>12, <4>1 DEF LibraryTask, Runs
    <3> QED BY <1>1, <1>4, <1>8, <1>12, <2>1, <2>2, <3>1, <3>2, LibraryRest
  <2>7. Promise!Note(r)
    <3>1. Told' = Told /\ Whole BY <1>12 DEF Told, PInv
    <3> QED BY <1>1, <2>3, <2>4, <2>5, <3>1, NoteBy
  <2> QED BY <2>6, <2>7, Steps
<1> QED BY <1>7, <1>9, <1>11, <1>12 DEF RollWrite

(* What was written is marked in the journal.                               *)
LEMMA RollMarkPromised ==
  ASSUME IInv, PInv, Remember, RollMark
  PROVE  PInv' /\ Implemented
<1>1. /\ task.kind = "library" /\ task.step \in {"recover", "forward"} /\ task.written
      /\ UNCHANGED <<ask, saved, imported, files, commit, drop, staged, ledger, prepared, evicted, crashes>>
  BY DEF RollMark, Rolling
<1>2. /\ LibraryTask(task) /\ LibraryLive /\ commit = None /\ drop = None
      /\ library # None /\ IsLibrary(library) /\ LibraryKept /\ library.req \in Requests
      /\ Wellformed(ask[library.req])
  BY <1>1, Librarying DEF LibraryAsked
<1>3. UNCHANGED <<config, manual, smart, commit, drop>> BY <1>1 DEF files
<1>4. CASE EndLibrary("failed") /\ UNCHANGED library BY <1>1, <1>3, <1>4, LibraryEnds
<1>5. CASE /\ library' = [library EXCEPT !.phase = NextPhase[@]]
           /\ task' = [task EXCEPT !.written = FALSE] /\ UNCHANGED <<daemon, revs, reply>>
  <2>1. /\ task'.kind = "library" /\ task'.who = task.who /\ task'.req = task.req
        /\ task'.step = task.step /\ task'.step # "answer" /\ ~ task'.written
    BY <1>1, <1>2, <1>5 DEF LibraryTask
  <2>2. library.phase # "ledger" BY <1>1 DEF IInv, LibraryAt
  <2>3. /\ library'.req = library.req /\ library'.new = library.new
        /\ library'.phase \in {"payload", "revision", "ledger"}
    BY <1>2, <1>5, <2>2 DEF IsLibrary, NextPhase
  <2>4. IsLibrary(library)' /\ library' # None
    <3>1. IsLibrary(library)' BY <1>1, <1>2, <1>5, <2>3 DEF IsLibrary
    <3> QED BY <3>1, JournalsDiffer DEF IsLibrary, None
  <2>5. LibraryKept' BY <1>1, <1>2, <1>3, <2>3 DEF LibraryKept, LibraryLive
  <2>6. \A s : Loaded(s)' = Loaded(s) BY <1>3 DEF Loaded
  <2>7. /\ \A d \in Devices : \A c \in Components : ConfigView(d, c)' = ConfigView(d, c)
        /\ \A s \in Slugs : ListView(s)' = ListView(s)
    <3> DEFINE a == ask[library.req]
    <3>1. commit' = None /\ drop' = None /\ UNCHANGED ask /\ Wellformed(ask[library'.req])
      BY <1>1, <1>2, <1>3, <2>3
    <3>2. /\ \A d \in Devices : \A c \in Components :
               ConfigView(d, c)' = IF a.kind = "add" /\ d = a.device /\ c = "selection"
                                   THEN library.new ELSE config[d][c]
          /\ \A s \in Slugs :
               ListView(s)' = IF a.kind = "append" /\ s = a.slug THEN library.new ELSE Loaded(s)
      BY <1>3, <2>3, <2>4, <2>6, <3>1, LibraryShowsNext
    <3> QED BY <1>2, <3>2, LibraryShows
  <2>8. Known' = Known BY <1>1 DEF Known
  <2> QED BY <1>1, <1>3, <1>5, <2>1, <2>5, <2>7, <2>8, LibraryGoes
<1> QED BY <1>4, <1>5 DEF RollMark

(* The journal goes: what it named is live and remembered.                  *)
LEMMA RollDonePromised ==
  ASSUME IInv, PInv, Remember, RollDone
  PROVE  PInv' /\ Implemented
<1>1. /\ task.kind = "library" /\ task.step \in {"recover", "forward"} /\ library.phase = "ledger"
      /\ UNCHANGED <<ask, saved, imported, files, commit, drop, staged, ledger, prepared, evicted, crashes>>
  BY DEF RollDone, Rolling
<1>2. /\ LibraryTask(task) /\ commit = None /\ drop = None
      /\ library # None /\ IsLibrary(library) /\ LibraryKept /\ Wellformed(ask[library.req])
  BY <1>1, Librarying
<1>3. UNCHANGED <<config, manual, smart, commit, drop>> BY <1>1 DEF files
<1>4. LibraryLive BY <1>1, <1>2 DEF LibraryKept
<1>5. /\ ~ task.written /\ library.req \in Known
      /\ task.step = "forward" => library.req = task.req
  BY <1>1, <1>2 DEF IInv, LibraryAt, Ledgered, LibraryTask
<1>6. CASE EndLibrary("failed") /\ UNCHANGED library BY <1>1, <1>3, <1>6, LibraryEnds
<1>7. CASE library' = None /\ task.step = "recover" /\ task.who = "client"
           /\ To("evaluate") /\ UNCHANGED <<daemon, revs, reply>>
  <2>1. /\ task'.kind = "library" /\ task'.who = task.who /\ task'.req = task.req
        /\ task'.step # "answer" /\ task'.written = task.written
    BY <1>2, <1>7 DEF To, LibraryTask
  <2>2. /\ \A d \in Devices : \A c \in Components : ConfigView(d, c)' = ConfigView(d, c)
        /\ \A s \in Slugs : ListView(s)' = ListView(s)
    BY <1>1, <1>2, <1>3, <1>4, <1>7, LibraryGone
  <2>3. Known' = Known BY <1>1 DEF Known
  <2> QED BY <1>1, <1>3, <1>5, <1>7, <2>1, <2>2, <2>3, LibraryGoes
<1>8. CASE library' = None /\ ~ (task.step = "recover" /\ task.who = "client") /\ EndLibrary("done")
  <2>1. task.who = "client" => task.req \in Known BY <1>1, <1>5, <1>8
  <2> QED BY <1>1, <1>3, <1>4, <1>5, <1>8, <2>1, LibraryEnds
<1> QED BY <1>6, <1>7, <1>8 DEF RollDone

(* A drop on a device is answered once the registry was read again.         *)
LEMMA RespondPromised ==
  ASSUME IInv, PInv, Remember, Respond
  PROVE  PInv' /\ Implemented
<1>1. /\ task.kind = "library" /\ task.step = "answer"
      /\ task' = NoTask /\ reply' = [reply EXCEPT ![task.req] = "done"]
      /\ UNCHANGED <<ask, daemon, registry, files, journals, ledger, prepared, evicted, crashes, faults>>
  BY DEF Respond, InLibrary, Answer
<1>2. /\ LibraryTask(task) /\ Runs("library") /\ commit = None /\ drop = None /\ library = None
      /\ Wellformed(ask[task.req]) /\ task.req \in Known
  BY <1>1, Librarying DEF LibraryAsked
<1>3. task.who = "client" /\ Awaited(task.req) /\ daemon = "up" /\ task.req \in Requests
  BY <1>1, <1>2, Librarying DEF LibraryTask, LibraryAsked, Runs
<1> PICK r \in Requests : r = task.req BY <1>3
<1>4. UNCHANGED <<config, manual, smart, commit, drop, library>> BY <1>1 DEF files, journals
<1>5. /\ \A d \in Devices : \A c \in Components : ConfigView(d, c)' = ConfigView(d, c)
      /\ \A s \in Slugs : ListView(s)' = ListView(s)
  BY <1>1, <1>2, <1>4, LibraryStays
<1>6. PInv' BY <1>1, <1>2, <1>3, <1>4, LibraryRest, IdleKind
<1>7. reply \in [Requests -> {"none", "done", "failed"}] /\ Whole /\ Known' = Known
  BY <1>1 DEF IInv, Shapes, Values, PInv, Known
<1>8. Promise!Tell(r) BY <1>1, <1>2, <1>3, <1>5, <1>7, TellBy
<1> QED BY <1>6, <1>8, Steps

(* A step of a drop.                                                        *)
LEMMA LibraryStepPromised ==
  ASSUME IInv, PInv, Remember, LibraryStep
  PROVE  PInv' /\ Implemented
BY EvaluatePromised, JournalMutationPromised, RollWritePromised, RollMarkPromised,
   RollDonePromised, RespondPromised
DEF LibraryStep

-----------------------------------------------------------------------------
(* Commands.                                                                 *)

(* While files and journals stay, so does what is shown.                    *)
LEMMA AllShown ==
  ASSUME UNCHANGED <<ask, config, manual, smart, commit, drop, library>>,
         revs' = revs \/ commit = None
  PROVE  /\ \A d \in Devices : \A c \in Components : ConfigView(d, c)' = ConfigView(d, c)
         /\ \A s \in Slugs : ListView(s)' = ListView(s)
<1>1. \A x : LibraryDecides(x)' <=> LibraryDecides(x) BY DEF LibraryDecides, Target
<1>2. \A d, c : DropDecides(d, c)' <=> DropDecides(d, c) BY DEF DropDecides
<1>3. \A d, c : CommitDecides(d, c)' <=> CommitDecides(d, c)
  <2>1. CASE revs' = revs BY <2>1 DEF CommitDecides, Undoable, AtOriginal, LiveParts
  <2>2. CASE commit = None BY <2>2 DEF CommitDecides
  <2> QED BY <2>1, <2>2
<1>4. \A s : Loaded(s)' = Loaded(s) BY DEF Loaded
<1> QED BY <1>1, <1>2, <1>3, <1>4 DEF ConfigView, ListView

(* A step that only chooses what to do next: it changes no file and no      *)
(* journal, and tells nobody of success.                                    *)
LEMMA Quiet ==
  ASSUME IInv, PInv, Remember, Alone', Serial',
         UNCHANGED <<ask, config, manual, smart, commit, drop, library, ledger, evicted>>,
         revs' = revs \/ commit = None,
         reply' = reply \/ \E r \in Requests : Awaited(r) /\ reply' = [reply EXCEPT ![r] = "failed"],
         task'.kind = "config" => ConfigAsked',
         task'.kind = "delete" => DeleteAsked',
         task'.kind = "library" => LibraryAsked',
         task'.kind = "save" => SaveAsked'
  PROVE  PInv' /\ Implemented
<1>1. Values BY DEF IInv, Shapes
<1>2. Told' = Told /\ \A x \in Requests : Awaited(x) => Awaited(x)'
  <2>1. CASE reply' = reply BY <2>1 DEF Told, Awaited
  <2>2. CASE \E r \in Requests : Awaited(r) /\ reply' = [reply EXCEPT ![r] = "failed"]
    <3>1. PICK r \in Requests : Awaited(r) /\ reply' = [reply EXCEPT ![r] = "failed"] BY <2>2
    <3> QED BY <1>1, <3>1, FailedReply
  <2> QED BY <2>1, <2>2
<1>3. Unheard BY <1>2 DEF Unheard, Known
<1>4. /\ \A d \in Devices : \A c \in Components : ConfigView(d, c)' = ConfigView(d, c)
      /\ \A s \in Slugs : ListView(s)' = ListView(s)
  BY AllShown
<1>5. UNCHANGED Promise!vars /\ before' = before BY <1>3, <1>4, NoStep DEF PInv
<1>6. commit # None => CommitKept'
  <2>1. ASSUME commit # None PROVE revs' = revs /\ CommitKept BY <2>1, Committing
  <2> QED BY <1>2, <1>5, <2>1, CommitStays
<1>7. drop # None => DropKept'
  <2>1. drop # None => DropKept /\ drop.req \in Requests BY Deleting
  <2>2. \A s : Live(s)' = Live(s) BY DEF Live
  <2> QED BY <1>2, <1>5, <2>1, <2>2 DEF DropKept, Exclusive, Subs
<1>8. library # None => LibraryKept'
  <2>1. library # None => LibraryKept BY Librarying
  <2> QED BY <2>1 DEF LibraryKept, LibraryLive
<1>9. Whole' BY WholeNext
<1>10. Named' BY DEF PInv, Named
<1>11. CommitPart' /\ DropPart' /\ LibraryPart' /\ SavePart'
  BY <1>6, <1>7, <1>8 DEF CommitPart, DropPart, LibraryPart, SavePart
<1>12. PInv' BY <1>9, <1>10, <1>11 DEF PInv
<1> QED BY <1>5, <1>12, Steps

(* A daemon that is free.                                                   *)
LEMMA Free ==
  ASSUME PInv, Idle
  PROVE  /\ daemon = "up" /\ task.kind = "idle"
         /\ commit # None => drop = None /\ library = None
         /\ drop # None => library = None
BY IdleKind DEF Idle, PInv, Alone

(* What a command leaves alone.                                             *)
CommandFrame ==
  UNCHANGED <<ask, daemon, revs, saved, imported, config, manual, smart, listRev,
              commit, drop, staged, library, ledger, evicted>>

(* A command that finds its work done.                                      *)
LEMMA AlreadyMade ==
  ASSUME IInv, PInv, Remember, NEW r \in Requests, Idle, CommandFrame, Awaited(r), Settled,
         Answer(r, "done"), Promise!Made(r)
  PROVE  PInv' /\ Implemented
<1>1. task' = NoTask /\ reply' = [reply EXCEPT ![r] = "done"] BY DEF Answer
<1>2. Values /\ Wellformed(ask[r]) BY Asked DEF IInv, Shapes
<1>3. /\ \A d \in Devices : \A c \in Components : ConfigView(d, c)' = ConfigView(d, c)
      /\ \A s \in Slugs : ListView(s)' = ListView(s)
  BY AllShown DEF CommandFrame
<1>4. Settled' /\ Named' BY DEF Settled, CommandFrame, PInv, Named
<1>5. PInv' BY <1>1, <1>4, PlainRest, IdleKind
<1>6. reply \in [Requests -> {"none", "done", "failed"}] /\ Whole BY <1>2 DEF Values, PInv
<1>7. Known' = Known /\ ask' = ask BY DEF CommandFrame, Known
<1>8. Promise!Tell(r) BY <1>1, <1>2, <1>3, <1>6, <1>7, TellBy
<1> QED BY <1>5, <1>8, Steps

(* A configuration: done already, or to be committed.                       *)
LEMMA StartConfigPromised ==
  ASSUME IInv, PInv, Remember, NEW r \in Requests, Idle, CommandFrame, Awaited(r), Settled,
         ask[r].kind = "config", StartConfig(r)
  PROVE  PInv' /\ Implemented
<1> DEFINE a == ask[r]  parts == Differing(a.device, a.edit)
<1>1. /\ Values /\ Wellformed(a) /\ a.device \in Devices /\ Edits(a.edit)
      /\ DOMAIN a.edit \subseteq Components
      /\ "subscriptions" \in DOMAIN a.edit => a.edit["subscriptions"] \subseteq Slugs
  BY Asked DEF IInv, Shapes, Wellformed, Edits
<1>2. CASE parts = {}
  <2>1. Answer(r, "done") BY <1>2 DEF StartConfig
  <2>2. \A c \in DOMAIN a.edit : config[a.device][c] = a.edit[c] BY <1>2 DEF Differing
  <2> DEFINE new == Promise!Change(r)
  <2>3. /\ DOMAIN new = {<<a.device, c>> : c \in DOMAIN a.edit}
        /\ \A c \in DOMAIN a.edit : new[<<a.device, c>>] = a.edit[c]
    BY <1>1, Asks
  <2> HIDE DEF new
  <2>4. ASSUME NEW c \in DOMAIN a.edit PROVE Content[<<a.device, c>>] = a.edit[c]
    <3>1. c \in Components BY <1>1
    <3> QED BY <1>1, <2>2, <3>1, PlainViews, ContentAt
  <2>5. \A f \in Fields : f \in DOMAIN new => new[f] = Content[f] BY <2>3, <2>4
  <2>6. Promise!Made(r) BY <2>5, MadeBy DEF new
  <2> QED BY <2>1, <2>6, AlreadyMade
<1>3. CASE parts # {}
  <2> DEFINE e == [c \in parts |-> a.edit[c]]
  <2>1. task' = CommitTask("client", r, a.device, e) /\ UNCHANGED reply BY <1>3 DEF StartConfig
  <2>2. /\ parts \subseteq DOMAIN a.edit
        /\ \A c \in DOMAIN a.edit \ parts : config[a.device][c] = a.edit[c]
    BY DEF Differing
  <2>3. /\ task'.kind = "config" /\ task'.who = "client" /\ task'.req = r /\ task'.device = a.device
        /\ task'.edit = e /\ task'.step = "journal"
    BY <2>1 DEF CommitTask
  <2>4. DOMAIN e = parts /\ \A c \in parts : e[c] = a.edit[c] OBVIOUS
  <2> HIDE DEF e, parts
  <2>5. ConfigAsked'
    <3>1. UNCHANGED <<ask, config, commit>> /\ commit' = None BY DEF CommandFrame, Settled
    <3>2. Awaited(r)' BY <2>1 DEF Awaited
    <3>3. "subscriptions" \in DOMAIN a.edit => a.edit["subscriptions"] \subseteq Slugs BY <1>1
    <3> QED BY <2>2, <2>3, <2>4, <3>1, <3>2, <3>3 DEF ConfigAsked
  <2>6. Alone' /\ Serial' BY <2>3, Free DEF Alone, Serial, CommandFrame, Settled
  <2> QED BY <2>1, <2>3, <2>5, <2>6, Quiet DEF CommandFrame
<1> QED BY <1>2, <1>3

(* A deletion: done already, refused, or to be staged.                      *)
LEMMA StartDeletePromised ==
  ASSUME IInv, PInv, Remember, NEW r \in Requests, Idle, CommandFrame, Awaited(r), Settled,
         ask[r].kind = "delete", StartDelete(r)
  PROVE  PInv' /\ Implemented
<1>1. Values /\ Wellformed(ask[r]) BY Asked DEF IInv, Shapes
<1> PICK s \in Slugs : s = ask[r].slug BY <1>1 DEF Wellformed
<1> DEFINE t == [kind |-> "delete", req |-> r, step |-> "stage", who |-> "client", left |-> {}]
<1>2. \/ Missing(s) /\ Answer(r, "done")
      \/ Answer(r, "failed")
      \/ ~ Missing(s) /\ ~ (manual[s] # NoList /\ s \in smart) /\ task' = t /\ UNCHANGED reply
  BY Zenon DEF StartDelete
<1>3. CASE Missing(s) /\ Answer(r, "done")
  <2>1. Loaded(s) = NoList BY <1>3 DEF Missing, Loaded
  <2>2. Content[<<s, "list">>] = NoList BY <2>1, PlainViews, ContentAt
  <2>3. DOMAIN Promise!Change(r) = {<<s, "list">>} /\ Promise!Change(r)[<<s, "list">>] = NoList
    BY <1>1, <2>2, Asks
  <2>4. Promise!Made(r) BY <2>2, <2>3, MadeBy
  <2> QED BY <1>3, <2>4, AlreadyMade
<1>4. CASE Answer(r, "failed")
  <2>1. task' = NoTask /\ reply' = [reply EXCEPT ![r] = "failed"] BY <1>4 DEF Answer
  <2>2. task'.kind = "idle" BY <2>1, IdleKind
  <2>3. Alone' /\ Serial' BY <2>2, Free DEF Alone, Serial, CommandFrame, Settled
  <2> QED BY <2>1, <2>2, <2>3, Quiet DEF CommandFrame
<1>5. CASE ~ Missing(s) /\ ~ (manual[s] # NoList /\ s \in smart) /\ task' = t /\ UNCHANGED reply
  <2>1. task'.kind = "delete" /\ task'.who = "client" /\ task'.step = "stage" /\ task'.req = r
    BY <1>5
  <2>2. Exclusive(s, Loaded(s))
    <3>1. manual[s] # Smart BY <1>1, HostAssumption DEF Values, Listed
    <3> QED BY <1>5, <3>1, HostAssumption DEF Exclusive, Loaded, Missing
  <2>3. DeleteAsked'
    <3>1. UNCHANGED <<ask, manual, smart, drop>> /\ drop' = None BY DEF CommandFrame, Settled
    <3>2. Awaited(r)' BY <1>5 DEF Awaited
    <3>3. Exclusive(s, Loaded(s))' BY <2>2, <3>1 DEF Exclusive, Loaded
    <3> QED BY <2>1, <3>1, <3>2, <3>3 DEF DeleteAsked
  <2>4. Alone' /\ Serial' BY <2>1, Free DEF Alone, Serial, CommandFrame, Settled
  <2> QED BY <1>5, <2>1, <2>3, <2>4, Quiet DEF CommandFrame
<1> QED BY <1>2, <1>3, <1>4, <1>5

(* A command is refused, answered or begun.                                 *)
LEMMA CommandPromised ==
  ASSUME IInv, PInv, Remember, Serial', NEW r \in Requests, Command(r)
  PROVE  PInv' /\ Implemented
<1>1. /\ Idle /\ ask[r].kind # "import" /\ Awaited(r)
      /\ UNCHANGED <<ask, daemon, registry, files, journals, ledger, prepared, evicted, crashes, faults>>
  BY DEF Command, Awaited
<1>2. CommandFrame BY <1>1 DEF CommandFrame, registry, files, journals
<1>3. UNCHANGED <<ask, daemon, revs, config, manual, smart, commit, drop, library, ledger, evicted>>
  BY <1>2 DEF CommandFrame
<1>4. Wellformed(ask[r]) BY Asked DEF IInv, Shapes
<1>5. ask[r].kind \in {"config", "import", "add", "append", "save", "delete"}
  BY <1>4 DEF Wellformed
<1>6. CASE Guarded(ask[r].kind) /\ ~Settled
  <2>1. Answer(r, "failed") BY <1>6, Zenon DEF Command
  <2>2. task'.kind = "idle" /\ reply' = [reply EXCEPT ![r] = "failed"] BY <2>1, IdleKind DEF Answer
  <2>3. Alone' BY <1>1, <1>3, <2>2, Free DEF Alone
  <2> QED BY <1>1, <1>3, <2>2, <2>3, Quiet
<1>7. CASE ~ (Guarded(ask[r].kind) /\ ~Settled)
  <2>1. ask[r].kind \in {"config", "delete", "save"} => Settled BY <1>7 DEF Guarded
  <2>2. CASE ask[r].kind = "config"
    <3>1. StartConfig(r) BY <1>7, <2>2, Zenon DEF Command
    <3> QED BY <1>1, <1>2, <2>1, <2>2, <3>1, StartConfigPromised
  <2>3. CASE ask[r].kind = "delete"
    <3>1. ask[r].kind # "config" BY <2>3
    <3>2. StartDelete(r) BY <1>7, <2>3, <3>1, Zenon DEF Command
    <3> QED BY <1>1, <1>2, <2>1, <2>3, <3>2, StartDeletePromised
  <2>4. CASE ask[r].kind = "save"
    <3>1. ask[r].kind # "config" /\ ask[r].kind # "delete" BY <2>4
    <3>2. StartSave(r) BY <1>7, <2>4, <3>1, Zenon DEF Command
    <3>3. task' = [kind |-> "save", req |-> r, step |-> "write"] /\ UNCHANGED reply
      BY <3>2 DEF StartSave
    <3>4. task'.kind = "save" /\ task'.req = r /\ task'.step = "write" BY <3>3
    <3>5. SaveAsked' BY <1>1, <3>3, <3>4 DEF SaveAsked, Awaited
    <3>6. Alone' BY <1>1, <1>3, <2>1, <2>4, <3>4, Free DEF Alone, Settled
    <3> QED BY <1>3, <3>3, <3>4, <3>5, <3>6, Quiet
  <2>5. CASE ask[r].kind \in Drops
    <3>1. ask[r].kind # "config" /\ ask[r].kind # "delete" /\ ask[r].kind # "save" BY <2>5 DEF Drops
    <3>2. StartLibrary(r, "client") BY <1>7, <3>1, Zenon DEF Command
    <3>3. /\ task'.kind = "library" /\ task'.req = r /\ task'.who = "client" /\ task'.step # "answer"
          /\ ~ task'.written /\ UNCHANGED reply
      BY <3>2 DEF StartLibrary
    <3>4. LibraryAsked' BY <1>1, <3>3 DEF LibraryAsked, Awaited
    <3>5. Alone' BY <1>1, <1>3, <3>3, Free DEF Alone
    <3> QED BY <1>3, <3>3, <3>4, <3>5, Quiet
  <2> QED BY <1>1, <1>5, <2>2, <2>3, <2>4, <2>5 DEF Drops
<1> QED BY <1>6, <1>7

(* An import changes the registry's file and nothing that is shown.         *)
LEMMA ImportPromised ==
  ASSUME IInv, PInv, Remember, NEW r \in Requests, Import(r)
  PROVE  PInv' /\ Implemented
<1>1. /\ Idle /\ Settled /\ ask[r].kind = "import" /\ reply[r] = "none"
      /\ task' = NoTask /\ reply' = [reply EXCEPT ![r] = "done"]
      /\ UNCHANGED <<ask, daemon, revs, files, journals, ledger, prepared, evicted, crashes, faults>>
  BY DEF Import, Answer
<1>2. UNCHANGED <<config, manual, smart, commit, drop, library>> BY <1>1 DEF files, journals
<1>3. Values /\ Wellformed(ask[r]) BY Asked DEF IInv, Shapes
<1>4. /\ \A d \in Devices : \A c \in Components : ConfigView(d, c)' = ConfigView(d, c)
      /\ \A s \in Slugs : ListView(s)' = ListView(s)
  BY <1>1, <1>2, AllShown
<1>5. Settled' /\ Named' BY <1>1, <1>2 DEF Settled, PInv, Named
<1>6. PInv' BY <1>1, <1>5, PlainRest, IdleKind
<1>7. DOMAIN Promise!Change(r) = {} BY <1>1, <1>3, Asks
<1>8. Promise!Made(r) BY <1>7, MadeBy
<1>9. reply \in [Requests -> {"none", "done", "failed"}] /\ Whole BY <1>3 DEF Values, PInv
<1>10. Known' = Known /\ Awaited(r) BY <1>1 DEF Known, Awaited
<1>11. Promise!Tell(r) BY <1>1, <1>3, <1>4, <1>8, <1>9, <1>10, TellBy
<1> QED BY <1>6, <1>11, Steps

-----------------------------------------------------------------------------
(* A start and a crash.                                                      *)

(* A daemon that stops or starts reads the registry again: a commit it      *)
(* could undo may have become one it cannot, or the other way round.        *)
LEMMA Reread ==
  ASSUME IInv, PInv, Remember, task' = NoTask, daemon' \in {"down", "config"},
         UNCHANGED <<ask, config, manual, smart, reply, ledger, evicted, commit, drop, library>>
  PROVE  PInv' /\ Implemented
<1>1. task'.kind = "idle" BY IdleKind
<1>2. Alone' /\ Serial' BY <1>1 DEF PInv, Alone, Serial
<1>3. CASE commit = None BY <1>1, <1>2, <1>3, Quiet
<1>4. CASE commit # None
  <2>1. CommitKept /\ drop = None /\ library = None BY <1>4, Committing
  <2>2. Whole BY DEF PInv
  <2>3. CommitKept' /\ Implemented BY <1>4, <2>1, <2>2, Turned
  <2>4. Whole' /\ Named' BY WholeNext DEF PInv, Named
  <2>5. CommitPart' /\ DropPart' /\ LibraryPart' /\ SavePart'
    BY <1>1, <2>1, <2>3 DEF CommitPart, DropPart, LibraryPart, SavePart
  <2> QED BY <1>2, <2>3, <2>4, <2>5 DEF PInv
<1> QED BY <1>3, <1>4

(* A daemon that is down does nothing.                                      *)
LEMMA Down ==
  ASSUME IInv, daemon = "down"
  PROVE  task = NoTask
<1>1. Tasks BY DEF IInv, Shapes
<1> QED BY <1>1 DEF Tasks, Runs, ConfigTask, DeleteTask, SaveTask, LibraryTask

(* The files, and what each phase of a start leaves alone.                  *)
BootFiles ==
  UNCHANGED <<ask, config, manual, smart, commit, drop, library, ledger, evicted, reply>>

(* A pending commit is undone or completed.                                 *)
LEMMA RecoverConfigPromised ==
  ASSUME IInv, PInv, Remember, RecoverConfig
  PROVE  PInv' /\ Implemented
<1>1. /\ daemon = "config" /\ task = NoTask /\ BootFiles /\ revs' = revs
  BY DEF RecoverConfig, BootFiles, registry, files, journals, answers
<1>2. task.kind = "idle" BY <1>1, IdleKind
<1>3. CASE UNCHANGED task /\ (daemon' = "refused" \/ (daemon' = "playlists" /\ commit = None))
  <2>1. task'.kind = "idle" BY <1>2, <1>3
  <2>2. Alone' /\ Serial' BY <1>1, <1>3, <2>1 DEF PInv, Alone, Serial, BootFiles
  <2> QED BY <1>1, <2>1, <2>2, Quiet DEF BootFiles
<1>4. CASE /\ commit # None /\ daemon' = daemon
           /\ task' = [kind |-> "config", who |-> "boot", req |-> commit.req,
                       device |-> commit.device, edit |-> <<>>, done |-> {},
                       step |-> IF Undoable THEN "restore" ELSE "remove",
                       left |-> IF Undoable THEN DOMAIN commit.parts ELSE {}]
  <2>1. task'.kind = "config" /\ task'.who = "boot" /\ task'.step # "journal" BY <1>4
  <2>2. ConfigAsked' BY <2>1 DEF ConfigAsked
  <2>3. Alone' /\ Serial' BY <1>1, <1>4, <2>1 DEF PInv, Alone, Serial, BootFiles
  <2> QED BY <1>1, <2>1, <2>2, <2>3, Quiet DEF BootFiles
<1> QED BY <1>3, <1>4 DEF RecoverConfig

(* A pending deletion is undone or completed.                               *)
LEMMA RecoverDeletionPromised ==
  ASSUME IInv, PInv, Remember, RecoverDeletion
  PROVE  PInv' /\ Implemented
<1>1. /\ daemon = "playlists" /\ task = NoTask /\ BootFiles /\ revs' = revs
  BY DEF RecoverDeletion, BootFiles, registry, files, journals, answers
<1>2. task.kind = "idle" /\ commit = None BY <1>1, IdleKind DEF PInv, Alone
<1>3. CASE drop = None /\ daemon' = "library" /\ UNCHANGED task
  <2>1. task'.kind = "idle" BY <1>2, <1>3
  <2>2. Alone' /\ Serial' BY <1>1, <1>2, <1>3, <2>1 DEF Alone, Serial, BootFiles
  <2> QED BY <1>1, <2>1, <2>2, Quiet DEF BootFiles
<1>4. CASE /\ drop # None /\ daemon' = daemon
           /\ task' = [kind |-> "delete", req |-> drop.req, who |-> "boot", left |-> DOMAIN drop.subs,
                       step |-> IF drop.phase = "prepared" THEN "restore" ELSE "subscriptions"]
  <2>1. /\ task'.kind = "delete" /\ task'.who = "boot" /\ task'.req = drop.req
        /\ task'.step \in {"restore", "subscriptions"}
        /\ task'.step = "subscriptions" => drop.phase # "prepared"
    BY <1>4
  <2>2. IsDrop(drop) /\ library = None BY <1>4, Deleting
  <2>3. drop' = drop BY <1>1 DEF BootFiles
  <2>4. DeleteAsked' BY <2>1, <2>2, <2>3 DEF DeleteAsked, IsDrop
  <2>5. Alone' /\ Serial' BY <1>1, <1>2, <1>4, <2>1, <2>2 DEF Alone, Serial, BootFiles
  <2> QED BY <1>1, <2>1, <2>4, <2>5, Quiet DEF BootFiles
<1> QED BY <1>3, <1>4 DEF RecoverDeletion

(* A pending drop is completed; the registry is read again.                 *)
LEMMA RecoverLibraryPromised ==
  ASSUME IInv, PInv, Remember, RecoverLibrary
  PROVE  PInv' /\ Implemented
<1>1. /\ daemon = "library" /\ task = NoTask /\ BootFiles
  BY DEF RecoverLibrary, BootFiles, files, journals, answers
<1>2. task.kind = "idle" /\ commit = None /\ drop = None BY <1>1, IdleKind DEF PInv, Alone
<1>3. CASE library = None /\ daemon' = "reconcile" /\ UNCHANGED task
  <2>1. task'.kind = "idle" BY <1>2, <1>3
  <2>2. Alone' /\ Serial' BY <1>1, <1>2, <1>3, <2>1 DEF Alone, Serial, BootFiles
  <2> QED BY <1>1, <1>2, <2>1, <2>2, Quiet DEF BootFiles
<1>4. CASE /\ daemon' = daemon
           /\ task' = [kind |-> "library", req |-> library.req, who |-> "boot",
                       records |-> saved, step |-> "recover", written |-> FALSE]
  <2>1. task'.kind = "library" /\ task'.who = "boot" /\ task'.step = "recover" /\ ~ task'.written
    BY <1>4
  <2>2. LibraryAsked' BY <2>1 DEF LibraryAsked
  <2>3. Alone' /\ Serial' BY <1>1, <1>2, <1>4, <2>1 DEF Alone, Serial, BootFiles
  <2> QED BY <1>1, <1>2, <2>1, <2>2, <2>3, Quiet DEF BootFiles
<1> QED BY <1>3, <1>4 DEF RecoverLibrary

(* The repair of subscriptions begins, device by device, or is over.        *)
LEMMA RepairPromised ==
  ASSUME IInv, PInv, Remember, Repair
  PROVE  PInv' /\ Implemented
<1>1. /\ daemon = "reconcile" /\ task = NoTask /\ BootFiles /\ revs' = revs
  BY DEF Repair, BootFiles, registry, files, journals, answers
<1>2. task.kind = "idle" /\ commit = None /\ drop = None /\ library = None
  BY <1>1, IdleKind DEF PInv, Alone
<1>3. CASE daemon' = "up" /\ UNCHANGED task
  <2>1. task'.kind = "idle" BY <1>2, <1>3
  <2>2. Alone' /\ Serial' BY <1>1, <1>2, <1>3, <2>1 DEF Alone, Serial, BootFiles
  <2> QED BY <1>1, <2>1, <2>2, Quiet DEF BootFiles
<1>4. ASSUME NEW d \in Devices, daemon' = daemon,
             task' = CommitTask("repair", "repair", d,
                                [c \in {"subscriptions"} |-> config[d][c] \ Lost(d)])
      PROVE  PInv' /\ Implemented
  <2> DEFINE e == [c \in {"subscriptions"} |-> config[d][c] \ Lost(d)]
  <2>1. /\ task'.kind = "config" /\ task'.who = "repair" /\ task'.req = "repair"
        /\ task'.device = d /\ task'.edit = e /\ task'.step = "journal"
    BY <1>4 DEF CommitTask
  <2>2. DOMAIN e = {"subscriptions"} /\ e["subscriptions"] = config[d].subscriptions \ Lost(d)
    OBVIOUS
  <2> HIDE DEF e
  <2>3. e["subscriptions"] = Present(config[d].subscriptions)
    <3>1. \A s : Missing(s) <=> Loaded(s) = NoList BY HostAssumption DEF Missing, Loaded
    <3> QED BY <2>2, <3>1 DEF Lost, Present
  <2>4. e["subscriptions"] \subseteq Slugs BY <2>2 DEF PInv, Named
  <2>5. ConfigAsked'
    <3>1. UNCHANGED <<config, commit, manual, smart>> BY <1>1 DEF BootFiles
    <3>2. \A s : Loaded(s)' = Loaded(s) BY <3>1 DEF Loaded
    <3>3. e["subscriptions"] = {s \in config'[d].subscriptions : Loaded(s)' # NoList}
      BY <2>3, <3>1, <3>2 DEF Present
    <3> QED BY <1>2, <2>1, <2>2, <2>4, <3>1, <3>3 DEF ConfigAsked, Present
  <2>6. Alone' /\ Serial' BY <1>1, <1>2, <1>4, <2>1 DEF Alone, Serial, BootFiles
  <2> QED BY <1>1, <2>1, <2>5, <2>6, Quiet DEF BootFiles
<1> QED BY <1>3, <1>4 DEF Repair

(* A crash, a start, and each phase of a recovery.                          *)
LEMMA BootPromised ==
  ASSUME IInv, PInv, Remember, Boot \/ Crash
  PROVE  PInv' /\ Implemented
<1>1. CASE Start
  <2>1. daemon = "down" /\ daemon' = "config" /\ BootFiles /\ task' = task
    BY <1>1 DEF Start, BootFiles, files, journals, answers
  <2>2. task' = NoTask BY <2>1, Down
  <2> QED BY <2>1, <2>2, Reread DEF BootFiles
<1>2. CASE Crash
  <2>1. daemon' = "down" /\ task' = NoTask /\ BootFiles
    BY <1>2 DEF Crash, BootFiles, files, journals, answers
  <2> QED BY <2>1, Reread DEF BootFiles
<1> QED
  BY <1>1, <1>2, RecoverConfigPromised, RecoverDeletionPromised, RecoverLibraryPromised,
     RepairPromised
  DEF Boot

-----------------------------------------------------------------------------
(* The refinement.                                                           *)

(* At first nothing is pending, remembered or told.                         *)
LEMMA InitPromised ==
  ASSUME Init
  PROVE  PInv /\ Promise!Init
<1>1. /\ daemon = "up" /\ task = NoTask /\ commit = None /\ drop = None /\ library = None
      /\ config \in [Devices -> [Components -> SUBSET Slugs]]
      /\ before = Content /\ evicted = {} /\ ledger = <<>> /\ reply = [r \in Requests |-> "none"]
  BY DEF Init
<1>2. task.kind = "idle" BY <1>1, IdleKind
<1>3. Serial /\ Alone BY <1>1, <1>2 DEF Serial, Alone
<1>4. Named BY <1>1 DEF Named, Components
<1>5. Whole BY <1>1, ContentAt DEF Whole
<1>6. CommitPart /\ DropPart /\ LibraryPart /\ SavePart
  BY <1>1, <1>2 DEF CommitPart, DropPart, LibraryPart, SavePart
<1>7. evicted \union ToSet(ledger) = {} BY <1>1 DEF ToSet
<1>8. Told = {} BY <1>1 DEF Told
<1> QED BY <1>1, <1>3, <1>4, <1>5, <1>6, <1>7, <1>8 DEF PInv, Promise!Init

(* Nothing happens.                                                         *)
LEMMA StutterPromised ==
  ASSUME IInv, PInv, UNCHANGED vars
  PROVE  PInv' /\ Implemented
<1>1. UNCHANGED <<ask, daemon, task, revs, config, manual, smart, commit, drop, library, ledger,
                  evicted, reply, before>>
  BY DEF vars, registry, files, journals, answers
<1>2. Remember
  <2>1. /\ \A d \in Devices : \A c \in Components : ConfigView(d, c)' = ConfigView(d, c)
        /\ \A s \in Slugs : ListView(s)' = ListView(s)
    BY <1>1, AllShown
  <2>2. ASSUME NEW f \in Fields PROVE Content'[f] = Content[f]
    <3>1. CASE \E d \in Devices : \E c \in Components : f = <<d, c>>
      <4>1. PICK d \in Devices : \E c \in Components : f = <<d, c>> BY <3>1
      <4>2. PICK c \in Components : f = <<d, c>> BY <4>1
      <4> QED BY <2>1, <4>2, ContentAt, ContentAtNext
    <3>2. CASE \E s \in Slugs : f = <<s, "list">> BY <2>1, <3>2, ContentAt, ContentAtNext
    <3> QED BY <3>1, <3>2, FieldsAre
  <2>3. Told' \ Told = {} BY <1>1 DEF Told
  <2>4. before' = [f \in DOMAIN Content |-> before[f]] BY <1>1, ContentAt DEF PInv, Whole
  <2>5. [f \in DOMAIN Content |->
           IF Content'[f] # Content[f] THEN Content[f]
           ELSE IF \E r \in Told' \ Told : Touches(r, f) THEN Content[f]
           ELSE before[f]] = [f \in DOMAIN Content |-> before[f]]
    BY <2>2, <2>3, ContentAt
  <2> QED BY <2>4, <2>5 DEF Remember
<1>3. Alone' /\ Serial' BY <1>1 DEF PInv, Alone, Serial, Settled
<1>4. task'.kind = "config" => ConfigAsked'
  BY <1>1 DEF PInv, CommitPart, ConfigAsked, Awaited, Present, Loaded
<1>5. task'.kind = "delete" => DeleteAsked'
  BY <1>1 DEF PInv, DropPart, DeleteAsked, Awaited, Exclusive, Loaded, Subs
<1>6. task'.kind = "library" => LibraryAsked'
  BY <1>1 DEF PInv, LibraryPart, LibraryAsked, LibraryLive, Awaited, Known
<1>7. task'.kind = "save" => SaveAsked' BY <1>1 DEF PInv, SavePart, SaveAsked, Awaited
<1> QED BY <1>1, <1>2, <1>3, <1>4, <1>5, <1>6, <1>7, Quiet

(* Every step of the host is one of the promise, or shows nothing.          *)
LEMMA NextPromised ==
  ASSUME IInv, PInv, Serial', [Next]_vars
  PROVE  PInv' /\ Implemented
<1>1. CASE Next
  BY <1>1, CommandPromised, CommitStepPromised, DeleteStepPromised, SaveStepPromised,
     LibraryStepPromised, BootPromised, ImportPromised
  DEF Next, Step
<1>2. CASE UNCHANGED vars BY <1>2, StutterPromised
<1> QED BY <1>1, <1>2

(* The transactions implement the promise of HostStore as long as no        *)
(* library drop is at work while another command's journal is pending:      *)
(* whatever write fails, wherever the daemon crashes and whatever profile   *)
(* is imported, a request takes effect once and whole, a change nobody was  *)
(* told of may be taken back, an acknowledged one never is.                 *)
THEOREM StoreImplemented == Spec /\ []Serial => ImplementsStore
<1>1. Init => PInv /\ Promise!Init BY InitPromised
<1>2. IInv /\ PInv /\ Serial' /\ [Next]_vars => PInv' /\ [Promise!Next]_(Promise!vars)
  BY NextPromised DEF Implemented
<1>3. Spec => []IInv BY InvariantHolds
<1>4. Spec => Init /\ [][Next]_vars BY DEF Spec
<1>5. Init /\ [][Next]_vars /\ []Serial /\ []IInv => Promise!Init /\ [][Promise!Next]_(Promise!vars)
  BY <1>1, <1>2, PTL
<1>6. ImplementsStore <=> Promise!Init /\ [][Promise!Next]_(Promise!vars)
  BY DEF ImplementsStore, Promise!Spec
<1> QED BY <1>3, <1>4, <1>5, <1>6, PTL

(* While no write fails and no profile is imported, a journal is never left *)
(* to a later command, so the promise holds wherever the daemon crashes.    *)
THEOREM CrashesKeepPromise == Spec /\ []OnlyCrashed => ImplementsStore
<1>1. IInv /\ OnlyCrashed => Serial BY DEF IInv, Settling, OneJournal, Serial
<1>2. Spec => []IInv BY InvariantHolds
<1>3. Spec /\ []Serial => ImplementsStore BY StoreImplemented
<1> QED BY <1>1, <1>2, <1>3, PTL
=============================================================================
