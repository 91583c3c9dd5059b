------------------------------ MODULE Runtime ------------------------------
(***************************************************************************)
(* The daemon's select loop: session admission, the recovery of the source *)
(* location, device events, client commands of protocol 3, worker          *)
(* completions, terminal history and the shutdown drain.                   *)
(*                                                                         *)
(* One step is one arm of the loop; the loop is single threaded, so an arm *)
(* is atomic.  Workers, mount attempts and name readers run beside it and  *)
(* report through the internal channel: each is a member of a set until    *)
(* its report is handled.                                                  *)
(***************************************************************************)
EXTENDS Naturals, Sequences, FiniteSets, SequencesExt

CONSTANTS
  Devices,      \* serial numbers
  NoDevice,
  Requests,     \* request identifiers of clients, each used once
  NoRequest,
  InitialDevices,  \* the devices configured at start
  MaxSources,   \* bound: distinct source locations
  Budgets       \* bound: what may happen from outside, a set of
                \* [requests, mounts, ticks, faults]; a behaviour has one of them

ASSUME RuntimeAssumption ==
  /\ NoDevice \notin Devices /\ NoRequest \notin Requests
  /\ InitialDevices \subseteq Devices
  /\ MaxSources \in Nat \ {0}
  /\ Budgets \subseteq [requests : SUBSET Requests, mounts : Nat, ticks : Nat, faults : Nat]

VARIABLES
  loop,         \* admission, controls, source recovery and the answers sent
  connection,   \* per device: connection generation (0: absent) and the name shown
  known,        \* devices with a registry record
  remembered,   \* the name the registry holds, by the generation it was read in
  configured,   \* devices the registry marks configured
  readers,      \* name readers running, [dev, gen]
  detached,     \* the detached terminal intent, [id, saved]
  terminal,     \* terminal history entries built, [id, dev, outcome]
  saved,        \* the history file: session identifiers in append order
  retained,     \* per device, the session whose entry could not be saved
  source,       \* the configured source location, 0 for none
  watched,      \* the location the library watcher observes
  deadline,     \* a library rescan is armed
  hostPending,  \* "none", or the kind of host mutation whose journal is left
  phase,        \* "running", "draining", "stopped", "panicked"
  generation,   \* the last connection generation
  left          \* what of the budget is left

vars == <<loop, connection, known, remembered, configured, readers, detached, terminal,
          saved, retained, source, watched, deadline, hostPending, phase,
          generation, left>>

NoSession == [id |-> 0, kind |-> "none", dev |-> NoDevice, gen |-> 0]
NoSync == [dev |-> NoDevice, gen |-> 0, req |-> NoRequest]
NoIntent == [id |-> 0, saved |-> FALSE]
Controls == {"cancel", "pause"}
Outcomes == {"ok", "cancelled", "aborted", "paused", "error", "device_detached"}

NewRecovery ==
  [scan |-> FALSE, sync |-> NoSync, attempt |-> 0, ui |-> FALSE, escalate |-> FALSE,
   next |-> 1, retries |-> <<>>, deferred |-> NoSync, state |-> "unavailable", root |-> 0]

\* Mutant: a session told to cancel no longer counts.
Idle_IgnoresCancelled(l) == "cancel" \notin l.controls

Idle(l) == l.session = NoSession

(* The active session is a sync of this device. *)
ActiveFor(dev) == loop.session.kind = "sync" /\ loop.session.dev = dev

(***************************************************************************)
(* Transformers of the loop's record                                       *)
(***************************************************************************)
Answer(l, requests, kind) ==
  [l EXCEPT !.answers = [r \in Requests |->
     IF r \in requests THEN Append(l.answers[r], kind) ELSE l.answers[r]]]

(* Publishing a state acknowledges every retry that waits. *)
Publish(l, state, root) ==
  Answer([l EXCEPT !.recovery.escalate = FALSE, !.recovery.state = state,
                   !.recovery.root = root, !.recovery.retries = <<>>],
         Range(l.recovery.retries), "acknowledged")

StartAttempt(l, ui) ==
  LET n == l.recovery.next IN
  [l EXCEPT !.recovery.attempt = n, !.recovery.next = n + 1, !.recovery.ui = ui,
            !.recovery.state = "remounting", !.recovery.root = 0,
            !.attempts = @ \cup {[id |-> n, root |-> source]}]

(* The tail of request_source_action, after the request has been noted. *)
Resolve(l, ui) ==
  IF source = 0
  THEN Publish([l EXCEPT !.recovery.scan = FALSE, !.recovery.sync = NoSync], "unavailable", 0)
  ELSE IF l.recovery.attempt # 0 THEN l ELSE StartAttempt(l, ui)

RequestScan(l) == Resolve([l EXCEPT !.recovery.scan = TRUE], FALSE)

(* The first sync queued is the one that is kept. *)
QueueSync(l, sync) ==
  IF l.recovery.sync = NoSync THEN [l EXCEPT !.recovery.sync = sync] ELSE l

RequestSync(l, sync) == Resolve(QueueSync(l, sync), FALSE)

RequestRetry(l, request, ui) ==
  Resolve([l EXCEPT !.recovery.retries = Append(@, request),
                    !.recovery.escalate = @ \/ (ui /\ l.recovery.attempt # 0 /\ ~ l.recovery.ui)],
          ui)

Launch(l, kind, dev, gen) ==
  LET n == l.lastId + 1 IN
  [l EXCEPT !.session = [id |-> n, kind |-> kind, dev |-> dev, gen |-> gen],
            !.lastId = n, !.controls = Controls, !.workers = @ \cup {n}]

\* Mutant: a sync that is not admitted is dropped without a rejection.
StartSync_Silent(l, sync, reconciled) ==
  IF hostPending # "none" \/ ~ reconciled \/ ~ Idle(l)
  THEN l
  ELSE Launch(Answer(l, {sync.req} \ {NoRequest}, "accepted"), "sync", sync.dev, sync.gen)

(* start_sync_session: recovery first, then admission.  `reconciled` is the*)
(* result of the portable reconciliation when the drive can be opened.     *)
StartSync(l, sync, reconciled) ==
  LET reply(kind) == Answer(l, {sync.req} \ {NoRequest}, kind) IN
  IF hostPending # "none" \/ ~ reconciled \/ ~ Idle(l)
  THEN reply("rejected")
  ELSE Launch(reply("accepted"), "sync", sync.dev, sync.gen)

StartScan(l) ==
  IF Idle(l) THEN [Launch(l, "scan", NoDevice, 0) EXCEPT !.unscanned = FALSE] ELSE l

(* start_available_source_actions: a scan goes first and defers the sync. *)
StartAvailable(l, reconciled) ==
  CASE ~ Idle(l) -> l
    [] Idle(l) /\ l.recovery.scan ->
         StartScan(IF l.recovery.deferred = NoSync
                   THEN [l EXCEPT !.recovery.scan = FALSE, !.recovery.sync = NoSync,
                                  !.recovery.deferred = l.recovery.sync]
                   ELSE [l EXCEPT !.recovery.scan = FALSE])
    [] Idle(l) /\ ~ l.recovery.scan /\ l.recovery.sync # NoSync ->
         StartSync([l EXCEPT !.recovery.sync = NoSync], l.recovery.sync, reconciled)
    [] OTHER -> l

(* After an internal event an idle loop starts what waits for the source. *)
Continue(l, reconciled) ==
  IF l.recovery.state = "available" THEN StartAvailable(l, reconciled) ELSE l

(* Whether the reconciliation before a worker may fail: only with a drive  *)
(* that is still there and the fault budget left.                          *)
Reconciles(sync) ==
  IF sync # NoSync /\ connection[sync.dev].gen = sync.gen /\ left.faults > 0
  THEN BOOLEAN ELSE {TRUE}

(* A write may fail while the fault budget lasts. *)
Writes == IF left.faults > 0 THEN BOOLEAN ELSE {TRUE}

Remaining(failed) == left.faults - (IF failed THEN 1 ELSE 0)

(***************************************************************************)
(* Initial state: configuration loaded, journals recovered, the startup    *)
(* scan requested.                                                         *)
(***************************************************************************)
Startup ==
  [session |-> NoSession, controls |-> {}, workers |-> {}, lastId |-> 0,
   recovery |-> NewRecovery, attempts |-> {}, answers |-> [r \in Requests |-> <<>>],
   unscanned |-> FALSE]

Init ==
  /\ source = 1 /\ watched = 1
  /\ loop = [Startup EXCEPT
                !.recovery = [NewRecovery EXCEPT !.scan = TRUE, !.attempt = 1, !.next = 2,
                                                 !.state = "remounting"],
                !.attempts = {[id |-> 1, root |-> 1]}]
  /\ connection = [d \in Devices |-> [gen |-> 0, name |-> 0]]
  /\ known = InitialDevices
  /\ remembered = [d \in Devices |-> 0]
  /\ configured = InitialDevices
  /\ readers = {}
  /\ detached = NoIntent
  /\ terminal = {}
  /\ saved = <<>>
  /\ retained = [d \in Devices |-> 0]
  /\ deadline = FALSE
  /\ hostPending = "none"
  /\ phase = "running"
  /\ generation = 0
  /\ left \in Budgets

history == <<detached, terminal, saved, retained>>
library == <<source, watched, deadline>>
devices == <<connection, known, remembered, configured, readers, generation>>

(***************************************************************************)
(* Client commands                                                         *)
(***************************************************************************)
Command(request) ==
  /\ phase = "running"
  /\ request \in left.requests
  /\ left' = [left EXCEPT !.requests = @ \ {request}]

Refuse(request, kind) == loop' = Answer(loop, {request}, kind)

(* target_rejection for the commands that start a device session *)
Rejected(dev) ==
  dev \notin configured \/ connection[dev].gen = 0 \/ ~ Idle(loop)

TriggerSync(request, dev) ==
  /\ Command(request)
  /\ CASE Rejected(dev) -> Refuse(request, "rejected")
       [] ~ Rejected(dev) /\ hostPending # "none" -> Refuse(request, "failed")
       [] OTHER -> loop' = RequestSync(loop, [dev |-> dev, gen |-> connection[dev].gen,
                                              req |-> request])
  /\ UNCHANGED <<history, devices, library, hostPending, phase>>

(* Rockbox backfill and library replacement start their worker at once. *)
StartDirect(request, dev) ==
  /\ phase = "running"
  /\ request \in left.requests
  /\ LET sync == [dev |-> dev, gen |-> connection[dev].gen, req |-> request] IN
     \E reconciled \in Reconciles(sync) :
       /\ CASE Rejected(dev) -> Refuse(request, "rejected")
            [] ~ Rejected(dev) /\ hostPending # "none" -> Refuse(request, "failed")
            [] OTHER -> loop' = StartSync(loop, sync, reconciled)
       /\ left' = [left EXCEPT !.requests = @ \ {request}, !.faults = Remaining(~ reconciled)]
  /\ UNCHANGED <<history, devices, library, hostPending, phase>>

(* A dropped selection: the service recovers its own journals only, then   *)
(* a connected device with a readable source is synced at once unless the  *)
(* settings say next sync or a session runs.  Delivery to the device may   *)
(* fail without stopping that.                                             *)
AddSelection(request, dev) ==
  /\ Command(request)
  /\ \E accepted \in BOOLEAN, immediate \in BOOLEAN :
       /\ hostPending' = IF hostPending = "library" /\ accepted THEN "none" ELSE hostPending
       /\ IF ~ accepted \/ dev \notin configured
          THEN Refuse(request, "failed")
          ELSE LET told == Answer(loop, {request}, "accepted") IN
               loop' = IF immediate /\ source # 0 /\ connection[dev].gen # 0 /\ Idle(loop)
                       THEN Launch(told, "sync", dev, connection[dev].gen)
                       ELSE told
  /\ UNCHANGED <<history, devices, library, phase>>

(* Cancel and pause name a session; a session that is no longer the active *)
(* one is refused.  The sender of a signal is used once.                   *)
Stop(request, id, control) ==
  /\ Command(request)
  /\ loop' = IF loop.session.kind = "sync" /\ loop.session.id = id
             THEN [Answer(loop, {request}, "acknowledged") EXCEPT !.controls = @ \ {control}]
             ELSE Answer(loop, {request}, "failed")
  /\ UNCHANGED <<history, devices, library, hostPending, phase>>

(* A command that writes: it may fail to. *)
WriteCommand(request, ok) ==
  /\ phase = "running"
  /\ request \in left.requests
  /\ left' = [left EXCEPT !.requests = @ \ {request}, !.faults = Remaining(~ ok)]

(* A registry that cannot be written leaves the request without an answer. *)
ForgetIpod(request, dev) ==
  /\ \E ok \in Writes :
       /\ WriteCommand(request, ok)
       /\ CASE dev \notin configured \/ ActiveFor(dev) ->
                 Refuse(request, "rejected") /\ UNCHANGED configured
            [] dev \in configured /\ ~ ActiveFor(dev) /\ hostPending # "none" ->
                 Refuse(request, "failed") /\ UNCHANGED configured
            [] OTHER ->
                 IF ok
                 THEN Refuse(request, "acknowledged") /\ configured' = configured \ {dev}
                 ELSE UNCHANGED <<loop, configured>>
  /\ UNCHANGED <<history, connection, known, remembered, readers, generation, library, hostPending, phase>>

AdoptDevice(request, dev) ==
  /\ \E ok \in Writes :
       /\ WriteCommand(request, ok)
       /\ IF dev \notin known \/ ~ ok
          THEN Refuse(request, "failed") /\ UNCHANGED configured
          ELSE Refuse(request, "acknowledged") /\ configured' = configured \cup {dev}
  /\ UNCHANGED <<history, connection, known, remembered, readers, generation, library, hostPending, phase>>

\* Mutant: the attempt for the old location stays current.
Invalidate_KeepsAttempt(l) == Publish([l EXCEPT !.unscanned = FALSE], "unavailable", 0)

(* invalidate_source_recovery_for_source_change; what the watcher noticed  *)
(* was about the old library.                                              *)
Invalidate(l) ==
  Publish([l EXCEPT !.recovery.attempt = 0, !.recovery.ui = FALSE, !.unscanned = FALSE],
          "unavailable", 0)

(* set_source_location: a new location invalidates the attempt that runs;  *)
(* clearing the location does not.                                         *)
SetSource(request, location) ==
  /\ \E ok \in Writes :
       /\ WriteCommand(request, ok)
       /\ source' = IF ok THEN location ELSE source
       /\ loop' =
            LET told == Answer(loop, {request}, IF ok THEN "acknowledged" ELSE "failed") IN
            IF ~ ok \/ location = 0 \/ location = source THEN told
            ELSE Invalidate(told)
  /\ UNCHANGED <<history, devices, watched, deadline, hostPending, phase>>

RetrySourceMount(request, ui) ==
  /\ Command(request)
  /\ loop' = RequestRetry(loop, request, ui)
  /\ UNCHANGED <<history, devices, library, hostPending, phase>>

ScanLibrary(request) ==
  /\ Command(request)
  /\ loop' = IF Idle(loop) /\ source # 0 THEN RequestScan(loop) ELSE loop
  /\ UNCHANGED <<history, devices, library, hostPending, phase>>

(* A playlist or configuration command whose commit could not be finished  *)
(* leaves its journal behind; only a restart, or for library mutations the *)
(* next one, resolves it.                                                  *)
LeaveHostJournal(kind) ==
  /\ phase = "running" /\ hostPending = "none" /\ left.faults > 0
  /\ hostPending' = kind
  /\ left' = [left EXCEPT !.faults = @ - 1]
  /\ UNCHANGED <<loop, history, devices, library, phase>>

(***************************************************************************)
(* Terminal history                                                        *)
(***************************************************************************)
Entry(session, outcome) == [id |-> session.id, dev |-> session.dev, outcome |-> outcome]

(* persist_terminal_entry: a failed write is retained for its device, a    *)
(* success forgets what was retained.                                      *)
Persist(entry, ok) ==
  /\ terminal' = terminal \cup {entry}
  /\ saved' = IF ok THEN Append(saved, entry.id) ELSE saved
  /\ retained' = [retained EXCEPT ![entry.dev] = IF ok THEN 0 ELSE entry.id]

(***************************************************************************)
(* Device events                                                           *)
(***************************************************************************)
(* A device appears, or an attached one is reported again with other facts.*)
Connect(dev) ==
  /\ phase = "running" /\ left.mounts > 0
  /\ \E observed \in Writes, auto \in BOOLEAN :
       LET gen == generation + 1
           sync == [dev |-> dev, gen |-> gen, req |-> NoRequest] IN
       \E ready \in Reconciles(NoSync) \cup (IF left.faults > 0 THEN {FALSE} ELSE {}) :
         /\ generation' = gen
         /\ left' = [left EXCEPT !.mounts = @ - 1, !.faults = Remaining(~ observed \/ ~ ready)]
         /\ IF ~ observed
            THEN UNCHANGED <<loop, connection, known, readers>>
            ELSE /\ known' = known \cup {dev}
                 /\ connection' = [connection EXCEPT ![dev] =
                                     [gen |-> gen, name |-> remembered[dev]]]
                 /\ readers' = readers \cup {[dev |-> dev, gen |-> gen]}
                 /\ loop' = IF dev \in configured /\ ready /\ Idle(loop) /\ auto
                            THEN RequestSync(loop, sync) ELSE loop
  /\ UNCHANGED <<history, remembered, configured, library, hostPending, phase>>

(* The device of the active session is gone: the worker is told to cancel, *)
(* the session stays admitted and its outcome is settled here.             *)
Disconnect(dev) ==
  /\ phase = "running" /\ connection[dev].gen # 0
  /\ connection' = [connection EXCEPT ![dev] = [gen |-> 0, name |-> 0]]
  /\ IF ~ ActiveFor(dev)
     THEN UNCHANGED <<loop, history, phase, left>>
     ELSE \E ok \in Writes :
            /\ loop' = [loop EXCEPT !.controls = @ \ {"cancel"}]
            /\ Persist(Entry(loop.session, "device_detached"), ok)
            /\ left' = [left EXCEPT !.faults = Remaining(~ ok)]
            /\ detached' = [id |-> loop.session.id, saved |-> ok]
            /\ phase' = IF detached.id = loop.session.id THEN "panicked" ELSE phase
  /\ UNCHANGED <<known, remembered, configured, readers, generation, library, hostPending>>

\* Mutant: a name from an earlier connection is taken.
Current_AnyGeneration(reader) == connection[reader.dev].gen # 0

(* The reader was started for the connection the device has now. *)
Current(reader) == connection[reader.dev].gen = reader.gen

(* The name a reader found is shown and remembered only for the connection *)
(* it was started for.                                                     *)
NameResolved(reader, found) ==
  /\ phase = "running" /\ reader \in readers
  /\ readers' = readers \ {reader}
  /\ loop' = Continue(loop, TRUE)
  /\ IF ~ Current(reader) \/ ~ found
     THEN UNCHANGED <<connection, remembered, left>>
     ELSE \E ok \in Writes :
            /\ connection' = [connection EXCEPT ![reader.dev].name = reader.gen]
            /\ remembered' = IF ok THEN [remembered EXCEPT ![reader.dev] = reader.gen]
                             ELSE remembered
            /\ left' = [left EXCEPT !.faults = Remaining(~ ok)]
  /\ UNCHANGED <<history, known, configured, generation, library, hostPending, phase>>

(***************************************************************************)
(* Reports of workers and mount attempts                                   *)
(***************************************************************************)
(* What a worker may report: a stop is reported only after its signal. *)
Reports ==
  {"ok", "aborted", "error"}
    \cup (IF "cancel" \in loop.controls THEN {} ELSE {"cancelled"})
    \cup (IF "pause" \in loop.controls THEN {} ELSE {"paused"})

Finish(l) == [l EXCEPT !.session = NoSession, !.controls = {}, !.workers = @ \ {l.session.id}]

\* Mutant: the intent saved at the detach is forgotten.
AlreadySettled_Never == FALSE

(* The entry of a detached session is in the history file already. *)
AlreadySettled == detached.id = loop.session.id /\ detached.saved

\* Mutant: the worker's outcome replaces that of the detach.
SettledOutcome_Worker(outcome) == outcome

SettledOutcome(outcome) ==
  IF detached.id = loop.session.id THEN "device_detached" ELSE outcome

SyncCompleted(outcome) ==
  /\ phase = "running" /\ loop.session.kind = "sync"
  /\ loop.session.id \in loop.workers
  /\ outcome \in Reports
  /\ \E reconciled \in Reconciles(loop.recovery.sync), ok \in Writes :
       /\ loop' = Continue(Finish(loop), reconciled)
       /\ left' = [left EXCEPT !.faults = Remaining(~ reconciled \/ ~ ok)]
       /\ detached' = NoIntent
       /\ IF AlreadySettled
          THEN ok /\ UNCHANGED <<terminal, saved, retained>>
          ELSE Persist(Entry(loop.session, SettledOutcome(outcome)), ok)
  /\ UNCHANGED <<devices, library, hostPending, phase>>

(* The sync a scan deferred is queued again, behind one that waits. *)
Resumed(l) == [QueueSync(l, l.recovery.deferred) EXCEPT !.recovery.deferred = NoSync]

ScanCompleted ==
  /\ phase = "running" /\ loop.session.kind = "scan"
  /\ loop.session.id \in loop.workers
  /\ \E reconciled \in Reconciles(Resumed(loop).recovery.sync) :
       /\ loop' = Continue(Finish(Resumed(loop)), reconciled)
       /\ left' = [left EXCEPT !.faults = Remaining(~ reconciled)]
  /\ UNCHANGED <<history, devices, library, hostPending, phase>>

(* complete_source_recovery *)
AttemptFinished(attempt, result) ==
  /\ phase = "running" /\ attempt \in loop.attempts
  /\ LET heard == [loop EXCEPT !.attempts = @ \ {attempt}]
         done == [heard EXCEPT !.recovery.attempt = 0, !.recovery.ui = FALSE]
         wanted == [done EXCEPT !.recovery.scan =
                      @ \/ result = "remounted" \/ loop.recovery.retries # <<>>]
     IN \/ /\ loop.recovery.attempt # attempt.id
           /\ loop' = heard
           /\ UNCHANGED <<watched, deadline, left>>
        \/ /\ loop.recovery.attempt = attempt.id
           /\ result = "auth_required"
           /\ loop' = IF loop.recovery.escalate /\ ~ loop.recovery.ui /\ source # 0
                      THEN StartAttempt([done EXCEPT !.recovery.escalate = FALSE], TRUE)
                      ELSE Publish(done, IF loop.recovery.escalate /\ ~ loop.recovery.ui
                                         THEN "unavailable" ELSE "auth_required", 0)
           /\ UNCHANGED <<watched, deadline, left>>
        \/ /\ loop.recovery.attempt = attempt.id
           /\ result = "unreachable" \/ (result = "remounted" /\ source = 0)
           /\ loop' = Publish(done, "unavailable", 0)
           /\ UNCHANGED <<watched, deadline, left>>
        \/ /\ loop.recovery.attempt = attempt.id
           /\ result = "present" \/ (result = "remounted" /\ source # 0)
           /\ \E ok \in (IF result = "remounted" THEN Writes ELSE {TRUE}),
                 reconciled \in Reconciles(loop.recovery.sync) :
                /\ left' = [left EXCEPT !.faults = Remaining(~ ok \/ ~ reconciled)]
                /\ IF ~ ok
                   THEN loop' = Publish(done, "unavailable", 0) /\ UNCHANGED <<watched, deadline>>
                   ELSE /\ loop' = StartAvailable(Publish(wanted, "available", attempt.root),
                                                  reconciled)
                        /\ watched' = IF result = "remounted" THEN source ELSE watched
                        /\ deadline' = (deadline /\ result # "remounted")
  /\ UNCHANGED <<history, devices, source, hostPending, phase>>

(***************************************************************************)
(* Timers and the library watcher                                          *)
(***************************************************************************)
Tick == phase = "running" /\ left.ticks > 0 /\ left' = [left EXCEPT !.ticks = @ - 1]

SchedulerTick(dev) ==
  /\ Tick
  /\ dev \in configured /\ connection[dev].gen # 0 /\ Idle(loop)
  /\ loop' = RequestSync(loop, [dev |-> dev, gen |-> connection[dev].gen, req |-> NoRequest])
  /\ UNCHANGED <<history, devices, library, hostPending, phase>>

(* The watched library changes; the watcher's tick arms the rescan. *)
LibraryChanged ==
  /\ Tick /\ watched # 0
  /\ deadline' = TRUE
  /\ loop' = [loop EXCEPT !.unscanned = @ \/ watched = source]
  /\ UNCHANGED <<history, devices, source, watched, hostPending, phase>>

\* Mutant: a busy loop drops the rescan.
DeadlineReached_Drops ==
  /\ phase = "running" /\ deadline
  /\ deadline' = FALSE
  /\ loop' = IF source = 0 \/ ~ Idle(loop) THEN loop ELSE RequestScan(loop)
  /\ UNCHANGED <<history, devices, source, watched, hostPending, phase, left>>

(* The debounce timer fires: a busy loop arms it again. *)
DeadlineReached ==
  /\ phase = "running" /\ deadline
  /\ source = 0 \/ Idle(loop)
  /\ deadline' = FALSE
  /\ loop' = IF source = 0 THEN loop ELSE RequestScan(loop)
  /\ UNCHANGED <<history, devices, source, watched, hostPending, phase, left>>

(***************************************************************************)
(* Shutdown                                                                *)
(***************************************************************************)
(* The process ends: what is on disk stays. *)
Exit(last) ==
  /\ phase' = last
  /\ loop' = [Startup EXCEPT !.answers = loop.answers, !.lastId = loop.lastId]
  /\ connection' = [d \in Devices |-> [gen |-> 0, name |-> 0]]
  /\ readers' = {}
  /\ detached' = NoIntent
  /\ deadline' = FALSE

Shutdown ==
  /\ phase = "running"
  /\ IF Idle(loop)
     THEN Exit("stopped")
     ELSE /\ phase' = "draining"
          /\ loop' = [loop EXCEPT !.controls = @ \ {"cancel"}]
          /\ UNCHANGED <<connection, readers, detached, deadline>>
  /\ UNCHANGED <<known, remembered, configured, generation, terminal, saved, retained, source,
                 watched, hostPending, left>>

(* The drain waits for the active session and records nothing. *)
Drained ==
  /\ phase = "draining"
  /\ Exit("stopped")
  /\ UNCHANGED <<known, remembered, configured, generation, terminal, saved, retained, source,
                 watched, hostPending, left>>

Next ==
  \/ \E request \in Requests :
       \/ \E dev \in Devices :
            TriggerSync(request, dev) \/ StartDirect(request, dev) \/ AddSelection(request, dev)
              \/ ForgetIpod(request, dev) \/ AdoptDevice(request, dev)
       \/ \E id \in 1..loop.lastId, control \in Controls : Stop(request, id, control)
       \/ \E location \in 0..MaxSources : SetSource(request, location)
       \/ \E ui \in BOOLEAN : RetrySourceMount(request, ui)
       \/ ScanLibrary(request)
  \/ \E kind \in {"library", "other"} : LeaveHostJournal(kind)
  \/ \E dev \in Devices : Connect(dev) \/ Disconnect(dev) \/ SchedulerTick(dev)
  \/ \E reader \in readers, found \in BOOLEAN : NameResolved(reader, found)
  \/ \E outcome \in Outcomes : SyncCompleted(outcome)
  \/ ScanCompleted
  \/ \E attempt \in loop.attempts,
        result \in {"present", "remounted", "auth_required", "unreachable"} :
          AttemptFinished(attempt, result)
  \/ LibraryChanged
  \/ DeadlineReached
  \/ Shutdown
  \/ Drained

Spec == Init /\ [][Next]_vars

(***************************************************************************)
(* Properties                                                              *)
(***************************************************************************)
PendingSyncs == [dev : Devices \cup {NoDevice}, gen : 0..generation, req : Requests \cup {NoRequest}]

(* Types of the loop's state (SourceRecoveryState, SessionAdmission and    *)
(* RuntimeState).                                                          *)
TypeOK ==
  /\ loop.session.id \in 0..loop.lastId
  /\ loop.session.kind \in {"none", "sync", "scan"}
  /\ loop.controls \subseteq Controls
  /\ loop.workers \subseteq 1..loop.lastId
  /\ loop.recovery.sync \in PendingSyncs /\ loop.recovery.deferred \in PendingSyncs
  /\ loop.recovery.attempt < loop.recovery.next
  /\ loop.recovery.state \in {"unavailable", "remounting", "available", "auth_required"}
  /\ connection \in [Devices -> [gen : 0..generation, name : 0..generation]]
  /\ configured \subseteq Devices /\ known \subseteq Devices
  /\ remembered \in [Devices -> 0..generation]
  /\ \A entry \in terminal : entry.id \in 1..loop.lastId /\ entry.outcome \in Outcomes
  /\ source \in 0..MaxSources /\ watched \in 0..MaxSources
  /\ phase \in {"running", "draining", "stopped", "panicked"}

(* At no time do two workers run: a session whose device is gone keeps the *)
(* admission until its worker has reported, and nothing else is admitted.  *)
OneWorker == Cardinality(loop.workers) <= 1 /\ loop.workers \subseteq {loop.session.id}

(* A session has one outcome, though that of a detached session is decided *)
(* before its worker reports and may have to be written again then; an     *)
(* entry the history file does not hold is retained for its device until a *)
(* later session of that device ends.  The file names a session once, but  *)
(* for one case the code does not handle: a device that returns and goes   *)
(* again while the worker of its session drains has the entry written a    *)
(* second time, as the last write before the assertion of                  *)
(* record_detached_terminal_intent ends the daemon.                        *)
HistoryKept ==
  /\ \A e, f \in terminal : e.id = f.id => e = f
  /\ \A i, j \in DOMAIN saved : i < j /\ saved[i] = saved[j] =>
       phase = "panicked" /\ j = Len(saved) /\ saved[j] = detached.id
  /\ \A e \in terminal :
       \/ e.id \in Range(saved)
       \/ retained[e.dev] = e.id
       \/ \E f \in terminal : f.dev = e.dev /\ f.id > e.id

(* What waits for the source has something to wait for: a retry request a  *)
(* mount attempt that runs, a sync deferred behind a scan that scan.  With *)
(* the source available and no session nothing waits at all, and the source*)
(* is available only at the configured location: an attempt for an earlier *)
(* one is not heard.                                                       *)
SourceWorkProceeds ==
  /\ loop.recovery.attempt = 0 => loop.recovery.retries = <<>>
  /\ phase = "running" =>
       /\ loop.recovery.deferred # NoSync => loop.session.kind = "scan"
       /\ Idle(loop) /\ loop.recovery.state = "available"
            => ~ loop.recovery.scan /\ loop.recovery.sync = NoSync
  /\ loop.recovery.state = "available" /\ source # 0 => loop.recovery.root = source

(* A change the watcher noticed in the configured library keeps a rescan   *)
(* armed or queued until a scan starts.                                    *)
ChangeNotLost ==
  loop.unscanned /\ source # 0 /\ watched = source => deadline \/ loop.recovery.scan

(* A queued sync leaves the queue only with its answer, unless no source   *)
(* location is configured or the daemon ends; no request is answered twice.*)
Queued(r) == r \in {loop.recovery.sync.req, loop.recovery.deferred.req}

QueueLeavesAnswered ==
  [][\A r \in Requests :
       /\ Len(loop'.answers[r]) <= 1
       /\ Queued(r) /\ ~ Queued(r)' /\ phase' = "running"
            => source' = 0 \/ loop'.answers[r] # <<>>]_vars

(* The name read from an earlier connection never replaces the name of a   *)
(* later one in the registry.                                              *)
NamesNeverRegress == [][\A d \in Devices : remembered'[d] >= remembered[d]]_vars

(* The session ledger is what the loop promises about device sessions. *)
Ledger == INSTANCE SessionLedger WITH
  open <- phase \in {"running", "draining"},
  last <- loop.lastId,
  live <- IF phase \in {"running", "draining"} /\ loop.session.kind = "sync"
          THEN loop.session.id ELSE 0,
  ended <- {[id |-> e.id, outcome |-> e.outcome] : e \in terminal}

ImplementsLedger == Ledger!Spec
=============================================================================
