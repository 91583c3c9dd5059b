------------------------------ MODULE Devices ------------------------------
(***************************************************************************)
(* How the daemon comes to know which iPods are connected: the watcher     *)
(* scans, compares what it found with what it found before and sends the   *)
(* differences; the daemon's loop debounces them, records each device in   *)
(* the registry and then takes it as connected.                            *)
(*                                                                         *)
(* A scan first rechecks what it already knows by cheap means and opens    *)
(* the candidates again only if something about them changed.  The world   *)
(* moves between any two of its reads.                                     *)
(***************************************************************************)
EXTENDS Observation, SequencesExt

CONSTANTS
  Legacy,       \* the device of the single-device configuration, or None
  Platforms,    \* the platforms looked at: "windows", "linux", "macos"
  Capacity,     \* of the event channel
  Attempts,     \* scans after a USB notification
  MaxChanges,   \* bound: changes of the world
  MaxEvents     \* bound: registry edits, failing probes and saves, restarts

ASSUME DevicesAssumption ==
  /\ Legacy \in Ids \cup {None} /\ Platforms \subseteq {"windows", "linux", "macos"}
  /\ Capacity \in Nat \ {0} /\ Attempts \in Nat \ {0}
  /\ MaxChanges \in Nat /\ MaxEvents \in Nat

VARIABLES
  platform,     \* which decides the watcher and whether volumes have names
  scan,         \* the scan in progress
  cache,        \* what the polling cache holds: candidates and known devices
  last,         \* the inventory the watcher last sent the differences to
  outbox,       \* events not sent yet
  signals,      \* USB notifications not handled yet
  job,          \* the notification being handled
  channel,      \* events on their way to the daemon
  connected,    \* the daemon's connected devices
  recent,       \* devices whose connection was admitted within the window
  dropped,      \* history: devices whose last news the daemon lost
  registry,     \* records in memory, the file, the host's cache, daemon up
  spent         \* what is used up of the bounds

watching == <<platform, scan, cache, last, outbox, signals, job>>
hosting == <<connected, recent, dropped, registry>>
vars == <<world, watching, channel, hosting, spent>>

Reg == INSTANCE DeviceRegistry

NoIpod == [id |-> None, path |-> None, label |-> None, volume |-> None]
NoKnown == [ipod |-> NoIpod, print |-> 0]
NoJob == [kind |-> "none", id |-> None, tries |-> 0]
IdleScan ==
  [pc |-> "idle", pool |-> {}, todo |-> {}, got |-> {}, expect |-> {},
   strict |-> TRUE, item |-> NoKnown, disk |-> 0, look |-> NoLook, readiness |-> "none", usb |-> None]
NoCache == [candidates |-> {}, known |-> {}]

(* On macOS USB notifications drive the scans, elsewhere a clock.  Arming *)
(* them reports what is plugged in.                                       *)
Notified == platform = "macos"
Arming ==
  IF Notified THEN SetToSeq({[added |-> TRUE, id |-> d] : d \in Plugged}) ELSE <<>>

InInventory(inventory, id) == \E i \in inventory : i.id = id
Connected(d) == connected[d] # NoIpod

Init ==
  /\ WorldInit
  /\ platform \in Platforms
  /\ scan = IdleScan /\ cache = NoCache /\ last = {} /\ outbox = <<>>
  /\ signals = Arming /\ job = [kind |-> "start", id |-> None, tries |-> 1]
  /\ channel = <<>> /\ connected = [d \in Ids |-> NoIpod]
  /\ recent = {} /\ dropped = {}
  /\ LET records == [d \in Ids |-> IF d = Legacy THEN Reg!FromLegacy ELSE Reg!Unknown]
         nothing == [d \in Ids |-> 0]
     IN registry = [records |-> records, file |-> Reg!FileOf(records, nothing),
                    profiles |-> nothing, unreadable |-> {}, up |-> TRUE]
  /\ spent = [changes |-> 0, events |-> 0]

-----------------------------------------------------------------------------
(* The world; on macOS the bus also tells the watcher.                    *)
Change == spent.changes < MaxChanges /\ spent' = [spent EXCEPT !.changes = @ + 1]
Event == spent.events < MaxEvents /\ spent' = [spent EXCEPT !.events = @ + 1]
Notify(signal) ==
  signals' = IF Notified THEN Append(signals, signal) ELSE signals

PlugIn(d) ==
  /\ Change /\ Plug(d) /\ Notify([added |-> TRUE, id |-> d])
  /\ UNCHANGED <<platform, scan, cache, last, outbox, job, channel, hosting>>

PlugOut(d) ==
  /\ Change /\ Unplug(d) /\ Notify([added |-> FALSE, id |-> None])
  /\ UNCHANGED <<platform, scan, cache, last, outbox, job, channel, hosting>>

Remount ==
  /\ Change
  /\ \/ \E v \in Volumes, p \in Paths : Mount(v, p)
     \/ \E p \in Paths : Eject(p)
     \/ \E v \in Volumes, state \in Bases : Write(v, state)
  /\ UNCHANGED <<watching, channel, hosting>>

-----------------------------------------------------------------------------
(* Scans: the poll's tick, or one for each attempt a notification gets.   *)
Up == registry.up
Scanning == UNCHANGED <<world, platform, last, outbox, signals, job, channel, hosting>>

(* Known devices are rechecked first; with none the candidates are opened. *)
BeginScan ==
  /\ Up /\ scan.pc = "idle" /\ outbox = <<>>
  /\ ~Notified \/ job # NoJob
  /\ scan' = [IdleScan EXCEPT
       !.pc = IF cache.known = {} THEN "list" ELSE "recheck",
       !.pool = candidate_mount_points, !.todo = cache.known, !.expect = cache.candidates]
  /\ Scanning /\ UNCHANGED <<cache, spent>>

(* A known device is looked for where it was, or where its volume is now. *)
WhereNow(item) ==
  IF item.ipod.volume # None THEN mount_for_volume_guid(item.ipod.volume) ELSE item.ipod.path

(* A recheck that fails opens the candidates; the second, lenient one     *)
(* after an empty result leaves it empty.                                 *)
GiveUp ==
  /\ scan' = [scan EXCEPT !.pc = IF scan.strict THEN "list" ELSE "remember",
                          !.todo = {}, !.got = {}, !.disk = 0]
  /\ UNCHANGED <<cache>>

(* The files are compared first: unchanged, or at least still there.      *)
RecheckFiles ==
  /\ scan.pc = "recheck"
  /\ LET item == CHOOSE k \in scan.todo : TRUE
         p == WhereNow(item)
         print == IF p = None THEN 0 ELSE ready_layout_fingerprint(p)
     IN IF print = 0 \/ (scan.strict /\ print # item.print)
        THEN GiveUp
        ELSE /\ scan' = [scan EXCEPT !.pc = "recheckDisk", !.look = [NoLook EXCEPT !.path = p],
                                     !.item = item]
             /\ UNCHANGED cache
  /\ Scanning /\ UNCHANGED spent

(* A probe first takes the disk's number, then the device of that number, *)
(* or fails.                                                              *)
TakeDisk(next) == scan' = [scan EXCEPT !.pc = next, !.disk = DiskOf(scan.look.path)]
Probe(result) ==
  \/ result = DeviceOn(scan.disk) /\ UNCHANGED spent
  \/ result = None /\ Event

RecheckDisk ==
  /\ scan.pc = "recheckDisk" /\ TakeDisk("recheckUsb")
  /\ Scanning /\ UNCHANGED <<cache, spent>>

(* Then the USB identity; once all are rechecked, the candidates must be  *)
(* those remembered, moved as the known devices moved.                    *)
Agreed(got, expect) ==
  IF scan.pool = expect
  THEN scan' = [scan EXCEPT !.pc = IF scan.strict THEN "diff" ELSE "remember",
                            !.got = got, !.todo = {}, !.item = NoKnown, !.look = NoLook, !.disk = 0]
       /\ UNCHANGED cache
  ELSE GiveUp

RecheckUsb ==
  /\ scan.pc = "recheckUsb"
  /\ \E usb \in Ids \cup {None} :
       /\ Probe(usb)
       /\ LET ipod == scan.item.ipod
              todo == scan.todo \ {scan.item}
              got == scan.got \cup {[ipod EXCEPT !.path = scan.look.path]}
              expect == (scan.expect \ {ipod.path}) \cup {scan.look.path}
          IN IF usb # ipod.id THEN GiveUp
             ELSE IF todo = {} THEN Agreed(got, expect)
             ELSE /\ scan' = [scan EXCEPT !.pc = "recheck", !.todo = todo, !.got = got,
                                          !.expect = expect, !.disk = 0]
                  /\ UNCHANGED cache
  /\ Scanning

-----------------------------------------------------------------------------
(* The candidates are listed again and opened one by one.                 *)
List ==
  /\ scan.pc = "list"
  /\ scan' = [scan EXCEPT !.pc = "cold", !.todo = candidate_mount_points, !.got = {},
                          !.item = NoKnown, !.look = NoLook, !.disk = 0]
  /\ Scanning /\ UNCHANGED <<cache, spent>>

(* A path without the layout of an iPod is not one.                       *)
Open ==
  /\ scan.pc = "cold" /\ scan.todo # {}
  /\ LET p == CHOOSE q \in scan.todo : TRUE
     IN scan' = IF at[p] = None THEN [scan EXCEPT !.todo = @ \ {p}]
                ELSE [scan EXCEPT !.pc = "parse", !.todo = @ \ {p}, !.look = Inspect(p)]
  /\ Scanning /\ UNCHANGED <<cache, spent>>

Parse ==
  /\ scan.pc = "parse"
  /\ scan' = [scan EXCEPT !.pc = "probe", !.readiness = Classify(scan.look)]
  /\ Scanning /\ UNCHANGED <<cache, spent>>

ProbeDisk ==
  /\ scan.pc = "probe" /\ TakeDisk("probeUsb")
  /\ Scanning /\ UNCHANGED <<cache, spent>>

ProbeUsb ==
  /\ scan.pc = "probeUsb"
  /\ \E usb \in Ids \cup {None} :
       Probe(usb) /\ scan' = [scan EXCEPT !.pc = "confirm", !.usb = usb]
  /\ Scanning /\ UNCHANGED cache

(* What was opened must still be what the path leads to.                  *)
Confirm ==
  /\ scan.pc = "confirm"
  /\ scan' = [scan EXCEPT
       !.pc = "cold", !.look = NoLook, !.disk = 0, !.readiness = "none", !.usb = None,
       !.got = IF IsCurrent(scan.look)
               THEN @ \cup {Assemble(scan.look, scan.readiness, scan.usb)} ELSE @]
  /\ Scanning /\ UNCHANGED <<cache, spent>>

(* Only uniquely eligible observations become devices; the platform names *)
(* the volume found at the path by then.                                  *)
Adapted(seen) ==
  {[id |-> o.id, path |-> o.path, label |-> o.label,
    volume |-> IF platform = "windows" THEN at[o.path] ELSE None] : o \in UniquelyEligible(seen)}

(* An empty result is doubted: a known device that is still there stays.  *)
Adapt ==
  /\ scan.pc = "cold" /\ scan.todo = {}
  /\ LET found == Adapted(scan.got)
     IN scan' = IF found = {} /\ cache.known # {}
                THEN [scan EXCEPT !.pc = "recheck", !.strict = FALSE, !.got = {},
                                  !.todo = cache.known, !.expect = cache.candidates]
                ELSE [scan EXCEPT !.pc = "remember", !.got = found]
  /\ Scanning /\ UNCHANGED <<cache, spent>>

(* The files of each device found are measured for the next recheck.      *)
Remember ==
  /\ scan.pc = "remember"
  /\ cache' = [candidates |-> scan.pool,
               known |-> {[ipod |-> i, print |-> ready_layout_fingerprint(i.path)] :
                            i \in {j \in scan.got : ready_layout_fingerprint(j.path) # 0}}]
  /\ scan' = [scan EXCEPT !.pc = "diff"]
  /\ Scanning /\ UNCHANGED spent

-----------------------------------------------------------------------------
(* The differences: disconnections first, then what is new or changed.    *)
Gone(current) == {i.id : i \in {j \in last : ~InInventory(current, j.id)}}
Changed(current) == current \ last
Differences(current) ==
  SetToSeq({[gone |-> TRUE, id |-> d, ipod |-> NoIpod] : d \in Gone(current)})
  \o SetToSeq({[gone |-> FALSE, id |-> i.id, ipod |-> i] : i \in Changed(current)})

(* A notification is handled once the scan shows what it announced, or    *)
(* its attempts are used up.                                              *)
JobAfter(current) ==
  IF \/ job.tries <= 1
     \/ job.kind = "added" /\ InInventory(current, job.id)
     \/ job.kind = "removed" /\ current # last
  THEN NoJob ELSE [job EXCEPT !.tries = @ - 1]

Diff ==
  /\ scan.pc = "diff"
  /\ outbox' = Differences(scan.got) /\ last' = scan.got
  /\ job' = JobAfter(scan.got) /\ scan' = IdleScan
  /\ UNCHANGED <<world, platform, cache, signals, channel, hosting, spent>>

Send ==
  /\ outbox # <<>> /\ Len(channel) < Capacity
  /\ channel' = Append(channel, Head(outbox)) /\ outbox' = Tail(outbox)
  /\ UNCHANGED <<world, platform, scan, cache, last, signals, job, hosting, spent>>

(* A notification about a device already in the inventory is ignored.     *)
TakeSignal ==
  /\ Up /\ scan.pc = "idle" /\ job = NoJob /\ outbox = <<>> /\ signals # <<>>
  /\ LET signal == Head(signals)
     IN job' = IF signal.added /\ InInventory(last, signal.id) THEN NoJob
               ELSE [kind |-> IF signal.added THEN "added" ELSE "removed",
                     id |-> signal.id, tries |-> Attempts]
  /\ signals' = Tail(signals)
  /\ UNCHANGED <<world, platform, scan, cache, last, outbox, channel, hosting, spent>>

-----------------------------------------------------------------------------
(* The daemon.  A save writes the file whole or leaves it as it was; the  *)
(* records in memory follow the file.                                     *)
Save(records) ==
  /\ Reg!Savable(records, registry.unreadable)
  /\ registry' = [registry EXCEPT !.records = records,
                                  !.file = Reg!FileOf(records, registry.profiles)]
  /\ UNCHANGED spent

SaveFails(records) ==
  /\ UNCHANGED registry
  /\ IF Reg!Savable(records, registry.unreadable) THEN Event ELSE UNCHANGED spent

Lost(d) == dropped' = dropped \cup {d} /\ UNCHANGED connected
News(d, ipod) ==
  connected' = [connected EXCEPT ![d] = ipod] /\ dropped' = dropped \ {d}

Taken(event) ==
  /\ Up /\ channel # <<>> /\ event = Head(channel) /\ channel' = Tail(channel)
  /\ UNCHANGED <<world, watching>>

(* Within the window a second connection of a device passes for the       *)
(* first one's echo, whatever it says.                                    *)
Debounced ==
  \E event \in {Head(channel)} :
    /\ Taken(event) /\ ~event.gone /\ event.id \in recent
    /\ IF Connected(event.id) /\ event.ipod # connected[event.id]
       THEN Lost(event.id) ELSE UNCHANGED <<connected, dropped>>
    /\ UNCHANGED <<recent, registry, spent>>

(* The device is recorded first; one that cannot be is not connected.     *)
Connect ==
  \E event \in {Head(channel)} :
    /\ Taken(event) /\ ~event.gone /\ event.id \notin recent
    /\ recent' = recent \cup {event.id}
    /\ LET records == Reg!Observed(registry.records, event.id)
       IN \/ Save(records) /\ News(event.id, event.ipod)
          \/ SaveFails(records) /\ Lost(event.id)

(* Mutant: a disconnection leaves the window open.                        *)
DisconnectInWindow ==
  \E event \in {Head(channel)} :
    /\ Taken(event) /\ event.gone
    /\ News(event.id, NoIpod) /\ UNCHANGED <<recent, registry, spent>>

Disconnect ==
  \E event \in {Head(channel)} :
    /\ Taken(event) /\ event.gone
    /\ recent' = recent \ {event.id} /\ News(event.id, NoIpod)
    /\ UNCHANGED <<registry, spent>>

WindowPasses ==
  /\ Up /\ recent # {} /\ \E d \in recent : recent' = recent \ {d}
  /\ UNCHANGED <<world, watching, channel, connected, dropped, registry, spent>>

-----------------------------------------------------------------------------
(* What clients and reconciliation do to the registry meanwhile.          *)
Edit(d) ==
  /\ Event /\ Up /\ registry.records[d].known
  /\ \E records \in {Reg!Configured(registry.records, d), Reg!Forgotten(registry.records, d),
                     Reg!Advanced(registry.records, d)} :
       /\ Reg!Savable(records, registry.unreadable) /\ records # registry.records
       /\ registry' = [registry EXCEPT !.records = records,
                                       !.file = Reg!FileOf(records, registry.profiles)]
  /\ UNCHANGED <<world, watching, channel, connected, recent, dropped>>

(* Reconciliation caches the profile it imported and saves the records as *)
(* they are: the file takes the profile's counter, the memory does not.   *)
Import(d) ==
  /\ Event /\ Up /\ Connected(d) /\ registry.records[d].configured
  /\ d \notin registry.unreadable
  /\ LET profiles == [registry.profiles EXCEPT ![d] = @ + 1]
     IN registry' = [registry EXCEPT !.profiles = profiles,
                       !.file = IF Reg!Savable(registry.records, registry.unreadable)
                                THEN Reg!FileOf(registry.records, profiles) ELSE @]
  /\ UNCHANGED <<world, watching, channel, connected, recent, dropped>>

(* The host's cache of a device can no longer be read.                    *)
Corrupt(d) ==
  /\ Event /\ Up /\ d \notin registry.unreadable
  /\ registry' = [registry EXCEPT !.unreadable = @ \cup {d}]
  /\ UNCHANGED <<world, watching, channel, connected, recent, dropped>>

(* The daemon dies; its successor needs a registry file it can read.  The *)
(* bus reports the devices it already carries.                            *)
Restart ==
  /\ Event /\ Up
  /\ scan' = IdleScan /\ cache' = NoCache /\ last' = {} /\ outbox' = <<>>
  /\ signals' = Arming
  /\ job' = [kind |-> "start", id |-> None, tries |-> 1]
  /\ channel' = <<>> /\ connected' = [d \in Ids |-> NoIpod]
  /\ recent' = {} /\ dropped' = {}
  /\ registry' = [registry EXCEPT !.up = Reg!Validates(registry.file),
                                  !.records = Reg!RecordsOf(registry.file)]
  /\ UNCHANGED <<world, platform>>

-----------------------------------------------------------------------------
WatcherSteps ==
  \/ BeginScan \/ RecheckFiles \/ RecheckDisk \/ RecheckUsb \/ List
  \/ Open \/ Parse \/ ProbeDisk \/ ProbeUsb
  \/ Confirm \/ Adapt \/ Remember \/ Diff \/ Send \/ TakeSignal
DaemonSteps == channel # <<>> /\ (Debounced \/ Connect \/ Disconnect)
Outside ==
  \/ \E d \in Ids : PlugIn(d) \/ PlugOut(d) \/ Edit(d) \/ Import(d) \/ Corrupt(d)
  \/ Remount \/ Restart

Next == WatcherSteps \/ DaemonSteps \/ WindowPasses \/ Outside

Spec == Init /\ [][Next]_vars
(* The watcher's thread and the daemon's loop keep running; the window is *)
(* a clock.                                                               *)
FairSpec == Spec /\ WF_vars(WatcherSteps) /\ WF_vars(DaemonSteps) /\ WF_vars(WindowPasses)

-----------------------------------------------------------------------------
(* An observation never joins the files of one volume to the identity of  *)
(* another, whatever is plugged, mounted, ejected or replaced while the    *)
(* candidate is looked at, and however disk numbers are given out again:   *)
(* observe_mount, the readiness authority and the USB association.        *)
Whole(o) == o.id \in {None, Owner[o.from]} /\ o.label = Model[o.from]
ObservationWhole == scan.pc = "cold" => \A o \in scan.got : Whole(o)

(* The one volume that claims a device, mounted with a valid database.    *)
Steady(d) ==
  /\ Cardinality({p \in Mounted : Owner[at[p]] = d}) = 1
  /\ \A p \in Mounted : Owner[at[p]] = d => base[at[p]] = "valid"
PathOf(d) == CHOOSE p \in Mounted : Owner[at[p]] = d
Shown(d) == Connected(d) /\ Mounted # {} /\ Steady(d) /\ connected[d].path = PathOf(d)

(* The daemon's devices follow the world once it stays as it is.  A device *)
(* that was unplugged is disconnected.  A steady device is connected under *)
(* its path - unless the daemon lost the news of it (the debouncer, a      *)
(* registry that could not be saved), or another device it knows keeps     *)
(* the cache from looking again: the polling watcher, the cache, the       *)
(* debouncer and handle_device_event together.                             *)
FollowsDevices ==
  \A d \in Ids :
    /\ <>[](d \notin Plugged) => <>[](~Connected(d))
    /\ ~Notified /\ <>[](Steady(d) /\ d \notin dropped)
         => <>[](Shown(d) \/ \E e \in Ids \ {d} : InInventory(last, e))
=============================================================================
