-------------------------------- MODULE Wire --------------------------------
(***************************************************************************)
(* The protocol-3 contract: which messages exist, which of them each       *)
(* direction of each stream admits, when a peer's greeting is accepted,    *)
(* and which events are well formed enough to be written at all.  A        *)
(* message is a record with the fields the checks read; a request, a       *)
(* mutation and a text are left out.  The decoder of a desktop client is   *)
(* the same table read the other way (wire/mod.rs keeps all four streams   *)
(* in one function).                                                       *)
(***************************************************************************)
EXTENDS Integers, Sequences, FiniteSets, SequencesExt

CONSTANT Devices        \* the device ids the registry knows

NoDevice == "library"   \* the route of a library scan, which owns no device
NoSession == 0          \* SessionId is NonZeroU64

ASSUME WireAssumption == NoDevice \notin Devices

-----------------------------------------------------------------------------
(* The table of messages.                                                  *)

ConfigCommands ==
  {"get_global_config", "set_source_location", "set_global_settings",
   "adopt_device", "forget_device", "get_device_config", "set_selection",
   "set_settings", "set_subscriptions"}

SessionCommands ==
  {"apply_review", "dry_run_review", "quit_review", "prompt_decision",
   "form_decision", "cancel_sync", "pause_sync"}

Commands ==
  ConfigCommands \cup SessionCommands \cup
  {"get_inventory", "subscribe_inventory", "unsubscribe_inventory",
   "trigger_sync", "backfill_rockbox", "replace_library", "get_history",
   "get_library", "scan_library", "retry_source_mount", "preview_selection",
   "preview_device", "resolve_tracks", "add_selection_to_device",
   "list_playlists", "get_playlist", "save_playlist", "delete_playlist",
   "append_selection_to_playlist", "shutdown"}

DaemonEvents ==
  {"global_config", "source_availability", "device_inventory",
   "inventory_subscription_changed", "device_config",
   "config_mutation_failed", "device_forgotten", "sync_accepted",
   "sync_rejected", "history", "library", "selection_preview",
   "device_preview", "resolved_tracks", "playlists", "playlist_detail",
   "playlist_saved", "device_selection_added",
   "playlist_selection_appended", "library_mutation_rejected",
   "daemon_shutdown_started", "command_failed"}

ScanEvents ==
  {"library_scan_started", "library_scan_progress", "library_scan_finished"}

SyncEvents ==
  {"run_header", "sync_summary", "review_requested", "prompt", "form",
   "track_start", "track_done", "finalizing", "sync_cancelled",
   "sync_paused", "sync_log", "sync_error", "sync_finished"}

Class(m) ==
  CASE m.kind = "hello" -> "hello"
    [] m.kind \in Commands -> "command"
    [] m.kind \in DaemonEvents \cup ScanEvents \cup SyncEvents -> "event"
    [] OTHER -> "unknown"

-----------------------------------------------------------------------------
(* Greetings.                                                              *)

Major == 3
WorkerNeeds == {"typed_sync_progress"}
DesktopNeeds == {"device_inventory", "portable_profile", "typed_sync_progress"}

Hello(role, capabilities) ==
  [kind |-> "hello", major |-> Major, role |-> role,
   capabilities |-> SetToSeq(capabilities)]

WellFormedHello(h) == IsInjective(h.capabilities)

PeerAccepted(h, role, required) ==
  /\ h.kind = "hello"
  /\ WellFormedHello(h)
  /\ h.major = Major
  /\ h.role = role
  /\ required \subseteq ToSet(h.capabilities)

-----------------------------------------------------------------------------
(* Routes.  A worker owns one route, given to it when it is spawned.       *)

Route(device, session) == [device |-> device, session |-> session]

MatchesDevice(route, device, session) ==
  route.device # NoDevice /\ route = Route(device, session)

MatchesScan(route, session) == route = Route(NoDevice, session)

CommandRoute(m) == Route(m.device, m.session)

\* the route a worker's event claims, and whether it is the one it was given
RoutedBy(event, route) ==
  \/ event.kind \in SyncEvents /\ MatchesDevice(route, event.device, event.session)
  \/ event.kind \in ScanEvents /\ MatchesScan(route, event.session)

-----------------------------------------------------------------------------
(* What makes an event fit to be written: the relations between its fields *)
(* the writer checks before it sends it, and the reader again.  A device   *)
(* in an inventory is [connected, mounted, phase, session, ready, profile].*)

ValidDevice(d) ==
  /\ d.connected = d.mounted
  /\ d.connected \/ (d.session = NoSession /\ d.phase = "disconnected")
  /\ d.connected => d.phase # "disconnected"
  /\ (d.phase = "syncing") <=> (d.session # NoSession)
  /\ d.phase = "syncing" => d.ready /\ d.profile = "adopted"

ValidInventory(m) ==
  /\ m.revision > 0
  /\ \A d \in Devices : ValidDevice(m.devices[d])

ValidSource(m) == (m.state = "available") <=> m.rooted

ValidPrompt(m) == m.options > 0 /\ m.prompt > 0

ValidEvent(m) ==
  CASE m.kind = "device_inventory" -> ValidInventory(m)
    [] m.kind = "source_availability" -> ValidSource(m)
    [] m.kind = "prompt" -> ValidPrompt(m)
    [] OTHER -> TRUE

-----------------------------------------------------------------------------
(* What each stream admits after its greeting.                             *)

DaemonAdmits(m) == Class(m) = "command"

DesktopAdmits(m) ==
  \/ Class(m) = "event" /\ ValidEvent(m)
  \/ Class(m) = "unknown"      \* a newer daemon's event: ignored, not refused

AdmittedFromWorker(m, route) ==
  /\ Class(m) = "event"
  /\ m.kind \notin DaemonEvents
  /\ ValidEvent(m)
  /\ RoutedBy(m, route)

\* the worker's own test of a command: the route alone
WorkerTakes(m, route) ==
  /\ m.kind \in SessionCommands
  /\ CommandRoute(m) = route

-----------------------------------------------------------------------------
(* Every event passes the check again on its way out.                      *)

Serializes(m) == Class(m) = "event" /\ ValidEvent(m)
=============================================================================
