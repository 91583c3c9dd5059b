------------------------------ MODULE Dispatch ------------------------------
(***************************************************************************)
(* What stands between the wire and the daemon's loop.  The loop still     *)
(* speaks the vocabulary of the protocol before this one: a command is     *)
(* translated into it (or answered, or refused, on the way), and what the  *)
(* loop says is translated back when it is written.  Commands and events   *)
(* go by their kind; the payloads that are converted along with them are   *)
(* the business of the modules that use them.                              *)
(***************************************************************************)
EXTENDS Wire

\* the two tables together
Joined(f, g) == [x \in DOMAIN f \cup DOMAIN g |-> IF x \in DOMAIN f THEN f[x] ELSE g[x]]

-----------------------------------------------------------------------------
(* The loop's own commands.                                                *)

SessionCommandsOfLoop ==
  {"get_status", "get_config", "save_config", "forget_ipod", "trigger_sync",
   "get_history", "subscribe_device_events", "unsubscribe_device_events",
   "cancel_sync", "pause", "decide_prompt", "backfill_rockbox",
   "replace_library", "get_library", "scan_library", "retry_source_mount"}

LibraryCommandsOfLoop ==
  {"preview_selection", "list_playlists", "get_playlist", "save_playlist",
   "delete_playlist", "get_device_config", "save_device_config",
   "preview_device", "resolve_tracks", "add_selection_to_device",
   "append_selection_to_playlist", "shutdown"}

LoopCommands == SessionCommandsOfLoop \cup LibraryCommandsOfLoop

\* those that name a device
Targeted ==
  {"forget_ipod", "trigger_sync", "cancel_sync", "pause", "decide_prompt",
   "backfill_rockbox", "replace_library", "preview_selection",
   "get_device_config", "save_device_config", "preview_device",
   "add_selection_to_device"}

\* those that cannot be correlated with a reply
Anonymous == {"subscribe_device_events", "unsubscribe_device_events", "shutdown"}

-----------------------------------------------------------------------------
(* From the wire to the loop.                                              *)

\* an interaction of a run in a terminal, which no session of the daemon has
NotExposed == {"apply_review", "dry_run_review", "quit_review", "form_decision"}

\* what goes through a device's portable outbox before the loop sees any of it
Portable ==
  {"adopt_device", "set_selection", "set_settings", "set_subscriptions"}

ConfigBecomes ==
  [get_global_config |-> "get_config", set_source_location |-> "save_config",
   set_global_settings |-> "save_config",
   get_inventory |-> "subscribe_device_events",
   subscribe_inventory |-> "subscribe_device_events",
   unsubscribe_inventory |-> "unsubscribe_device_events",
   forget_device |-> "forget_ipod", get_device_config |-> "get_device_config"]

\* the names that do not change
LibraryBecomes ==
  [kind \in {"trigger_sync", "backfill_rockbox", "replace_library",
             "get_history", "get_library", "scan_library",
             "retry_source_mount", "preview_selection", "preview_device",
             "resolve_tracks", "add_selection_to_device", "list_playlists",
             "get_playlist", "save_playlist", "delete_playlist",
             "append_selection_to_playlist", "shutdown"} |-> kind]

SteeringBecomes ==
  [prompt_decision |-> "decide_prompt", cancel_sync |-> "cancel_sync",
   pause_sync |-> "pause"]

Becomes == Joined(ConfigBecomes, Joined(LibraryBecomes, SteeringBecomes))

\* what is confirmed before the loop's handler runs
Confirmed ==
  [subscribe_inventory |-> "inventory_subscription_changed",
   unsubscribe_inventory |-> "inventory_subscription_changed",
   shutdown |-> "daemon_shutdown_started"]

\* Every command the wire admits has a place, and one place only.
ASSUME EveryCommandHasAPlace ==
  /\ Commands = DOMAIN Becomes \cup NotExposed \cup Portable
  /\ DOMAIN Becomes \cap (NotExposed \cup Portable) = {}
  /\ \A kind \in DOMAIN Becomes : Becomes[kind] \in LoopCommands

-----------------------------------------------------------------------------
(* Questions: the loop looks something up and tells the one who asked.     *)

HistoryReply == [get_history |-> "history_update"]
ConfigReply == [get_config |-> "config_update"]
LibraryReply == [get_library |-> "library_update"]
SelectionReply == [preview_selection |-> "selection_preview"]
PlaylistReplies ==
  [list_playlists |-> "playlists_update", get_playlist |-> "playlist_detail"]
DeviceConfigReply == [get_device_config |-> "device_config_update"]
PreviewReplies ==
  [preview_device |-> "device_preview", resolve_tracks |-> "resolved_tracks"]

SimpleReplies == Joined(HistoryReply, Joined(ConfigReply, LibraryReply))
DeviceReplies == Joined(DeviceConfigReply, Joined(SelectionReply, PreviewReplies))
Replies == Joined(SimpleReplies, Joined(DeviceReplies, PlaylistReplies))

-----------------------------------------------------------------------------
(* From the loop to the wire.                                              *)

\* the loop's events: what it tells everybody, and what it answers
Announcements ==
  {"hello", "status_update", "config_update", "history_update",
   "device_connected", "device_disconnected", "sync_rejected",
   "command_failed", "device_selection_added", "playlist_selection_appended",
   "library_mutation_rejected", "sync_event", "device_inventory_snapshot",
   "library_update", "selection_update"}

Answers ==
  {"selection_preview", "playlists_update", "playlist_detail",
   "device_config_update", "device_preview", "resolved_tracks",
   "source_availability"}

\* its bookkeeping has no form on this wire
Formless ==
  {"hello", "status_update", "device_connected", "device_disconnected",
   "selection_update"}

MutationForms ==
  [config_update |-> "global_config", history_update |-> "history",
   sync_rejected |-> "sync_rejected", command_failed |-> "command_failed",
   device_selection_added |-> "device_selection_added",
   playlist_selection_appended |-> "playlist_selection_appended",
   library_mutation_rejected |-> "library_mutation_rejected"]

SnapshotForms ==
  [device_inventory_snapshot |-> "device_inventory",
   library_update |-> "library", selection_preview |-> "selection_preview",
   playlists_update |-> "playlists", playlist_detail |-> "playlist_detail",
   device_config_update |-> "device_config"]

PreviewForms ==
  [device_preview |-> "device_preview", resolved_tracks |-> "resolved_tracks",
   source_availability |-> "source_availability"]

Forms == Joined(MutationForms, Joined(SnapshotForms, PreviewForms))

\* a worker's event, and one made for this wire, is written as it is
WireForm(kind) == IF kind \in DOMAIN Forms THEN Forms[kind] ELSE kind

\* Every event of the loop has a form or is known to have none, and every
\* answer it gives has one and a request to go with it.
ASSUME EveryEventHasAForm ==
  /\ Announcements \cup Answers = DOMAIN Forms \cup Formless \cup {"sync_event"}
  /\ \A kind \in DOMAIN Forms : Forms[kind] \in DaemonEvents
  /\ \A asked \in DOMAIN Replies :
       Replies[asked] \in DOMAIN Forms /\ asked \in LoopCommands \ Anonymous

\* the form an event is written in, if it has one
Written(event) == [event EXCEPT !.kind = WireForm(@)]
=============================================================================
