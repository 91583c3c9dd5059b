------------------------------ MODULE Clients ------------------------------
(***************************************************************************)
(* The daemon and the desktop clients attached to it, around the one       *)
(* worker that may be running: how a client is greeted, given the state,   *)
(* subscribed and kept up to date; how its commands reach the loop and     *)
(* its answers the worker; how the worker's events reach every client; and *)
(* what a client then believes.                                            *)
(*                                                                         *)
(* The loop handles one thing at a time and publishes an inventory after   *)
(* it; the relay of the worker's output and the connections run beside it  *)
(* on other threads.  A connection's task and the client that reads it are *)
(* one step: the socket between them is one more queue in a row of two.    *)
(* So are the worker's output pipe and the relay that reads it, and the    *)
(* answers' way through the relay to the worker's input.                   *)
(* Broadcasts that have no form on this wire (status, device_connected and *)
(* device_disconnected) or that no view here reads (history) are left out: *)
(* Capacity counts the others.                                             *)
(***************************************************************************)
EXTENDS Dispatch

CONSTANTS Clients,      \* desktop processes that may connect
          Capacity,     \* events a connection may be behind before it loses one
          Asked,        \* the kinds of command the clients of this run send
          Reports,      \* the kinds of progress its workers report
          MaxSaid,      \* prompts and reports of one worker
          MaxStarts, MaxSteers, MaxWaiting, MaxConnects,
          MaxFaults,    \* deaths of a worker and unplugged devices
          MaxDeeds      \* connections, commands and faults together

VARIABLES
  daemon,   \* the loop: what it knows, what waits for it, what it must publish
  run,      \* the worker's process and the task that relays its output
  client,   \* each connection's task and the client behind it
  past      \* what was done: for the properties, and to bound the runs

vars == <<daemon, run, client, past>>

Idle == Route(NoDevice, NoSession)

\* the commands whose handlers are here: a steering one, one that starts
\* something, and those that are answered at once
Steering == {"prompt_decision", "cancel_sync", "pause_sync"}
Starting == {"trigger_sync", "backfill_rockbox"}
AnsweredAtOnce ==
  NotExposed \cup DOMAIN Confirmed \cup {kind \in DOMAIN Becomes : Becomes[kind] \in DOMAIN Replies}

\* what a worker reports of its progress, which ends nothing
Progress ==
  {"run_header", "sync_summary", "review_requested", "form", "track_start", "track_done",
   "sync_log", "sync_error"}

ASSUME ClientsAssumption ==
  /\ Asked \subseteq
       Steering \cup Starting \cup {"scan_library", "retry_source_mount"} \cup AnsweredAtOnce
  /\ Reports \subseteq Progress
  /\ Capacity \in Nat \ {0}

NoRun ==
  [route |-> Idle, phase |-> "none", prompt |-> 0, asked |-> 0, reported |-> 0,
   stop |-> "none", in |-> <<>>, stops |-> {}, stopped |-> FALSE,
   finished |-> FALSE]

NoView ==
  [revision |-> 0, route |-> [d \in Devices |-> NoSession], awaiting |-> {},
   shown |-> [session |-> NoSession, prompt |-> 0], answered |-> FALSE,
   source |-> "unknown"]

Nobody == "nobody"      \* whose connection is gone

NoClient ==
  [conn |-> "away", batch |-> <<>>, live |-> <<>>, replies |-> <<>>,
   lagged |-> FALSE, view |-> NoView]

\* the daemon has just noticed its devices: one of them syncs by itself, as
\* soon as the source is found
Init ==
  /\ \E d \in Devices :
       daemon = [pc |-> "loop", active |-> Idle, next |-> 1, revision |-> 1,
                 connected |-> Devices, source |-> "remounting", trying |-> TRUE,
                 scan |-> FALSE, sync |-> {[device |-> d, asked |-> FALSE]},
                 after |-> {}, commands |-> <<>>, completed |-> <<>>]
  /\ run = NoRun
  /\ client = [c \in Clients |-> NoClient]
  /\ past = [answers |-> {}, resolved |-> {}, abandoned |-> {}, starts |-> 0, steers |-> 0,
             connects |-> 0, faults |-> 0, cut |-> {}]

\* what is done from outside, together
DeedsLeft == past.connects + past.starts + past.steers + past.faults < MaxDeeds

-----------------------------------------------------------------------------
(* The broadcast channel: each subscription holds the last Capacity events;*)
(* a connection that falls behind loses the oldest and is only warned.     *)

\* mutant: a connection is subscribed once it has replayed its batch
SubscribedAfterReplay(k) == k.conn = "live"

Subscribed(k) == k.conn \in {"replaying", "live"}

Overtaken(k, events) ==
  LET all == k.live \o events IN
  IF Len(all) > Capacity
  THEN [k EXCEPT !.live = SubSeq(all, Len(all) - Capacity + 1, Len(all)),
                 !.lagged = TRUE]
  ELSE [k EXCEPT !.live = all]

\* the clients after `events` are broadcast, given the clients `cs` before
Told(cs, events) ==
  [c \in Clients |->
     IF Subscribed(cs[c]) THEN Overtaken(cs[c], events) ELSE cs[c]]

\* a reply goes to the one client that asked, on a queue of its own
Replied(cs, c, event) ==
  IF c # Nobody
  THEN [cs EXCEPT ![c].replies = Append(@, event)]
  ELSE cs

-----------------------------------------------------------------------------
(* What the daemon says.                                                   *)

Phase(d) ==
  IF d \notin daemon.connected THEN "disconnected"
  ELSE IF daemon.active.device = d THEN "syncing"
  ELSE "idle"                   \* paused and error only word it otherwise

\* the session is shown by the active session alone, connected or not
Snapshot(d) ==
  [connected |-> d \in daemon.connected, mounted |-> d \in daemon.connected,
   phase |-> Phase(d), ready |-> TRUE, profile |-> "adopted",
   session |-> IF daemon.active.device = d THEN daemon.active.session
               ELSE NoSession]

Inventory(revision) ==
  [kind |-> "device_inventory_snapshot", revision |-> revision,
   devices |-> [d \in Devices |-> Snapshot(d)]]

SourceIs(state) ==
  [kind |-> "source_availability", state |-> state,
   rooted |-> state = "available"]

Routed(kind, route) ==
  [kind |-> kind, device |-> route.device, session |-> route.session]

Prompted(route, p) ==
  [kind |-> "prompt", device |-> route.device, session |-> route.session,
   prompt |-> p, options |-> 3]

Plain(kind) == [kind |-> kind]

\* the greetings and the state every new connection gets, in this order
DaemonHello == Hello("daemon", DesktopNeeds)
InitialState ==
  <<Plain("status_update"), Inventory(daemon.revision + 1), SourceIs(daemon.source)>>

\* the loop publishes the inventory once the handler it ran returns
Publish ==
  /\ daemon.pc = "publish"
  /\ daemon' = [daemon EXCEPT !.pc = "loop", !.revision = @ + 1]
  /\ client' = Told(client, <<Inventory(daemon.revision + 1)>>)
  /\ UNCHANGED <<run, past>>

-----------------------------------------------------------------------------
(* Sessions: one at a time, admitted by the loop, run by a process.        *)

Launched(d, route) ==
  /\ daemon' = [d EXCEPT !.active = route, !.next = @ + 1, !.pc = "publish"]
  /\ run' = [NoRun EXCEPT !.route = route, !.phase = "starting"]

\* a sync asked for by a client is announced; one the daemon decided on is not
Announced(device, session, asked) ==
  IF asked THEN <<Routed("sync_accepted", Route(device, session))>> ELSE <<>>

StartSync(d, device, asked, before) ==
  /\ Launched(d, Route(device, daemon.next))
  /\ client' = Told(client, before \o Announced(device, daemon.next, asked))

StartScan(d, before) ==
  /\ Launched(d, Route(NoDevice, daemon.next))
  /\ client' = Told(client, before)

\* work that waited for the source, once it is available and no session runs:
\* the scan first, and what it went ahead of after it
StartWaiting(d, before) ==
  IF d.active # Idle \/ (~d.scan /\ d.sync = {})
  THEN /\ daemon' = [d EXCEPT !.pc = "publish"]
       /\ client' = Told(client, before)
       /\ UNCHANGED run
  ELSE IF d.scan
  THEN StartScan([d EXCEPT !.scan = FALSE,
                           !.after = IF @ = {} THEN d.sync ELSE @,
                           !.sync = IF d.after = {} THEN {} ELSE @], before)
  ELSE \E s \in d.sync :
         StartSync([d EXCEPT !.sync = {}], s.device, s.asked, before)

\* a request that needs the source first looks for it, unless a search runs
SourceAsked(d, cs) ==
  IF d.trying
  THEN daemon' = d /\ client' = cs
  ELSE /\ daemon' = [d EXCEPT !.trying = TRUE, !.source = "remounting"]
       /\ client' = Told(cs, <<SourceIs("remounting")>>)

SourceResolved(found) ==
  /\ daemon.pc = "loop" /\ daemon.trying
  /\ LET state == IF found THEN "available" ELSE "unavailable"
         d == [daemon EXCEPT !.trying = FALSE, !.source = state] IN
     IF found
     THEN StartWaiting(d, <<SourceIs(state)>>)
     ELSE /\ daemon' = [d EXCEPT !.pc = "publish"]      \* what waits, waits on
          /\ client' = Told(client, <<SourceIs(state)>>)
          /\ UNCHANGED run
  /\ UNCHANGED past

\* the worker's task ended: its session ends here, whoever else is waiting
Complete ==
  /\ daemon.pc = "loop" /\ daemon.completed # <<>>
  /\ LET d == [daemon EXCEPT
                 !.completed = Tail(@), !.active = Idle,
                 !.sync = IF @ = {} /\ daemon.active.device = NoDevice
                          THEN daemon.after ELSE @,
                 !.after = IF daemon.active.device = NoDevice THEN {} ELSE @] IN
     IF daemon.source = "available"
     THEN StartWaiting(d, <<>>)
     ELSE daemon' = [d EXCEPT !.pc = "publish"] /\ UNCHANGED <<run, client>>
  /\ UNCHANGED past

Fault ==
  /\ past.faults < MaxFaults /\ DeedsLeft
  /\ past' = [past EXCEPT !.faults = @ + 1]

\* the device goes: the session that uses it is told to stop and stays the
\* active one until its worker has drained
Unplug(d) ==
  /\ daemon.pc = "loop" /\ d \in daemon.connected
  /\ Fault
  /\ daemon' = [daemon EXCEPT !.connected = @ \ {d}, !.pc = "publish"]
  /\ run' = IF daemon.active.device = d
            THEN [run EXCEPT !.stops = @ \cup {"cancel_sync"}] ELSE run
  /\ UNCHANGED client

\* it comes back; with auto-sync on, a sync is wanted that nobody asked for
Plug(d, auto) ==
  /\ daemon.pc = "loop" /\ d \notin daemon.connected
  /\ LET back == [daemon EXCEPT !.connected = @ \cup {d}, !.pc = "publish"] IN
     IF auto
     THEN SourceAsked([back EXCEPT !.sync = IF @ = {} THEN {[device |-> d, asked |-> FALSE]}
                                            ELSE @],
                      client)
     ELSE daemon' = back /\ UNCHANGED client
  /\ UNCHANGED <<run, past>>

-----------------------------------------------------------------------------
(* Connections.                                                            *)

\* a client connects, reads the daemon's greeting and accepts it
Greet(c) ==
  /\ client[c].conn = "away"
  /\ past.connects < MaxConnects /\ DeedsLeft
  /\ PeerAccepted(DaemonHello, "daemon", DesktopNeeds)
  /\ client' = [client EXCEPT ![c] = [NoClient EXCEPT !.conn = "greeted"]]
  /\ past' = [past EXCEPT !.connects = @ + 1]
  /\ UNCHANGED <<daemon, run>>

\* the loop makes the batch and the subscription in one go; the inventory in
\* it takes a revision nobody else is told of
Register(c) ==
  /\ daemon.pc = "loop" /\ client[c].conn = "greeted"
  /\ client' = [client EXCEPT ![c].conn = "replaying", ![c].batch = InitialState]
  /\ daemon' = [daemon EXCEPT !.revision = @ + 1]
  /\ UNCHANGED <<run, past>>

\* what a connection leaves behind: its commands, with nobody to reply to
Gone(c) ==
  /\ client' = [client EXCEPT ![c] = NoClient]
  /\ daemon' = [daemon EXCEPT !.commands =
       [i \in DOMAIN @ |-> IF @[i].from = c THEN [@[i] EXCEPT !.from = Nobody]
                           ELSE @[i]]]

\* an event that cannot be written ends the connection
Cut(c) ==
  /\ Gone(c)
  /\ past' = [past EXCEPT !.cut = @ \cup {c}]

-----------------------------------------------------------------------------
(* What a client makes of an event.                                        *)

\* the sessions of the inventory; one that has only announced its end stays
\* until it is finished or the daemon names another
UpdateActiveSessions(v, e) ==
  IF e.revision < v.revision THEN v
  ELSE [v EXCEPT
          !.revision = e.revision,
          !.route = [d \in Devices |->
             IF e.devices[d].session # NoSession THEN e.devices[d].session
             ELSE IF d \in v.awaiting THEN v.route[d] ELSE NoSession],
          !.awaiting = {d \in @ : e.devices[d].session = NoSession}]

\* progress of the session shown; another session's is stale and ignored
Shown(v, e) ==
  LET unasked == [v EXCEPT !.shown = NoView.shown, !.answered = FALSE] IN
  IF v.route[e.device] # e.session THEN v ELSE
  CASE e.kind = "prompt" ->
         [v EXCEPT !.shown = [session |-> e.session, prompt |-> e.prompt],
                   !.answered = FALSE]
    [] e.kind = "sync_log" -> [v EXCEPT !.answered = FALSE]
    [] e.kind \in {"sync_paused", "sync_cancelled"} ->
         [unasked EXCEPT !.awaiting = @ \cup {e.device}]
    [] e.kind = "sync_finished" ->
         [unasked EXCEPT !.awaiting = @ \ {e.device},
                         !.route[e.device] = NoSession]
    [] OTHER -> unasked

Learnt(v, e) ==
  CASE e.kind = "device_inventory" -> UpdateActiveSessions(v, e)
    [] e.kind = "sync_accepted" -> [v EXCEPT !.route[e.device] = e.session]
    [] e.kind = "source_availability" -> [v EXCEPT !.source = e.state]
    [] e.kind \in SyncEvents -> Shown(v, e)
    [] e.kind = "command_failed" /\ e.of = "prompt_decision" ->
         [v EXCEPT !.answered = FALSE]
    [] OTHER -> v

\* an event the stream does not admit changes nothing
Seen(v, e) == IF DesktopAdmits(e) THEN Learnt(v, e) ELSE v

\* an event is written if it has a form here, or the connection ends over it
Delivered(e, c, k) ==
  LET m == Written(e) IN
  IF e.kind \in Formless
  THEN /\ client' = [client EXCEPT ![c] = k]
       /\ UNCHANGED <<daemon, run, past>>
  ELSE IF Serializes(m)
  THEN /\ client' = [client EXCEPT ![c] = [k EXCEPT !.view = Seen(@, m)]]
       /\ UNCHANGED <<daemon, run, past>>
  ELSE Cut(c) /\ UNCHANGED run

\* the batch first, and every event the loop broadcasts from then on
Replay(c) ==
  /\ client[c].conn = "replaying"
  /\ LET rest == Tail(client[c].batch) IN
     Delivered(Head(client[c].batch), c,
               [client[c] EXCEPT !.batch = rest,
                                 !.conn = IF rest = <<>> THEN "live" ELSE @])

Receive(c) ==
  /\ client[c].conn = "live" /\ client[c].live # <<>>
  /\ Delivered(Head(client[c].live), c, [client[c] EXCEPT !.live = Tail(@)])

ReadReply(c) ==
  /\ client[c].conn = "live" /\ client[c].replies # <<>>
  /\ Delivered(Head(client[c].replies), c, [client[c] EXCEPT !.replies = Tail(@)])

-----------------------------------------------------------------------------
(* What a client asks.                                                     *)

Asks(c, kind, device, session, prompt) ==
  LET cmd == [kind |-> kind, device |-> device, session |-> session,
              prompt |-> prompt, from |-> c] IN
  /\ kind \in Asked /\ client[c].conn = "live"
  /\ Len(daemon.commands) < MaxWaiting
  /\ DaemonAdmits(cmd)
  /\ daemon' = [daemon EXCEPT !.commands = Append(@, cmd)]
  /\ UNCHANGED run

\* the buttons: a sync or a backfill of a device that shows no session, a stop
\* of the session shown, and what may be asked at any time
AskFor(c, d, kind) ==
  LET session == client[c].view.route[d] IN
  /\ kind # "prompt_decision"
  /\ kind \in Steering => session # NoSession
  /\ kind \in Starting => session = NoSession
  /\ Asks(c, kind, d, session, 0)
  /\ IF kind \in Steering
     THEN past.steers < MaxSteers /\ DeedsLeft /\ past' = [past EXCEPT !.steers = @ + 1]
     ELSE past.starts < MaxStarts /\ DeedsLeft /\ past' = [past EXCEPT !.starts = @ + 1]
  /\ UNCHANGED client

\* the answer to the prompt shown, once until something is heard of it
Answer(c, d) ==
  LET v == client[c].view IN
  /\ v.shown.prompt # 0 /\ ~v.answered
  /\ v.shown.session = v.route[d]
  /\ Asks(c, "prompt_decision", d, v.shown.session, v.shown.prompt)
  /\ client' = [client EXCEPT ![c].view.answered = TRUE]
  /\ past.steers < MaxSteers /\ DeedsLeft
  /\ past' = [past EXCEPT !.steers = @ + 1,
                          !.answers = @ \cup {<<v.shown.session, v.shown.prompt>>}]

-----------------------------------------------------------------------------
(* What the loop does with it.                                             *)

\* mutant: a device's session is as good as another
ActiveDeviceMatches(cmd) == cmd.device = daemon.active.device

ActiveRouteMatches(cmd) == CommandRoute(cmd) = daemon.active

\* a device that is not there, or a loop that is not free, starts nothing
TargetRejected(cmd) ==
  /\ Becomes[cmd.kind] \in Targeted
  /\ cmd.kind \in Starting
  /\ cmd.device \notin daemon.connected \/ daemon.active # Idle

\* what a command is refused for before it is looked at, and how
Refused(cmd) ==
  CASE cmd.kind \in NotExposed -> "command_failed"
    [] cmd.kind \in Steering /\ ~ActiveRouteMatches(cmd) -> "command_failed"
    [] cmd.kind \in DOMAIN Becomes /\ TargetRejected(cmd) -> "sync_rejected"
    [] OTHER -> "none"

\* what the one who asked is told at once, whatever becomes of the command
ToldAtOnce(cmd) ==
  CASE Refused(cmd) # "none" -> <<[kind |-> Refused(cmd), of |-> cmd.kind]>>
    [] cmd.kind \in DOMAIN Confirmed -> <<Plain(Confirmed[cmd.kind])>>
    [] Becomes[cmd.kind] \in DOMAIN Replies -> <<Plain(Replies[Becomes[cmd.kind]])>>
    [] OTHER -> <<>>

\* an answer is written on under the route of the session that runs; a stop
\* waits for the relay to look at it
Owned(kind, prompt) ==
  [kind |-> kind, device |-> run.route.device, session |-> run.route.session,
   prompt |-> prompt]

Steered(d, cmd) ==
  /\ run' = IF run.phase = "none" THEN run
            ELSE IF cmd.kind = "prompt_decision"
            THEN [run EXCEPT !.in = Append(@, Owned(cmd.kind, cmd.prompt))]
            ELSE [run EXCEPT !.stops = @ \cup {cmd.kind}]
  /\ daemon' = [d EXCEPT !.pc = "publish"]
  /\ UNCHANGED client

\* a sync waits for the source; the first one to wait is kept
SyncAsked(d, cmd) ==
  /\ SourceAsked([d EXCEPT !.pc = "publish",
                    !.sync = IF @ = {} THEN {[device |-> cmd.device, asked |-> TRUE]}
                             ELSE @], client)
  /\ UNCHANGED run

\* a backfill or a replacement does not: it starts
BackfillAsked(d, cmd) == StartSync(d, cmd.device, TRUE, <<>>)

\* a search for the source, whatever waits for it
RetryAsked(d) ==
  /\ SourceAsked([d EXCEPT !.pc = "publish"], client)
  /\ UNCHANGED run

\* a scan asked for while anything runs is forgotten, and nobody is told
ScanAsked(d) ==
  /\ IF d.active = Idle
     THEN SourceAsked([d EXCEPT !.pc = "publish", !.scan = TRUE], client)
     ELSE daemon' = [d EXCEPT !.pc = "publish"] /\ UNCHANGED client
  /\ UNCHANGED run

HandleCommand ==
  /\ daemon.pc = "loop" /\ daemon.commands # <<>>
  /\ LET cmd == Head(daemon.commands)
         d == [daemon EXCEPT !.commands = Tail(@)] IN
     \/ /\ ToldAtOnce(cmd) # <<>>
        /\ daemon' = [d EXCEPT !.pc = "publish"]
        /\ client' = Replied(client, cmd.from, Head(ToldAtOnce(cmd)))
        /\ UNCHANGED run
     \/ /\ ToldAtOnce(cmd) = <<>>
        /\ CASE cmd.kind \in Steering -> Steered(d, cmd)
             [] cmd.kind = "trigger_sync" -> SyncAsked(d, cmd)
             [] cmd.kind = "backfill_rockbox" -> BackfillAsked(d, cmd)
             [] cmd.kind = "retry_source_mount" -> RetryAsked(d)
             [] cmd.kind = "scan_library" -> ScanAsked(d)
  /\ UNCHANGED past

-----------------------------------------------------------------------------
(* The relay: one task per session, between the worker's pipes and the     *)
(* channels of the daemon.                                                 *)

\* of the stops asked for, the first to be looked at is written, and no other
ForwardStop ==
  /\ \E kind \in run.stops :
       run' = [run EXCEPT !.stops = @ \ {kind}, !.stopped = TRUE,
                 !.in = IF run.stopped THEN @ ELSE Append(@, Owned(kind, 0))]
  /\ UNCHANGED <<daemon, client, past>>

\* the session is over for the relay: what is left of the worker is killed
Ends ==
  /\ run' = NoRun
  /\ daemon' = [daemon EXCEPT !.completed = Append(@, run.route.session)]

Notice == {"sync_paused", "sync_cancelled"}
Result == {"sync_finished", "library_scan_finished"}

\* what a worker says goes to every client, or ends the session when the
\* worker may not say it
Says(m, w) ==
  IF AdmittedFromWorker(m, run.route)
  THEN /\ run' = [w EXCEPT !.finished = m.kind \in Result]
       /\ client' = Told(client, <<m>>)
       /\ past' = [past EXCEPT !.abandoned =
            IF m.kind \in Notice THEN @ \cup {m.session} ELSE @ \ {m.session}]
       /\ UNCHANGED daemon
  ELSE Ends /\ UNCHANGED <<client, past>>

EndOfOutput ==
  /\ run.phase = "ended"
  /\ Ends
  /\ UNCHANGED <<client, past>>

-----------------------------------------------------------------------------
(* The worker, as its pipes show it.                                       *)

Scanning == run.route.device = NoDevice

WorkerStarts ==
  /\ run.phase = "starting"
  /\ IF PeerAccepted(Hello("worker", WorkerNeeds), "worker", WorkerNeeds)
     THEN run' = [run EXCEPT !.phase = "working"] /\ UNCHANGED daemon
     ELSE Ends
  /\ UNCHANGED <<client, past>>

\* the main thread asks and then hears nothing but the answer
WorkerAsks ==
  /\ run.phase = "working" /\ run.stop = "none" /\ ~Scanning
  /\ run.asked + run.reported < MaxSaid
  /\ Says(Prompted(run.route, run.asked + 1),
          [run EXCEPT !.phase = "waiting", !.asked = @ + 1, !.prompt = run.asked + 1])

\* the first command that waits: the answer, or one that is thrown away
WorkerHears ==
  /\ run.phase = "waiting" /\ run.in # <<>>
  /\ LET m == Head(run.in)
         answered == /\ WorkerTakes(m, run.route) /\ m.kind = "prompt_decision"
                     /\ m.prompt = run.prompt IN
     /\ run' = [run EXCEPT !.in = Tail(@),
                           !.phase = IF answered THEN "working" ELSE @]
     /\ past' = IF answered
                THEN [past EXCEPT !.resolved = @ \cup {<<run.route.session, run.prompt>>}]
                ELSE past
  /\ UNCHANGED <<daemon, client>>

WorkerReports ==
  /\ run.phase = "working" /\ ~Scanning
  /\ run.asked + run.reported < MaxSaid
  /\ \E kind \in Reports :
       Says(Routed(kind, run.route), [run EXCEPT !.reported = @ + 1])

\* between two pieces of work: the commands up to the first stop are taken
WorkerPolls ==
  /\ run.phase = "working" /\ run.stop = "none" /\ run.in # <<>> /\ ~Scanning
  /\ LET stops == {i \in DOMAIN run.in : run.in[i].kind # "prompt_decision"} IN
     IF stops = {}
     THEN run' = [run EXCEPT !.in = <<>>] /\ UNCHANGED <<daemon, client, past>>
     ELSE LET i == CHOOSE i \in stops : \A j \in stops : i <= j IN
          Says(Routed("finalizing", run.route),
               [run EXCEPT !.stop = run.in[i].kind,
                           !.in = SubSeq(@, i + 1, Len(@))])

\* the end, all that a scan says here: the notice of a stop, then the result and
\* the end of the process
WorkerNotices ==
  /\ run.phase = "working" /\ run.stop # "none"
  /\ Says(Routed(IF run.stop = "pause_sync" THEN "sync_paused" ELSE "sync_cancelled",
                 run.route),
          [run EXCEPT !.phase = "noticed"])

WorkerFinishes ==
  /\ run.phase = (IF run.stop = "none" THEN "working" ELSE "noticed")
  /\ Says(Routed(IF Scanning THEN "library_scan_finished" ELSE "sync_finished",
                 run.route),
          [run EXCEPT !.phase = "ended"])

WorkerDies ==
  /\ run.phase \in {"working", "waiting", "noticed"} /\ Fault
  /\ run' = [run EXCEPT !.phase = "ended"]
  /\ UNCHANGED <<daemon, client>>

-----------------------------------------------------------------------------

Next ==
  \/ Publish
  \/ \E found \in BOOLEAN : SourceResolved(found)
  \/ Complete
  \/ \E d \in Devices : Unplug(d)
  \/ \E d \in Devices, auto \in BOOLEAN : Plug(d, auto)
  \/ \E c \in Clients : Greet(c)
  \/ \E c \in Clients : Register(c)
  \/ \E c \in Clients : Replay(c)
  \/ \E c \in Clients : Receive(c)
  \/ \E c \in Clients : ReadReply(c)
  \/ \E c \in Clients, d \in Devices, kind \in Asked : AskFor(c, d, kind)
  \/ \E c \in Clients, d \in Devices : Answer(c, d)
  \/ HandleCommand
  \/ ForwardStop
  \/ EndOfOutput
  \/ WorkerStarts
  \/ WorkerAsks
  \/ WorkerHears
  \/ WorkerReports
  \/ WorkerPolls
  \/ WorkerNotices
  \/ WorkerFinishes
  \/ WorkerDies

Spec == Init /\ [][Next]_vars

-----------------------------------------------------------------------------
(* Properties.                                                             *)

\* A prompt a worker takes for answered was answered by a client that saw
\* that very prompt: the worker's prompt ids start again with every process,
\* the answer may have waited while sessions changed, and the relay writes
\* every answer on under the route of its own session (handle_protocol3_command,
\* active_route_matches, drive_child_with_stall_grace, await_prompt).
AnswersReachTheirPrompt == past.resolved \subseteq past.answers

\* A client with nothing left to read that lost no event believes what the
\* daemon knows: the session of each device, or none once its end was
\* relayed, and the source.  So the batch a client is given and the
\* subscription it is given with it leave no gap and overlap nowhere,
\* whatever is published while it replays, and no end of a session is missed.
\* A session that announced its stop and died is the exception: its route
\* waits for a result that never comes (handle_client, NewClient,
\* DaemonEventRouter.UpdateActiveSessions).
UpToDate(c) ==
  /\ client[c].conn = "live" /\ ~client[c].lagged
  /\ client[c].live = <<>> /\ client[c].replies = <<>>
  /\ daemon.pc = "loop"

SessionOf(d) == IF daemon.active.device = d THEN daemon.active.session ELSE NoSession

RouteAgrees(seen, d) ==
  \/ seen = SessionOf(d)
  \/ seen = NoSession /\ (run.finished \/ daemon.completed # <<>>)
  \/ SessionOf(d) = NoSession /\ seen \in past.abandoned

ClientsAgree ==
  \A c \in Clients : UpToDate(c) =>
    /\ \A d \in Devices : RouteAgrees(client[c].view.route[d], d)
    /\ client[c].view.source = daemon.source

\* A disconnect event removes only its matching serial: no client loses its
\* connection over it.
ClientsKept == past.cut = {}
=============================================================================
