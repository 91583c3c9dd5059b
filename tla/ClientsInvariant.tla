-------------------------- MODULE ClientsInvariant --------------------------
(***************************************************************************)
(* What holds between the loop, the worker's relay and the clients.  A     *)
(* client is behind the daemon by what is in its batch and its queue: the  *)
(* invariant says what it will believe once it has read them all, and that *)
(* this is what the daemon knows.                                          *)
(***************************************************************************)
EXTENDS Clients

-----------------------------------------------------------------------------
(* Values.                                                                 *)

Sources == {"unknown", "remounting", "available", "unavailable"}
Phases == {"none", "starting", "working", "waiting", "noticed", "ended"}
Routes == [device : Devices \cup {NoDevice}, session : Nat]

\* What the daemon and the workers broadcast, and what it answers.
Snapshots ==
  [connected : BOOLEAN, mounted : BOOLEAN, phase : {"disconnected", "syncing", "idle"},
   ready : BOOLEAN, profile : {"adopted"}, session : Nat]

Events ==
  [kind : {"status_update"}]
  \cup [kind : {"device_inventory_snapshot"}, revision : Nat, devices : [Devices -> Snapshots]]
  \cup [kind : {"source_availability"}, state : Sources, rooted : BOOLEAN]
  \cup [kind : (SyncEvents \ {"prompt"}) \cup {"sync_accepted"}, device : Devices, session : Nat]
  \cup [kind : {"prompt"}, device : Devices, session : Nat, prompt : Nat, options : Nat]
  \cup [kind : {"library_scan_finished"}, device : {NoDevice}, session : Nat]

Quiet ==
  {"command_failed", "sync_rejected", "inventory_subscription_changed", "daemon_shutdown_started",
   "history_update", "config_update", "library_update", "selection_preview", "playlists_update",
   "playlist_detail", "device_config_update", "device_preview", "resolved_tracks"}
Responses == [kind : Quiet] \cup [kind : Quiet, of : Asked]

Views ==
  [revision : Nat, route : [Devices -> Nat], awaiting : SUBSET Devices,
   shown : [session : Nat, prompt : Nat], answered : BOOLEAN, source : Sources]

Requested ==
  [kind : Asked, device : Devices, session : Nat, prompt : Nat, from : Clients \cup {Nobody}]
Orders ==
  [kind : Steering, device : Devices \cup {NoDevice}, session : Nat, prompt : Nat]
Waiting == [device : Devices, asked : BOOLEAN]

DaemonShape(d) ==
  /\ DOMAIN d = {"pc", "active", "next", "revision", "connected", "source", "trying",
                 "scan", "sync", "after", "commands", "completed"}
  /\ d.pc \in {"loop", "publish"}
  /\ d.active \in Routes
  /\ d.next \in Nat \ {0} /\ d.revision \in Nat
  /\ d.connected \subseteq Devices
  /\ d.source \in Sources
  /\ d.sync \subseteq Waiting /\ d.after \subseteq Waiting
  /\ d.commands \in Seq(Requested)
  /\ d.completed \in Seq(Nat)

RunShape(r) ==
  /\ DOMAIN r = DOMAIN NoRun
  /\ r.route \in Routes /\ r.phase \in Phases
  /\ r.prompt \in Nat /\ r.asked \in Nat
  /\ r.in \in Seq(Orders) /\ r.stops \subseteq Steering \ {"prompt_decision"}
  /\ r.finished \in BOOLEAN

PastShape ==
  DOMAIN past = {"answers", "resolved", "abandoned", "starts", "steers", "connects", "faults",
                 "cut"}

ClientShape(k) ==
  /\ DOMAIN k = DOMAIN NoClient
  /\ k.conn \in {"away", "greeted", "replaying", "live"}
  /\ k.batch \in Seq(Events) /\ k.live \in Seq(Events) /\ k.replies \in Seq(Responses)
  /\ k.lagged \in BOOLEAN /\ k.view \in Views
  /\ (k.batch # <<>>) <=> (k.conn = "replaying")
  /\ ~Subscribed(k) => k.live = <<>> /\ ~k.lagged /\ k.view = NoView

Shapes ==
  /\ DaemonShape(daemon) /\ RunShape(run) /\ PastShape
  /\ DOMAIN client = Clients /\ \A c \in Clients : ClientShape(client[c])

-----------------------------------------------------------------------------
(* The session and its worker: until the loop hears of its end, the active *)
(* session is the one that runs or the one that has completed.             *)
SessionInv ==
  /\ IF daemon.active = Idle
     THEN run.phase = "none" /\ daemon.completed = <<>>
     ELSE /\ daemon.active.session \in 1..(daemon.next - 1)
          /\ IF run.phase = "none" THEN Len(daemon.completed) = 1
             ELSE daemon.completed = <<>> /\ run.route = daemon.active
  /\ run.finished => run.phase = "ended"
  /\ past.abandoned \subseteq 1..(daemon.next - 1)
  /\ run.phase \in {"starting", "working", "waiting"} =>
       daemon.active.session \notin past.abandoned

-----------------------------------------------------------------------------
(* An answer on its way was given to the prompt it names.                  *)
Given(m) == m.kind = "prompt_decision" => <<m.session, m.prompt>> \in past.answers

AnswerInv ==
  /\ \A i \in DOMAIN daemon.commands : Given(daemon.commands[i])
  /\ \A i \in DOMAIN run.in : Given(run.in[i])
  /\ AnswersReachTheirPrompt

-----------------------------------------------------------------------------
(* What a client believes, and what it learns from an event it reads.      *)
Beliefs ==
  [revision : Nat, route : [Devices -> Nat], awaiting : SUBSET Devices, source : Sources]

Belief(v) ==
  [revision |-> v.revision, route |-> v.route, awaiting |-> v.awaiting, source |-> v.source]

LearnInventory(b, m) ==
  IF m.revision < b.revision THEN b
  ELSE [b EXCEPT
          !.revision = m.revision,
          !.route = [d \in Devices |->
             IF m.devices[d].session # NoSession THEN m.devices[d].session
             ELSE IF d \in b.awaiting THEN b.route[d] ELSE NoSession],
          !.awaiting = {d \in b.awaiting : m.devices[d].session = NoSession}]

LearnProgress(b, m) ==
  IF b.route[m.device] # m.session THEN b
  ELSE IF m.kind \in Notice THEN [b EXCEPT !.awaiting = @ \cup {m.device}]
  ELSE IF m.kind = "sync_finished"
  THEN [b EXCEPT !.awaiting = @ \ {m.device}, !.route[m.device] = NoSession]
  ELSE b

LearnForm(b, m) ==
  CASE m.kind = "device_inventory" -> LearnInventory(b, m)
    [] m.kind = "sync_accepted" -> [b EXCEPT !.route[m.device] = m.session]
    [] m.kind = "source_availability" -> [b EXCEPT !.source = m.state]
    [] m.kind \in SyncEvents -> LearnProgress(b, m)
    [] OTHER -> b

Learn(b, e) == IF e.kind \in Formless THEN b ELSE LearnForm(b, Written(e))

\* An event that does not end the connection.
Legal(e) == e.kind \in Formless \/ Serializes(Written(e))

\* Who believes b will believe w once the events of q are read.
Leads(b, q, w) ==
  /\ q \in Seq(Events)
  /\ \E t \in [0..Len(q) -> Beliefs] :
       /\ t[0] = b /\ t[Len(q)] = w
       /\ \A i \in 1..Len(q) : Legal(q[i]) /\ t[i] = Learn(t[i - 1], q[i])

\* What w says of a device is what the daemon knows, or will say with the
\* inventory it is about to publish.
KnowsDevice(w, d) ==
  /\ w.route[d] < daemon.next
  /\ w.route[d] = daemon.active.session => w.route[d] = 0 \/ d = daemon.active.device
  /\ d \in w.awaiting =>
       \/ w.route[d] \in past.abandoned
       \/ daemon.pc = "publish" /\ w.route[d] # 0 /\ w.route[d] = SessionOf(d)
  /\ daemon.pc = "loop" => RouteAgrees(w.route[d], d)

Knows(w) ==
  /\ w.revision <= daemon.revision
  /\ w.source = daemon.source
  /\ \A d \in Devices : KnowsDevice(w, d)

\* What is left to read tells all, or ends the connection.
Unread(k) == k.batch \o k.live
Doomed(q) == \E i \in 1..Len(q) : ~Legal(q[i])
Informed(k) ==
  \/ Doomed(Unread(k))
  \/ \E w \in Beliefs : Leads(Belief(k.view), Unread(k), w) /\ Knows(w)

BeliefInv == \A c \in Clients : Subscribed(client[c]) /\ ~client[c].lagged => Informed(client[c])

IInv == Shapes /\ SessionInv /\ AnswerInv /\ BeliefInv
=============================================================================
