------------------------- MODULE RuntimeInvariant -------------------------
(***************************************************************************)
(* The inductive invariant behind the safety properties of Runtime, in two *)
(* layers: what every transformer of the loop's record keeps (Coherent),   *)
(* and what holds between two arms of the loop (Steady and the rest).      *)
(***************************************************************************)
EXTENDS Runtime

Sessions ==
  [id : Nat, kind : {"none", "sync", "scan"}, dev : Devices \cup {NoDevice}, gen : Nat]
Syncs == [dev : Devices \cup {NoDevice}, gen : Nat, req : Requests \cup {NoRequest}]
States == {"unavailable", "remounting", "available", "auth_required"}
Recoveries ==
  [scan : BOOLEAN, sync : Syncs, attempt : Nat, ui : BOOLEAN, escalate : BOOLEAN,
   next : Nat, retries : Seq(Requests), deferred : Syncs, state : States, root : Nat]
Attempts == [id : Nat, root : Nat]
Replies == {"accepted", "rejected", "failed", "acknowledged"}
Loops ==
  [session : Sessions, controls : SUBSET Controls, workers : SUBSET Nat, lastId : Nat,
   recovery : Recoveries, attempts : SUBSET Attempts, answers : [Requests -> Seq(Replies)],
   unscanned : BOOLEAN]
Spendings ==
  [requests : SUBSET Requests, mounts : Nat, ticks : Nat, faults : Nat]

(* The types of everything beside the loop's record. *)
Typed ==
  /\ connection \in [Devices -> [gen : Nat, name : Nat]]
  /\ known \subseteq Devices /\ configured \subseteq Devices
  /\ remembered \in [Devices -> Nat]
  /\ readers \subseteq [dev : Devices, gen : Nat]
  /\ detached \in [id : Nat, saved : BOOLEAN]
  /\ terminal \subseteq [id : Nat, dev : Devices, outcome : Outcomes]
  /\ saved \in Seq(Nat)
  /\ retained \in [Devices -> Nat]
  /\ source \in Nat /\ watched \in Nat /\ deadline \in BOOLEAN
  /\ hostPending \in {"none", "library", "other"}
  /\ phase \in {"running", "draining", "stopped", "panicked"}
  /\ generation \in Nat
  /\ left \in Spendings

(***************************************************************************)
(* What every transformer keeps                                            *)
(***************************************************************************)
(* One session is admitted, under the last identifier handed out, and its  *)
(* worker is the one that runs.                                            *)
Admission(l) ==
  \/ /\ l.session = NoSession /\ l.workers = {}
  \/ /\ l.session.kind \in {"sync", "scan"} /\ l.session.id = l.lastId
     /\ l.session.kind = "sync" => l.session.dev \in Devices
     /\ l.lastId # 0 /\ l.workers = {l.lastId}

SyncNamed(sync) == sync = NoSync \/ sync.dev \in Devices

(* A mount attempt has its own number; the current one is for the          *)
(* configured location, and there is none while the source is available.   *)
Attempting(l, from) ==
  /\ SyncNamed(l.recovery.sync) /\ SyncNamed(l.recovery.deferred)
  /\ l.recovery.deferred # NoSync => l.recovery.sync = NoSync
  /\ l.recovery.attempt < l.recovery.next
  /\ \A a \in l.attempts : a.id # 0 /\ a.id < l.recovery.next
  /\ \A a \in l.attempts : a.id = l.recovery.attempt /\ from # 0 => a.root = from
  /\ l.recovery.state = "available" => l.recovery.attempt = 0
  /\ l.recovery.state = "available" /\ from # 0 => l.recovery.root = from

Queues(l, r) == r = l.recovery.sync.req \/ r = l.recovery.deferred.req

Waits(l, r) == Queues(l, r) \/ r \in Range(l.recovery.retries)

Answered(l, r) == l.answers[r] # <<>>

(* A request of which nobody has heard. *)
Fresh(l, r) == ~ Answered(l, r) /\ ~ Waits(l, r)

(* Each request is in one place: with its client, in the queue, deferred,  *)
(* among the retries, or answered once.                                    *)
Answering(l, unasked) ==
  \A r \in Requests :
    /\ Len(l.answers[r]) <= 1
    /\ Waits(l, r) => ~ Answered(l, r)
    /\ r \in unasked => Fresh(l, r)
    /\ ~ (l.recovery.sync.req = r /\ l.recovery.deferred.req = r)
    /\ ~ (Queues(l, r) /\ r \in Range(l.recovery.retries))

Coherent(l, from, unasked) ==
  l \in Loops /\ Admission(l) /\ Attempting(l, from) /\ Answering(l, unasked)

(***************************************************************************)
(* What holds between two arms of the loop                                 *)
(***************************************************************************)
(* A retry waits for an attempt, a deferred sync for the scan, and nothing *)
(* waits when the loop is idle and the source available.                   *)
Steady(l) ==
  /\ l.recovery.attempt = 0 => l.recovery.retries = <<>>
  /\ l.recovery.deferred # NoSync => l.session.kind = "scan"
  /\ Idle(l) /\ l.recovery.state = "available" => ~ l.recovery.scan /\ l.recovery.sync = NoSync

(* The entry of a session that runs is written when its device went away,  *)
(* and only then; the intent remembers whether the file has it.            *)
Settling ==
  /\ detached.id # 0 =>
       /\ loop.session.kind = "sync" /\ detached.id = loop.session.id
       /\ Entry(loop.session, "device_detached") \in terminal
       /\ detached.saved <=> detached.id \in Range(saved)
  /\ \A e \in terminal :
       /\ e.id # 0 /\ e.id <= loop.lastId
       /\ ~ Idle(loop) /\ e.id = loop.session.id
            => detached.id = e.id /\ e = Entry(loop.session, "device_detached")
  /\ \A i \in DOMAIN saved : \E e \in terminal : e.id = saved[i]

(* A device's name comes from no later connection than the one it has.     *)
Naming ==
  /\ \A d \in Devices :
       /\ connection[d].gen <= generation /\ remembered[d] <= generation
       /\ connection[d].gen # 0 => remembered[d] <= connection[d].gen
  /\ \A reader \in readers : reader.gen # 0 /\ reader.gen <= generation

IInv ==
  /\ Typed
  /\ Coherent(loop, source, left.requests)
  /\ Steady(loop)
  /\ phase # "panicked" => Settling
  /\ Naming
  /\ HistoryKept
  /\ ChangeNotLost

(***************************************************************************)
(* What a transformer may do, from l to m                                  *)
(***************************************************************************)
(* Nobody loses an answer. *)
Remembers(l, m) == \A r \in Requests : Answered(l, r) => Answered(m, r)

(* Only answers are added. *)
OnlyAnswers(l, m) ==
  /\ m.recovery = l.recovery /\ m.session = l.session /\ m.lastId = l.lastId
  /\ m.unscanned = l.unscanned
  /\ Remembers(l, m)

(* The session and what waits stay, but for the retries. *)
SameWork(l, m) ==
  /\ m.session = l.session /\ m.lastId = l.lastId /\ m.unscanned = l.unscanned
  /\ m.recovery.scan = l.recovery.scan /\ m.recovery.sync = l.recovery.sync
  /\ m.recovery.deferred = l.recovery.deferred
  /\ Remembers(l, m)

Launches(l, m) ==
  /\ Idle(l) /\ ~ Idle(m)
  /\ m.lastId = l.lastId + 1 /\ m.session.id = m.lastId

(* A worker is started or not, whatever waits. *)
Starts(l, m) ==
  /\ (m.session = l.session /\ m.lastId = l.lastId) \/ Launches(l, m)
  /\ m.recovery = l.recovery /\ m.unscanned = l.unscanned
  /\ Remembers(l, m)

(* The session stays or one is launched; no answer is taken back; what     *)
(* leaves the queue is answered; and a change noticed in the library is    *)
(* not forgotten while its scan is dropped.                                *)
Advances(l, m, from) ==
  /\ (m.session = l.session /\ m.lastId = l.lastId) \/ Launches(l, m)
  /\ Remembers(l, m)
  /\ \A r \in Requests : Queues(l, r) /\ ~ Queues(m, r) => from = 0 \/ Answered(m, r)
  /\ m.unscanned /\ from # 0 => l.unscanned /\ (l.recovery.scan => m.recovery.scan)

(***************************************************************************)
(* What every step of the daemon keeps                                     *)
(***************************************************************************)
Open == phase \in {"running", "draining"}
Live == IF Open /\ loop.session.kind = "sync" THEN loop.session.id ELSE 0
Ended == {[id |-> e.id, outcome |-> e.outcome] : e \in terminal}

LedgerStep == Ledger!Next \/ UNCHANGED <<Open, loop.lastId, Live, Ended>>

QueueAnswered ==
  \A r \in Requests : Queues(loop, r) /\ ~ Queues(loop', r) /\ phase' = "running"
                       => source' = 0 \/ Answered(loop', r)

NamesKept == \A d \in Devices : remembered'[d] >= remembered[d]

Kept == IInv' /\ QueueAnswered /\ LedgerStep
============================================================================
