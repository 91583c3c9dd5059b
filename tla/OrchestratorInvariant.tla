------------------------ MODULE OrchestratorInvariant ------------------------
(***************************************************************************)
(* What holds between a worker and the daemon that drives it.  The worker  *)
(* is ahead of its driver by the events in the pipe: the invariant says    *)
(* what the driver will have seen once it has read them all, and that this *)
(* is what the worker did.                                                 *)
(***************************************************************************)
EXTENDS Orchestrator

Pcs ==
  {"hello", "preflight", "prompt", "erase", "plan", "refresh", "index", "admit0", "admit",
   "track", "add", "metadata", "remove", "copy", "join", "boundary", "stopping", "publish",
   "finish", "done"}
Exits == {"none", "success", "failure", "killed", "terminated"}

\* The points before the first action, those at one, and those inside an album.
Early == {"hello", "preflight", "prompt", "erase", "plan", "refresh", "index", "admit0"}
Acting == {"add", "metadata", "remove", "copy"}
Inside == Acting \cup {"track", "join"}
Working == Inside \cup {"admit", "boundary", "stopping"}

-----------------------------------------------------------------------------
(* The worker.                                                               *)

Workers ==
  [kind : Kinds, pc : Pcs, album : Nat, track : Nat,
   fed : SUBSET Nat, running : SUBSET Nat, ready : SUBSET Nat, failed : SUBSET Nat,
   taken : SUBSET Nat,
   journal : SUBSET Tracks, files : SUBSET Tracks, live : SUBSET Tracks,
   skipped : SUBSET Tracks, planned : Nat, erased : BOOLEAN,
   stop : Stops \cup {"none"}, ok : BOOLEAN, exit : Exits, prompts : Nat, faults : Nat]

\* The transcoder has no more results than permits, all of jobs it was fed.
\* Between two albums it is idle.
Permitted(w) ==
  /\ w.running \cup w.ready \cup w.taken \subseteq w.fed
  /\ IsFiniteSet(w.fed)
  /\ Cardinality(w.fed \ w.taken) <= Window
  /\ w.pc \in Early \cup {"admit", "boundary"} => w.running = {}

Place(w) == <<w.album, w.track>>

\* Where the loop is.
Placed(w) ==
  /\ w.album <= Len(Albums)
  /\ w.pc \in Early => w.album = 0
  /\ w.pc \in Inside => w.album > 0 /\ w.track > 0
  /\ w.pc \in Acting => w.track <= Len(Albums[w.album])
  /\ w.pc \in {"metadata", "remove"} => Albums[w.album][w.track] = w.pc

\* A run that failed is over, and so is one that has told its outcome.  A scan
\* has points of its own.
Ended(w) ==
  /\ ~ w.ok => w.pc \in {"finish", "done"}
  /\ w.pc = "done" => w.exit = IF w.ok THEN "success" ELSE "failure"
  /\ w.exit = "success" => w.pc = "done"
  /\ w.exit = "failure" => w.pc = "done" \/ w.kind = "scan"
  /\ w.pc \in Early \cup Acting \cup {"track", "admit", "boundary"} => w.stop = "none"
  /\ w.kind = "scan" => w.pc \in {"hello", "preflight", "index", "finish", "done"} /\ w.stop = "none"
  /\ w.kind # "scan" => w.pc # "index"

\* What is published or about to be has landed, but for the copy that runs.
Landed(w) ==
  /\ w.live \cap Adds \subseteq w.files
  /\ w.ok => w.journal \cap Adds \subseteq w.files \cup (IF w.pc = "copy" THEN {Place(w)} ELSE {})
  /\ w.pc = "copy" => Place(w) \in w.journal
  /\ w.pc \in Early => w.journal = {} /\ w.skipped = {}
  /\ w.pc \in {"finish", "done"} /\ w.ok => w.journal = {}
  /\ w.pc \in Early \ {"admit0"} => w.planned = 0

\* The tracks done with: staged, published or reported.
Handled(w) == w.journal \cup w.live \cup w.skipped

\* While nothing stopped the run every action before the loop's place is done with.
Covered(w) ==
  w.ok /\ w.stop = "none" =>
    /\ w.pc \in Inside \cup {"admit", "boundary"} =>
         \A t \in Tracks : t[1] < w.album => t \in Handled(w)
    /\ w.pc \in {"join", "admit", "boundary"} => \A t \in Tracks : t[1] = w.album => t \in Handled(w)
    /\ w.pc \in Inside =>
         \A t \in Tracks : t[1] = w.album /\ t[2] < w.track => t \in Handled(w)
    /\ w.pc \in {"stopping", "publish"} => Tracks \subseteq Handled(w)
    /\ w.pc \in {"finish", "done"} /\ w.planned > 0 => Tracks \subseteq Handled(w)

Sound(w) ==
  w \in Workers /\ Permitted(w) /\ Placed(w) /\ Ended(w) /\ Landed(w) /\ Covered(w)

-----------------------------------------------------------------------------
(* The stream.                                                               *)

Lives ==
  [state : {"hello", "running", "finalizing", "graceful", "scan", "scanning", "finished",
            "illegal"},
   reason : Stops \cup {"none"}, err : BOOLEAN]

\* What a driver makes of the events it has read, whatever it was told meanwhile.
Views ==
  [life : Lives, total : Nat, errored : Nat, cancelled : BOOLEAN, paused : BOOLEAN,
   finish : {"none", "ok", "failed"}, marked : BOOLEAN]

Consumed(scan, v, e) ==
  [life |-> Advance(scan, v.life, e),
   total |-> IF e.name = "summary" THEN e.arg ELSE v.total,
   errored |-> IF e.name = "skipped" THEN v.errored + 1 ELSE v.errored,
   cancelled |-> v.cancelled \/ e.name = "cancelled",
   paused |-> v.paused \/ e.name = "paused",
   finish |-> IF e.name \in {"finished", "scan_finished"}
              THEN (IF e.arg THEN "ok" ELSE "failed") ELSE v.finish,
   marked |-> v.marked \/ e.name = "finalizing"]

\* An event the decoder takes, a summary being the first thing counted.
Legal(scan, v, e) ==
  /\ Consumed(scan, v, e) \in Views
  /\ Advance(scan, v.life, e) # Illegal
  /\ e.name = "summary" => v.errored = 0
  /\ e.name = "finalizing" => e.arg \in Stops

Names ==
  {"hello", "prompt", "error", "progress", "done", "skipped", "summary", "finalizing",
   "cancelled", "paused", "finished", "scan_started", "scan_progress", "scan_finished"}
Events == [name : Names, arg : Nat \cup BOOLEAN \cup Stops]

\* A driver that sees v will see u once it has read p.
Leads(scan, v, p, u) ==
  /\ p \in Seq(Events)
  /\ \E t \in [0..Len(p) -> Views] :
    /\ t[0] = v /\ t[Len(p)] = u
    /\ \A i \in 1..Len(p) : Legal(scan, t[i - 1], p[i]) /\ t[i] = Consumed(scan, t[i - 1], p[i])

\* What a driver sees that has read all the worker wrote.
Reading(w, u) ==
  /\ w.pc = "hello" => u.life.state = "hello"
  /\ w.pc \in (Early \cup Working) \ {"hello"} => u.life.state = "running"
  /\ w.pc \in {"publish", "finish"} /\ w.ok =>
       IF w.stop = "none" THEN u.life.state = "running"
       ELSE u.life.state = "finalizing" /\ u.life.reason = w.stop /\ u.marked
  /\ w.pc = "finish" /\ ~ w.ok => u.life.state \in {"running", "finalizing"} /\ u.life.err

Scanning(w, u) ==
  /\ w.pc = "hello" => u.life.state = "hello"
  /\ w.pc \in {"preflight", "index", "finish"} => u.life.state = "scanning"

Reflects(w, u) ==
  /\ u.cancelled => w.exit = "success" /\ w.stop = "cancel"
  /\ u.paused => w.exit = "success" /\ w.stop = "pause"
  /\ Cardinality(w.skipped) <= u.errored
  /\ w.skipped # {} => u.total = Cardinality(Tracks)
  /\ w.pc \in Working \cup {"admit0"} => u.total = Cardinality(Tracks)
  /\ w.pc \in Early => u.errored = 0
  /\ IF w.kind = "scan" THEN Scanning(w, u) ELSE Reading(w, u)
  /\ w.pc = "done" =>
       /\ u.life.state = "finished" /\ u.finish = IF w.ok THEN "ok" ELSE "failed"
       /\ w.ok /\ w.stop # "none" => u.marked

\* The driver's own part of what it sees.
Sees(d, v) ==
  /\ v \in Views
  /\ v.life = d.life /\ v.total = d.total /\ v.errored = d.errored
  /\ (v.cancelled <=> d.cancelled) /\ (v.paused <=> d.paused) /\ v.finish = d.finish
  /\ v.marked => d.disposition # "none"

Heard(d, w, p) ==
  \E v, u \in Views : Sees(d, v) /\ Leads(d.scan, v, p, u) /\ Reflects(w, u)

StreamInv == Running => Heard(driver, worker, pipe)

-----------------------------------------------------------------------------
(* The driver.                                                               *)

Drivers ==
  [pc : {"running", "ended"}, life : Lives, scan : BOOLEAN, open : SUBSET Stops,
   disposition : Stops \cup {"none", "bail"}, stops : Nat, armed : BOOLEAN,
   prompted : BOOLEAN, cancelled : BOOLEAN, paused : BOOLEAN,
   finish : {"none", "ok", "failed"}, total : Nat, errored : Nat,
   result : Results \cup {"none"}]

\* One stop at most is written, and a run with too many failures has one.
Steady(d) ==
  /\ d \in Drivers
  /\ d.stops <= 1
  /\ d.disposition = "none" => d.stops = 0 /\ ~ ShouldBail(d)
  /\ (d.result = "none") <=> (d.pc = "running")

\* A session has ended when its worker is gone, and only the daemon terminates one.
DriverInv ==
  /\ Steady(driver)
  /\ driver.scan <=> (worker.kind = "scan")
  /\ Running => worker.exit # "terminated"
  /\ ~ Running => ~ Alive

IInv ==
  /\ Sound(worker) /\ DriverInv /\ StreamInv
  /\ decisions \in Seq(Stops \cup Answers)
  /\ OutcomeTruthful /\ StreamAccepted
=============================================================================
