---------------------------- MODULE Orchestrator ----------------------------
(***************************************************************************)
(* How the daemon drives one worker: the decoder of its event stream, the  *)
(* stop commands, the inactivity watchdog and the outcome of the session.  *)
(***************************************************************************)
EXTENDS Worker

VARIABLES
  driver      \* drive_child_with_stall_grace, a record

vars == <<workerVars, driver>>

Reasons == {"worker_protocol_error", "finalization_stalled", "finalization_interrupted",
            "too_many_failures", "reported_failure", "exited_without_success"}
Results == {"completed", "cancelled", "paused"} \cup Reasons

Life(state, reason, err) == [state |-> state, reason |-> reason, err |-> err]

NewDriver(kind) ==
  [pc |-> "running", life |-> Life("hello", "none", FALSE), scan |-> kind = "scan",
   open |-> Stops, disposition |-> "none", stops |-> 0, armed |-> FALSE, prompted |-> FALSE,
   cancelled |-> FALSE, paused |-> FALSE, finish |-> "none",
   total |-> 0, errored |-> 0, result |-> "none"]

Running == driver.pc = "running"

End(d, result) == [d EXCEPT !.pc = "ended", !.result = result]

(* force_kill: a process that is already gone stays as it was.             *)
Killed(w) == IF w.exit = "none" THEN [w EXCEPT !.exit = "terminated"] ELSE w

Kill(result) ==
  /\ driver' = End(driver, result)
  /\ worker' = Killed(worker)

(***************************************************************************)
(* The decoder                                                             *)
(***************************************************************************)
Illegal == Life("illegal", "none", FALSE)

Outcome(reason) == IF reason = "cancel" THEN "cancelled" ELSE "paused"

RunningNext(life, e) ==
  CASE e.name = "error" -> Life("running", "none", TRUE)
    [] e.name = "finalizing" -> Life("finalizing", e.arg, life.err)
    [] e.name \in {"cancelled", "paused"} -> Illegal
    [] e.name = "finished" -> IF e.arg \/ life.err THEN Life("finished", "none", FALSE) ELSE Illegal
    [] OTHER -> life

FinalizingNext(life, e) ==
  CASE e.name = Outcome(life.reason) -> Life("graceful", life.reason, life.err)
    [] e.name \in {"progress", "done", "skipped"} -> life
    [] e.name = "error" -> [life EXCEPT !.err = TRUE]
    [] e.name = "finished" /\ ~ e.arg /\ life.err -> Life("finished", "none", FALSE)
    [] OTHER -> Illegal

GracefulNext(e) ==
  IF e.name = "finished" /\ e.arg THEN Life("finished", "none", FALSE) ELSE Illegal

ScanNext(life, e) ==
  CASE life.state = "scan" /\ e.name = "scan_started" -> Life("scanning", "none", FALSE)
    [] life.state = "scanning" /\ e.name = "scan_progress" -> life
    [] life.state = "scanning" /\ e.name = "scan_finished" -> Life("finished", "none", FALSE)
    [] OTHER -> Illegal

Advance(scan, life, e) ==
  CASE life.state = "hello" ->
         IF e.name = "hello" THEN Life(IF scan THEN "scan" ELSE "running", "none", FALSE)
         ELSE Illegal
    [] life.state = "running" -> RunningNext(life, e)
    [] life.state = "finalizing" -> FinalizingNext(life, e)
    [] life.state = "graceful" -> GracefulNext(e)
    [] life.state \in {"scan", "scanning"} -> ScanNext(life, e)
    [] OTHER -> Illegal

(***************************************************************************)
(* Events                                                                  *)
(***************************************************************************)
(* A stop is written once, by whoever stops the session first.             *)
StopWith(d, disposition) ==
  [d EXCEPT !.disposition = disposition, !.armed = TRUE, !.stops = @ + 1]

ShouldBail(d) == d.total > 0 /\ d.errored > 0 /\ d.errored * 2 > d.total

Bails(d) == d.disposition = "none" /\ ShouldBail(d)

(* What an event changes, after it has been forwarded.                     *)
Observed(d, e) ==
  CASE e.name = "summary" -> [d EXCEPT !.total = e.arg]
    [] e.name = "skipped" ->
         LET c == [d EXCEPT !.errored = @ + 1] IN IF Bails(c) THEN StopWith(c, "bail") ELSE c
    [] e.name = "finalizing" ->
         [d EXCEPT !.armed = TRUE,
                   !.disposition = IF @ = "none" THEN e.arg ELSE @]
    [] e.name = "cancelled" -> [d EXCEPT !.cancelled = TRUE]
    [] e.name = "paused" -> [d EXCEPT !.paused = TRUE]
    [] e.name \in {"finished", "scan_finished"} -> [d EXCEPT !.finish = IF e.arg THEN "ok" ELSE "failed"]
    [] e.name = "prompt" -> [d EXCEPT !.prompted = TRUE]
    [] OTHER -> d

(* A command written after the worker is gone is lost.                     *)
Written(command) ==
  decisions' = IF Alive /\ ~ driver.scan THEN Append(decisions, command) ELSE decisions

Receive ==
  /\ Running /\ pipe # <<>>
  /\ pipe' = Tail(pipe)
  /\ LET life == Advance(driver.scan, driver.life, Head(pipe)) IN
     IF life = Illegal
     THEN Kill("worker_protocol_error") /\ UNCHANGED decisions
     ELSE /\ driver' = [Observed(driver, Head(pipe)) EXCEPT !.life = life]
          /\ IF driver'.stops > driver.stops THEN Written("cancel") ELSE UNCHANGED decisions
          /\ UNCHANGED worker

(***************************************************************************)
(* Control                                                                 *)
(***************************************************************************)
Honoured(d) == d.disposition = "none"

(* Cancel and pause each have a one-shot channel.  A scan is killed.       *)
Control(stop) ==
  /\ Running /\ stop \in driver.open
  /\ UNCHANGED pipe
  /\ LET d == [driver EXCEPT !.open = @ \ {stop}] IN
     IF ~ Honoured(driver) THEN driver' = d /\ UNCHANGED <<worker, decisions>>
     ELSE IF driver.scan
     THEN driver' = End(d, Outcome(stop)) /\ worker' = Killed(worker) /\ UNCHANGED decisions
     ELSE driver' = StopWith(d, stop) /\ Written(stop) /\ UNCHANGED worker

(* The sender went away without a request: the arm is disabled.            *)
Closed(stop) ==
  /\ Running /\ stop \in driver.open
  /\ driver' = [driver EXCEPT !.open = @ \ {stop}]
  /\ UNCHANGED workerVars

(* A client answers the prompt it was shown.                               *)
Relay(answer) ==
  /\ Running /\ driver.prompted
  /\ driver' = [driver EXCEPT !.prompted = FALSE]
  /\ Written(answer)
  /\ UNCHANGED <<worker, pipe>>

\* Mutant: the watchdog runs only while nothing but progress is expected.
Stalled_Running(d) == d.armed /\ d.life.state = "finalizing"

Stalled(d) == d.armed

(* 120 seconds without an event since the stop.                            *)
Expire ==
  /\ Running /\ Stalled(driver) /\ pipe = <<>> /\ Alive
  /\ Kill("finalization_stalled")
  /\ UNCHANGED <<pipe, decisions>>

\* Mutant: a successful finish is enough.
Classified_Finish(d, status) ==
  IF d.finish = "ok" THEN "completed" ELSE "reported_failure"

Classified(d, status) ==
  IF d.disposition # "none"
  THEN CASE d.disposition = "bail" -> "too_many_failures"
         [] d.disposition = "cancel" /\ d.cancelled -> "cancelled"
         [] d.disposition = "pause" /\ d.paused -> "paused"
         [] OTHER -> "finalization_interrupted"
  ELSE IF d.finish = "ok" /\ status = "success" THEN "completed"
  ELSE IF d.finish = "failed" THEN "reported_failure" ELSE "exited_without_success"

(* End of stream: the worker closed its output by exiting.                 *)
Eof ==
  /\ Running /\ pipe = <<>> /\ ~ Alive
  /\ driver' = End(driver, IF driver.life.state # "finished" THEN "worker_protocol_error"
                           ELSE Classified(driver, worker.exit))
  /\ UNCHANGED workerVars

Init ==
  /\ WorkerInit
  /\ driver = NewDriver(worker.kind)

Drive ==
  \/ Receive \/ Expire \/ Eof
  \/ \E stop \in Stops : Control(stop) \/ Closed(stop)
  \/ \E answer \in Answers : Relay(answer)

Next == Drive \/ (WorkerNext /\ UNCHANGED driver)

(* The daemon's tasks are scheduled by its runtime and its timer fires; the*)
(* worker owes nothing.                                                    *)
Fairness == WF_vars(Receive) /\ WF_vars(Expire) /\ WF_vars(Eof)

Spec == Init /\ [][Next]_vars /\ Fairness

(***************************************************************************)
(* Properties                                                              *)
(***************************************************************************)
(* Every variable has its type, and no more than Window transcoded files   *)
(* are ahead of the committer (pipeline.rs: the window bounds the disk the *)
(* temporary files take); one stop command at most is written, whoever asks*)
(* for it.                                                                 *)
TypeOK ==
  /\ worker.kind \in Kinds /\ worker.exit \in {"none", "success", "failure", "killed", "terminated"}
  /\ worker.stop \in Stops \cup {"none"} /\ worker.ok \in BOOLEAN
  /\ worker.journal \cup worker.files \cup worker.live \cup worker.skipped \subseteq Tracks
  /\ worker.running \cup worker.ready \cup worker.taken \subseteq worker.fed
  /\ Cardinality(worker.fed \ worker.taken) <= Window
  /\ decisions \in Seq(Stops \cup Answers)
  /\ driver.disposition \in Stops \cup {"none", "bail"} /\ driver.stops <= 1
  /\ driver.result \in Results \cup {"none"} /\ (driver.result = "none" <=> Running)

Adds == {t \in Tracks : Albums[t[1]][t[2]] = "add"}

(* What the daemon records of a session is true.  Completed did all of it: *)
(* the process succeeded, was never stopped, and every planned track is    *)
(* published or was reported as skipped, at most half of them.  Cancelled  *)
(* and paused are said of a drained worker only: it stopped for that       *)
(* reason, published what it had staged and ended by itself.  A scan holds *)
(* nothing and is killed.                                                  *)
OutcomeTruthful ==
  /\ driver.result = "completed" =>
       /\ worker.ok /\ worker.exit = "success" /\ worker.stop = "none" /\ worker.journal = {}
       /\ worker.planned > 0 => worker.live \cup worker.skipped = Tracks
       /\ 2 * Cardinality(worker.skipped) <= Cardinality(Tracks)
  /\ (driver.result \in {"cancelled", "paused"} /\ ~ driver.scan) =>
       /\ Outcome(worker.stop) = driver.result
       /\ worker.ok /\ worker.exit = "success" /\ worker.journal = {}

(* What is published has landed: the journal never names a staged file     *)
(* whose copy was stopped or failed.                                       *)
PublishedLanded == worker.live \cap Adds \subseteq worker.files

(* The stream of a worker that lives is one the decoder accepts, through   *)
(* every interleaving of errors, stops and skipped tracks: the protocol    *)
(* error is kept for a worker that died, or for a scan that had to ask.    *)
StreamAccepted ==
  driver.result = "worker_protocol_error" =>
    worker.exit = "killed" \/ (driver.scan /\ worker.exit = "failure")

(* A session that has been told to stop ends, even when its worker hangs:  *)
(* the watchdog sees to it.                                                *)
StopEnds == driver.disposition # "none" ~> ~ Running
=============================================================================
