------------------------------- MODULE Worker -------------------------------
(***************************************************************************)
(* The sync subprocess: preflight and its prompts, the album loop with the *)
(* ordered transcoder, the polls for a stop, publication and the terminal  *)
(* events.  It talks to the daemon through two pipes: `pipe` is its        *)
(* standard output, `decisions` what has been written to its input.        *)
(*                                                                         *)
(* What a publication does to the device is module Checkpoint; here it     *)
(* moves what the journal holds to `live` or fails.                        *)
(***************************************************************************)
EXTENDS Naturals, Sequences, FiniteSets, FiniteSetsExt

CONSTANTS
  Albums,        \* the action plan: per album, a sequence of "add", "metadata" and "remove"
  Window,        \* PIPELINE_WINDOW: jobs transcoded ahead of the committer
  Threads,       \* transcode_workers()
  PipeCapacity,  \* bound: events the output pipe holds
  Trouble        \* bound: a set of [prompts, faults], one of which a behaviour has

ASSUME WorkerAssumption ==
  /\ Albums \in Seq(Seq({"add", "metadata", "remove"}))
  /\ Window \in Nat \ {0} /\ Threads \in Nat \ {0} /\ PipeCapacity \in Nat \ {0}
  /\ Trouble \subseteq [prompts : Nat, faults : Nat]

VARIABLES
  worker,     \* the process, a record
  pipe,       \* events written to standard output and not read yet
  decisions   \* decisions received and not looked at yet

workerVars == <<worker, pipe, decisions>>

Kinds == {"sync", "replace", "backfill", "scan"}
Stops == {"cancel", "pause"}
Answers == {"retry", "abort"}
Tracks == UNION {{a} \X DOMAIN Albums[a] : a \in DOMAIN Albums}
Jobs(a) == {i \in DOMAIN Albums[a] : Albums[a][i] = "add"}
Event(name, arg) == [name |-> name, arg |-> arg]
Plain(name) == Event(name, 0)

NewWorker(kind, trouble) ==
  [kind |-> kind, pc |-> "hello", album |-> 0, track |-> 0,
   fed |-> {}, running |-> {}, ready |-> {}, failed |-> {}, taken |-> {},
   journal |-> {}, files |-> {}, live |-> {}, skipped |-> {}, planned |-> 0, erased |-> FALSE,
   stop |-> "none", ok |-> TRUE, exit |-> "none",
   prompts |-> trouble.prompts, faults |-> trouble.faults]

Room == Len(pipe) < PipeCapacity

Alive == worker.exit = "none"

At(pc) == Alive /\ worker.pc = pc

Emit(events) == pipe' = pipe \o events

(* One step of the main thread that looks at no decision. *)
Step(pc, next, events) ==
  /\ At(pc) /\ Room
  /\ worker' = next
  /\ Emit(events)
  /\ UNCHANGED decisions

(* An error leaves the run: it is reported, and main reports it again.  A  *)
(* scan reports it with its last event.                                    *)
Failed(w) == [w EXCEPT !.ok = FALSE, !.pc = "finish"]

Fail(pc) ==
  /\ worker.faults > 0
  /\ Step(pc, Failed([worker EXCEPT !.faults = @ - 1]),
          IF worker.kind = "scan" THEN <<>> ELSE <<Plain("error")>>)

(***************************************************************************)
(* Decisions                                                               *)
(***************************************************************************)
(* poll_stop takes what waits up to the first stop; the rest is discarded. *)
StopIndices == {i \in DOMAIN decisions : decisions[i] \in Stops}

Polled == IF StopIndices = {} THEN "none" ELSE decisions[Min(StopIndices)]

Drained ==
  IF StopIndices = {} THEN <<>>
  ELSE SubSeq(decisions, Min(StopIndices) + 1, Len(decisions))

Poll(pc) ==
  /\ At(pc) /\ Room
  /\ decisions' = Drained

(* What follows a poll: go on with w, or stop with w.                      *)
GoesOn(w, es) == Polled = "none" /\ worker' = w /\ Emit(es)

Stopped(w, es) ==
  /\ Polled # "none"
  /\ worker' = [w EXCEPT !.stop = Polled]
  /\ Emit(es)

(***************************************************************************)
(* Start and preflight                                                     *)
(***************************************************************************)
Hello == Step("hello", [worker EXCEPT !.pc = "preflight"],
              <<Plain("hello")>> \o (IF worker.kind = "scan" THEN <<Plain("scan_started")>> ELSE <<>>))

(* A missing tool, device or source is put to the user. *)
Ask ==
  /\ worker.kind # "scan" /\ worker.prompts > 0
  /\ Step("preflight", [worker EXCEPT !.pc = "prompt", !.prompts = @ - 1], <<Plain("prompt")>>)

(* await_prompt: an answer decides, anything else is ignored. *)
AwaitPrompt(decision, w) ==
  IF decision \notin Answers THEN w
  ELSE IF decision = "retry" THEN [w EXCEPT !.pc = "preflight"] ELSE Failed(w)

Answered ==
  /\ At("prompt") /\ Room /\ decisions # <<>>
  /\ worker' = AwaitPrompt(Head(decisions), worker)
  /\ decisions' = Tail(decisions)
  /\ Emit(IF worker'.ok THEN <<>> ELSE <<Plain("error")>>)

(* A scan has no prompts: one closes its event stream, and main fails.     *)
ScanAsks ==
  /\ worker.kind = "scan" /\ worker.prompts > 0
  /\ Step("preflight", [worker EXCEPT !.exit = "failure", !.prompts = @ - 1], <<>>)

(* The checks hold; the device lease is taken and the run starts.          *)
Passed ==
  Step("preflight", [worker EXCEPT !.pc = CASE worker.kind = "replace" -> "erase"
                                             [] worker.kind = "backfill" -> "refresh"
                                             [] worker.kind = "scan" -> "index"
                                             [] OTHER -> "plan"], <<>>)

PreflightFails == Fail("preflight")

(* replace_library: the empty checkpoint is published before the sync.     *)
Erase == Step("erase", [worker EXCEPT !.pc = "plan", !.erased = TRUE], <<Plain("progress")>>)

EraseFails == Fail("erase")

(* backfill_rockbox refreshes every managed track and looks at no decision.*)
Refresh ==
  Step("refresh",
       [worker EXCEPT !.pc = IF worker.track = Cardinality(Tracks) THEN "finish" ELSE "refresh",
                      !.track = IF @ = Cardinality(Tracks) THEN 0 ELSE @ + 1],
       <<IF worker.track = 0 THEN Event("summary", Cardinality(Tracks)) ELSE Plain("done")>>)

RefreshFails == Fail("refresh")

(* scan: the index is saved once, after every file was read.               *)
Index == Step("index", [worker EXCEPT !.pc = "finish"], <<Plain("scan_progress")>>)

IndexFails == Fail("index")

(* Recovery, planning and the summary.  Nothing to do ends the run here,   *)
(* with the decisions unread.                                              *)
Plan ==
  \/ Step("plan", [worker EXCEPT !.pc = "admit0", !.planned = Cardinality(Tracks)],
          <<Event("summary", Cardinality(Tracks))>>)
  \/ /\ worker.kind = "sync"
     /\ Step("plan", [worker EXCEPT !.pc = "finish"], <<Event("summary", 0)>>)

PlanFails == Fail("plan")

(***************************************************************************)
(* The album loop                                                          *)
(***************************************************************************)
Finalizing(stop) == Event("finalizing", stop)

(* The first poll, and the ones while retained artwork is prepared.        *)
PrepareArtwork ==
  /\ Poll("admit0")
  /\ \/ GoesOn([worker EXCEPT !.pc = "admit"], <<>>)
     \/ Stopped([worker EXCEPT !.pc = "finish"], <<Finalizing(Polled)>>)

PrepareArtworkFails == Fail("admit0")

Admit ==
  /\ Poll("admit")
  /\ \/ /\ worker.album = Len(Albums)
        /\ GoesOn([worker EXCEPT !.pc = "stopping"], <<>>)
     \/ /\ worker.album < Len(Albums)
        /\ GoesOn([worker EXCEPT !.album = @ + 1, !.track = 1, !.pc = "track", !.fed = {},
                                 !.ready = {}, !.failed = {}, !.taken = {}], <<>>)
     \/ Stopped([worker EXCEPT !.pc = "stopping"], <<>>)

Here == <<worker.album, worker.track>>
Action == Albums[worker.album][worker.track]

Track ==
  /\ At("track") /\ worker.track <= Len(Albums[worker.album])
  /\ Poll("track")
  /\ \/ GoesOn([worker EXCEPT !.pc = Action], <<Plain("progress")>>)
     \/ Stopped([worker EXCEPT !.pc = "join"], <<>>)

LastTrack ==
  /\ At("track") /\ worker.track > Len(Albums[worker.album])
  /\ Step("track", [worker EXCEPT !.pc = "join"], <<>>)

Next1(w) == [w EXCEPT !.track = @ + 1, !.pc = "track"]

(* A removal is a record in the journal.                                   *)
Remove == Step("remove", Next1([worker EXCEPT !.journal = @ \cup {Here}]), <<Plain("done")>>)

(* So is a metadata update, unless the source cannot be read.              *)
Metadata ==
  \/ Step("metadata", Next1([worker EXCEPT !.journal = @ \cup {Here}]), <<Plain("done")>>)
  \/ /\ worker.faults > 0
     /\ Step("metadata", Next1([worker EXCEPT !.faults = @ - 1, !.skipped = @ \cup {Here}]),
             <<Plain("error"), Plain("skipped")>>)

(* take(index) blocks until the result is there, and frees a permit.       *)
Take ==
  /\ At("add") /\ worker.track \in worker.ready
  /\ LET w == [worker EXCEPT !.ready = @ \ {worker.track}, !.taken = @ \cup {worker.track}] IN
     IF worker.track \in worker.failed
     THEN Step("add", Next1([w EXCEPT !.skipped = @ \cup {Here}]),
               <<Plain("error"), Plain("skipped")>>)
     ELSE Step("add", [w EXCEPT !.journal = @ \cup {Here}, !.pc = "copy"], <<>>)

\* Mutant: the record of a copy that was stopped stays in the journal.
Unrecorded_Keeps(w) == w

Unrecorded(w) == [w EXCEPT !.journal = @ \ {Here}]

(* The copy polls between chunks; a stop takes the record back.            *)
Copy ==
  /\ Poll("copy")
  /\ \/ GoesOn(Next1([worker EXCEPT !.files = @ \cup {Here}]), <<Plain("done")>>)
     \/ Stopped([Unrecorded(worker) EXCEPT !.pc = "join"], <<Plain("skipped")>>)

CopyFails == Fail("copy")

(***************************************************************************)
(* The ordered transcoder of the current album                             *)
(***************************************************************************)
(* A permit is taken for every job fed and given back by take.             *)
Permits == Window - Cardinality(worker.fed \ worker.taken)
Unfed == Jobs(worker.album) \ worker.fed

InAlbum == Alive /\ worker.album > 0 /\ worker.pc \in {"track", "add", "metadata", "remove", "copy", "join"}

\* Mutant: a job is fed without waiting for a permit.
Feed_NoPermit ==
  /\ InAlbum /\ Unfed # {}
  /\ worker' = [worker EXCEPT !.fed = @ \cup {Min(Unfed)}]
  /\ UNCHANGED <<pipe, decisions>>

Feed ==
  /\ InAlbum /\ Unfed # {} /\ Permits > 0
  /\ worker' = [worker EXCEPT !.fed = @ \cup {Min(Unfed)}]
  /\ UNCHANGED <<pipe, decisions>>

Queued == worker.fed \ (worker.running \cup worker.ready \cup worker.taken)

Transcode ==
  /\ InAlbum /\ Queued # {} /\ Cardinality(worker.running) < Threads
  /\ worker' = [worker EXCEPT !.running = @ \cup {Min(Queued)}]
  /\ UNCHANGED <<pipe, decisions>>

(* A failed or panicking transcode is a result like another.               *)
Transcoded(job) ==
  /\ Alive /\ job \in worker.running
  /\ \/ worker' = [worker EXCEPT !.running = @ \ {job}, !.ready = @ \cup {job}]
     \/ /\ worker.faults > 0
        /\ worker' = [worker EXCEPT !.running = @ \ {job}, !.ready = @ \cup {job},
                                    !.failed = @ \cup {job}, !.faults = @ - 1]
  /\ UNCHANGED <<pipe, decisions>>

(* finish joins the feeder and the workers; then the journal is saved.     *)
Joined == At("join") /\ Unfed = {} /\ Queued = {} /\ worker.running = {}

Join ==
  /\ Joined
  /\ Step("join", [worker EXCEPT !.pc = IF worker.stop = "none" THEN "boundary" ELSE "stopping"],
          <<>>)

SaveFails == Joined /\ Fail("join")

(***************************************************************************)
(* Publication and the end                                                 *)
(***************************************************************************)
Published(w) == [w EXCEPT !.live = @ \cup w.journal, !.journal = {}]

(* At an album boundary a checkpoint is published when one is due.         *)
Boundary ==
  \/ Step("boundary", [worker EXCEPT !.pc = "admit"], <<>>)
  \/ Step("boundary", [Published(worker) EXCEPT !.pc = "admit"], <<Plain("progress")>>)

BoundaryFails == Fail("boundary")

FinalStop(stop, w) == [w EXCEPT !.stop = stop, !.pc = "publish"]

(* The last poll; a stop is announced before what was staged is published. *)
Stopping ==
  /\ At("stopping") /\ Room
  /\ decisions' = IF worker.stop = "none" THEN Drained ELSE decisions
  /\ LET stop == IF worker.stop = "none" THEN Polled ELSE worker.stop IN
     /\ worker' = FinalStop(stop, worker)
     /\ Emit(IF stop = "none" THEN <<>> ELSE <<Finalizing(stop)>>)

Publish == Step("publish", [Published(worker) EXCEPT !.pc = "finish"], <<Plain("progress")>>)

PublishFails == Fail("publish")

\* Mutant: the graceful outcome is reported for every run that was told to stop.
Signal_Always(w) ==
  IF w.stop = "cancel" THEN <<Plain("cancelled")>>
  ELSE IF w.stop = "pause" THEN <<Plain("paused")>> ELSE <<>>

(* main: an error has no graceful outcome.                                 *)
Signal(w) ==
  IF ~ w.ok THEN <<Plain("error")>>
  ELSE IF w.stop = "cancel" THEN <<Plain("cancelled")>>
  ELSE IF w.stop = "pause" THEN <<Plain("paused")>> ELSE <<>>

Finish ==
  Step("finish",
       [worker EXCEPT !.pc = "done", !.exit = IF worker.ok THEN "success" ELSE "failure"],
       IF worker.kind = "scan"
       THEN <<Event("scan_finished", worker.ok)>>
       ELSE Signal(worker) \o <<Event("finished", worker.ok)>>)

(* The process dies.                                                       *)
Die ==
  /\ Alive /\ worker.faults > 0
  /\ worker' = [worker EXCEPT !.exit = "killed", !.faults = @ - 1]
  /\ UNCHANGED <<pipe, decisions>>

WorkerInit ==
  /\ \E kind \in Kinds, trouble \in Trouble : worker = NewWorker(kind, trouble)
  /\ pipe = <<>> /\ decisions = <<>>

Staging ==
  Admit \/ Track \/ LastTrack \/ Remove \/ Metadata \/ Take \/ Copy \/ CopyFails
  \/ Boundary \/ BoundaryFails \/ Stopping \/ Publish \/ PublishFails

Pipeline == Feed \/ Transcode \/ \E job \in worker.running : Transcoded(job)

WorkerNext ==
  \/ Hello \/ Ask \/ Answered \/ Passed \/ PreflightFails \/ Erase \/ EraseFails
  \/ Refresh \/ RefreshFails \/ Index \/ IndexFails \/ Plan \/ PlanFails \/ PrepareArtwork
  \/ PrepareArtworkFails \/ ScanAsks \/ SaveFails
  \/ Staging \/ Pipeline \/ Join \/ Finish \/ Die
=============================================================================
