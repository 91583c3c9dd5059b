-------------------- MODULE OrchestratorProofs --------------------
(***************************************************************************)
(* Proofs about a worker and its driver, for every plan, window, number of *)
(* threads, pipe and mix of faults and prompts.                            *)
(*                                                                         *)
(* Every transition of the worker has two lemmas: it keeps the worker      *)
(* sound (...Sound), and whoever reads what it writes sees what it did     *)
(* (...Heard).  They meet in one lemma per action (...Kept).  The driver's *)
(* actions follow, and the theorems.                                       *)
(***************************************************************************)
EXTENDS OrchestratorInvariant, FiniteSetTheorems, WellFoundedInduction, SequenceTheorems, TLAPS

(* A nonempty set of naturals has a least member, which Min picks.         *)
LEMMA MinOf ==
  ASSUME NEW S, S \subseteq Nat, S # {}
  PROVE  Min(S) \in S /\ \A n \in S : Min(S) <= n
<1> DEFINE R == OpToRel(<, Nat)
<1>1. IsWellFoundedOn(R, Nat) BY NatLessThanWellFounded
<1> HIDE DEF R
<1>2. PICK m \in S : \A n \in S : ~ (<<n, m>> \in R) BY <1>1, WFMin
<1>3. ASSUME NEW n \in S PROVE m <= n
  <2>1. ~ (<<n, m>> \in R) BY <1>2
  <2>2. n \in Nat /\ m \in Nat OBVIOUS
  <2>3. n < m => <<n, m>> \in R BY <2>2 DEF R, OpToRel
  <2> QED BY <2>1, <2>2, <2>3
<1> QED BY <1>3 DEF Min

(* A plan has finitely many tracks.                                        *)
LEMMA TracksFinite == IsFiniteSet(Tracks) /\ Cardinality(Tracks) \in Nat
<1> DEFINE T(a) == {a} \X DOMAIN Albums[a]
<1>1. DOMAIN Albums = 1..Len(Albums) /\ Len(Albums) \in Nat
  BY WorkerAssumption
<1>2. IsFiniteSet(DOMAIN Albums) BY <1>1, FS_Interval, SMT
<1>3. \A a \in DOMAIN Albums : IsFiniteSet(T(a))
  <2> TAKE a \in DOMAIN Albums
  <2>1. Albums[a] \in Seq({"add", "metadata", "remove"}) BY WorkerAssumption, <1>1
  <2>2. DOMAIN Albums[a] = 1..Len(Albums[a]) /\ Len(Albums[a]) \in Nat BY <2>1
  <2>3. IsFiniteSet(DOMAIN Albums[a]) BY <2>2, FS_Interval, SMT
  <2>4. IsFiniteSet({a}) BY FS_Singleton
  <2> QED BY <2>3, <2>4, FS_Product
<1>4. IsFiniteSet({T(a) : a \in DOMAIN Albums})
  <2> DEFINE f == [a \in DOMAIN Albums |-> T(a)]
  <2> DEFINE S == {T(a) : a \in DOMAIN Albums}
  <2>1. f \in Surjection(DOMAIN Albums, S) BY DEF Surjection
  <2> HIDE DEF f, S
  <2>2. IsFiniteSet(S) BY <2>1, <1>2, FS_Surjection
  <2> QED BY <2>2 DEF S
<1>5. \A S \in {T(a) : a \in DOMAIN Albums} : IsFiniteSet(S) BY <1>3
<1>6. IsFiniteSet(UNION {T(a) : a \in DOMAIN Albums}) BY <1>4, <1>5, FS_UNION
<1>7. IsFiniteSet(Tracks) BY <1>6 DEF Tracks
<1> QED BY <1>7, FS_CardinalityType

(* What a track is.                                                        *)
LEMMA TrackShape ==
  /\ Len(Albums) \in Nat
  /\ \A a \in 1..Len(Albums) :
       /\ Len(Albums[a]) \in Nat
       /\ \A i \in 1..Len(Albums[a]) : <<a, i>> \in Tracks /\ Albums[a][i] \in {"add", "metadata", "remove"}
  /\ \A t \in Tracks :
       /\ t = <<t[1], t[2]>>
       /\ t[1] \in 1..Len(Albums) /\ t[2] \in 1..Len(Albums[t[1]])
<1>1. DOMAIN Albums = 1..Len(Albums) /\ Len(Albums) \in Nat
  BY WorkerAssumption
<1>2. \A a \in 1..Len(Albums) : Albums[a] \in Seq({"add", "metadata", "remove"})
  BY WorkerAssumption, <1>1
<1>3. \A a \in 1..Len(Albums) : DOMAIN Albums[a] = 1..Len(Albums[a]) /\ Len(Albums[a]) \in Nat
  BY <1>2
<1>4. \A a \in 1..Len(Albums) : \A i \in 1..Len(Albums[a]) : <<a, i>> \in Tracks
  BY <1>1, <1>3 DEF Tracks
<1>5. \A a \in 1..Len(Albums) : \A i \in 1..Len(Albums[a]) : Albums[a][i] \in {"add", "metadata", "remove"}
  BY <1>2, <1>3
<1>6. ASSUME NEW t \in Tracks
      PROVE t = <<t[1], t[2]>> /\ t[1] \in 1..Len(Albums) /\ t[2] \in 1..Len(Albums[t[1]])
  <2>1. PICK a \in DOMAIN Albums : t \in {a} \X DOMAIN Albums[a] BY DEF Tracks
  <2>2. t = <<t[1], t[2]>> /\ t[1] = a /\ t[2] \in DOMAIN Albums[a] BY <2>1
  <2> QED BY <2>1, <2>2, <1>1, <1>3
<1> QED BY <1>1, <1>3, <1>4, <1>5, <1>6

(* A poll finds a stop, if there is one, and leaves decisions.             *)
LEMMA PollFinds ==
  ASSUME decisions \in Seq(Stops \cup Answers)
  PROVE  Polled \in Stops \cup {"none"} /\ Drained \in Seq(Stops \cup Answers)
<1> DEFINE D == Stops \cup Answers
<1>1. DOMAIN decisions = 1..Len(decisions) /\ Len(decisions) \in Nat OBVIOUS
<1>2. CASE StopIndices = {} BY <1>2 DEF Polled, Drained
<1>3. CASE StopIndices # {}
  <2>1. StopIndices \subseteq Nat BY <1>1 DEF StopIndices
  <2>2. Min(StopIndices) \in StopIndices BY <2>1, <1>3, MinOf
  <2>3. Polled \in Stops BY <2>2, <1>3 DEF Polled, StopIndices
  <2>4. Min(StopIndices) \in 1..Len(decisions) BY <2>2, <1>1 DEF StopIndices
  <2>5. SubSeq(decisions, Min(StopIndices) + 1, Len(decisions)) \in Seq(D)
    <3> DEFINE m == Min(StopIndices)
    <3> HIDE DEF m
    <3>1. m \in 1..Len(decisions) BY <2>4 DEF m
    <3>2. decisions \in Seq(D) OBVIOUS
    <3> HIDE DEF D
    <3>3. SubSeq(decisions, m + 1, Len(decisions)) \in Seq(D) BY <3>1, <3>2, <1>1
    <3> QED BY <3>3 DEF m
  <2> QED BY <2>3, <2>5, <1>3 DEF Drained
<1> QED BY <1>2, <1>3

-----------------------------------------------------------------------------
(* Reading nothing leaves a view as it is.                                 *)
LEMMA LeadsEmpty ==
  ASSUME NEW s, NEW v, NEW u
  PROVE  /\ v \in Views => Leads(s, v, <<>>, v)
         /\ Leads(s, v, <<>>, u) => v = u
<1>1. ASSUME v \in Views PROVE Leads(s, v, <<>>, v)
  <2> DEFINE t == [i \in 0..0 |-> v]
  <2>1. t \in [0..Len(<<>>) -> Views] /\ t[0] = v /\ t[Len(<<>>)] = v BY <1>1
  <2>2. 1..Len(<<>>) = {} OBVIOUS
  <2>3. <<>> \in Seq(Events) OBVIOUS
  <2> QED BY <2>1, <2>2, <2>3 DEF Leads
<1>2. Leads(s, v, <<>>, u) => v = u BY DEF Leads
<1> QED BY <1>1, <1>2

(* Writing one more event leads to the view that has consumed it.          *)
LEMMA LeadsEmit ==
  ASSUME NEW s, NEW v, NEW p, NEW u, NEW e \in Events, Leads(s, v, p, u), Legal(s, u, e)
  PROVE  /\ Leads(s, v, p \o <<e>>, Consumed(s, u, e))
         /\ Consumed(s, u, e) \in Views
<1> DEFINE n == Len(p)
<1> DEFINE c == Consumed(s, u, e)
<1>1. PICK t \in [0..Len(p) -> Views] :
        /\ t[0] = v /\ t[Len(p)] = u
        /\ \A i \in 1..Len(p) : Legal(s, t[i - 1], p[i]) /\ t[i] = Consumed(s, t[i - 1], p[i])
  BY DEF Leads
<1>2. p \in Seq(Events) BY DEF Leads
<1>3. n \in Nat BY <1>2
<1>4. p \o <<e>> \in Seq(Events) /\ Len(p \o <<e>>) = n + 1
      /\ (p \o <<e>>)[n + 1] = e /\ \A i \in 1..n : (p \o <<e>>)[i] = p[i]
  BY <1>2, <1>3
<1>5. c \in Views BY DEF Legal
<1> DEFINE q == [i \in 0..(n + 1) |-> IF i = n + 1 THEN c ELSE t[i]]
<1>6. q \in [0..(n + 1) -> Views]
  <2> HIDE DEF c
  <2> QED BY <1>1, <1>3, <1>5
<1>7. q[0] = v /\ q[n + 1] = c BY <1>1, <1>3
<1>8. ASSUME NEW i \in 1..(n + 1)
      PROVE Legal(s, q[i - 1], (p \o <<e>>)[i]) /\ q[i] = Consumed(s, q[i - 1], (p \o <<e>>)[i])
  <2>1. CASE i = n + 1
    <3>1. q[i - 1] = u /\ q[i] = c BY <2>1, <1>1, <1>3
    <3> QED BY <3>1, <1>4, <2>1
  <2>2. CASE i # n + 1
    <3>1. i \in 1..n /\ i - 1 \in 0..n /\ i - 1 # n + 1 /\ i - 1 \in 0..(n + 1) /\ i \in 0..(n + 1)
      BY <2>2, <1>3
    <3>2. q[i - 1] = t[i - 1] /\ q[i] = t[i] BY <3>1, <2>2
    <3> QED BY <3>1, <3>2, <1>1, <1>4
  <2> QED BY <2>1, <2>2
<1> HIDE DEF q, c
<1>9. Leads(s, v, p \o <<e>>, c)
  BY <1>4, <1>6, <1>7, <1>8 DEF Leads
<1> QED BY <1>5, <1>9 DEF c

(* Reading the first event consumes it.                                    *)
LEMMA LeadsRead ==
  ASSUME NEW s, NEW v, NEW p, NEW u, Leads(s, v, p, u), p # <<>>
  PROVE  /\ v \in Views /\ u \in Views /\ Legal(s, v, Head(p)) /\ Head(p) \in Events
         /\ Leads(s, Consumed(s, v, Head(p)), Tail(p), u)
<1> DEFINE n == Len(p)
<1>1. PICK t \in [0..Len(p) -> Views] :
        /\ t[0] = v /\ t[Len(p)] = u
        /\ \A i \in 1..Len(p) : Legal(s, t[i - 1], p[i]) /\ t[i] = Consumed(s, t[i - 1], p[i])
  BY DEF Leads
<1>2. p \in Seq(Events) BY DEF Leads
<1>3. n \in Nat /\ n > 0 BY <1>2
<1>4. Head(p) = p[1] /\ p[1] \in Events /\ Tail(p) \in Seq(Events) /\ Len(Tail(p)) = n - 1
      /\ \A i \in 1..(n - 1) : Tail(p)[i] = p[i + 1]
  BY <1>2, <1>3
<1>5. Legal(s, v, p[1]) /\ t[1] = Consumed(s, v, p[1])
  <2>1. 1 \in 1..n /\ 1 - 1 = 0 BY <1>3
  <2> QED BY <2>1, <1>1
<1> DEFINE q == [i \in 0..(n - 1) |-> t[i + 1]]
<1>6. q \in [0..(n - 1) -> Views] /\ q[0] = t[1] /\ q[n - 1] = u BY <1>1, <1>3
<1>7. ASSUME NEW i \in 1..(n - 1)
      PROVE Legal(s, q[i - 1], Tail(p)[i]) /\ q[i] = Consumed(s, q[i - 1], Tail(p)[i])
  <2>1. i + 1 \in 1..n /\ i - 1 \in 0..(n - 1) /\ i \in 0..(n - 1) /\ (i - 1) + 1 = (i + 1) - 1
    BY <1>3
  <2>2. q[i - 1] = t[(i + 1) - 1] /\ q[i] = t[i + 1] BY <2>1
  <2> QED BY <2>1, <2>2, <1>1, <1>4
<1> HIDE DEF q
<1>8. Leads(s, t[1], Tail(p), u)
  BY <1>4, <1>6, <1>7 DEF Leads
<1>9. v \in Views /\ u \in Views BY <1>1, <1>3
<1> QED BY <1>4, <1>5, <1>8, <1>9

-----------------------------------------------------------------------------
(* The worker.                                                               *)

(* The fields of a worker.                                                 *)
LEMMA Fields ==
  ASSUME NEW w \in Workers
  PROVE  /\ w.kind \in Kinds /\ w.pc \in Pcs /\ w.album \in Nat /\ w.track \in Nat
         /\ w.fed \subseteq Nat /\ w.running \subseteq Nat /\ w.ready \subseteq Nat
         /\ w.failed \subseteq Nat /\ w.taken \subseteq Nat
         /\ w.journal \subseteq Tracks /\ w.files \subseteq Tracks /\ w.live \subseteq Tracks
         /\ w.skipped \subseteq Tracks /\ w.planned \in Nat /\ w.erased \in BOOLEAN
         /\ w.stop \in Stops \cup {"none"} /\ w.ok \in BOOLEAN /\ w.exit \in Exits
         /\ w.prompts \in Nat /\ w.faults \in Nat
BY DEF Workers

(* At an action the loop is at a track.                                    *)
LEMMA AtTrack ==
  ASSUME Sound(worker), worker.pc \in Inside
  PROVE  /\ worker.album \in 1..Len(Albums) /\ worker.track \in Nat /\ worker.track > 0
         /\ worker.track <= Len(Albums[worker.album]) =>
              Here \in Tracks /\ Albums[worker.album][worker.track] \in {"add", "metadata", "remove"}
         /\ worker.pc \in Acting => worker.track <= Len(Albums[worker.album])
<1>1. worker.album \in 1..Len(Albums) /\ worker.track \in Nat /\ worker.track > 0
  BY Fields, TrackShape DEF Sound, Placed
<1>2. worker.pc \in Acting => worker.track <= Len(Albums[worker.album]) BY DEF Sound, Placed
<1>3. worker.track <= Len(Albums[worker.album]) => worker.track \in 1..Len(Albums[worker.album])
  BY <1>1, TrackShape
<1> QED BY <1>1, <1>2, <1>3, TrackShape DEF Here

(* What a step can make of the worker.                                       *)
Moved(p) == [worker EXCEPT !.pc = p]
Asked == [worker EXCEPT !.pc = "prompt", !.prompts = @ - 1]
Retried == [worker EXCEPT !.pc = "preflight"]
Aborted == [worker EXCEPT !.ok = FALSE, !.pc = "finish"]
Faulted == [worker EXCEPT !.faults = @ - 1, !.ok = FALSE, !.pc = "finish"]
AskedScan == [worker EXCEPT !.exit = "failure", !.prompts = @ - 1]
Erased == [worker EXCEPT !.pc = "plan", !.erased = TRUE]
Refreshed(p, n) == [worker EXCEPT !.pc = p, !.track = n]
Indexed == [worker EXCEPT !.pc = "finish"]
Planned == [worker EXCEPT !.pc = "admit0", !.planned = Cardinality(Tracks)]
Prepared == [worker EXCEPT !.pc = "admit"]
StoppedEarly(s) == [worker EXCEPT !.pc = "finish", !.stop = s]
LastAlbum == [worker EXCEPT !.pc = "stopping"]
NextAlbum ==
  [worker EXCEPT !.album = @ + 1, !.track = 1, !.pc = "track", !.fed = {}, !.ready = {},
                 !.failed = {}, !.taken = {}]
StoppedBetween(s) == [worker EXCEPT !.pc = "stopping", !.stop = s]
Begun == [worker EXCEPT !.pc = Albums[worker.album][worker.track]]
StoppedAt(s) == [worker EXCEPT !.pc = "join", !.stop = s]
AlbumDone == [worker EXCEPT !.pc = "join"]
Recorded == [worker EXCEPT !.journal = @ \cup {Here}, !.track = @ + 1, !.pc = "track"]
Unread ==
  [worker EXCEPT !.faults = @ - 1, !.skipped = @ \cup {Here}, !.track = @ + 1, !.pc = "track"]
TookFailure ==
  [worker EXCEPT !.ready = @ \ {worker.track}, !.taken = @ \cup {worker.track},
                 !.skipped = @ \cup {Here}, !.track = @ + 1, !.pc = "track"]
Took ==
  [worker EXCEPT !.ready = @ \ {worker.track}, !.taken = @ \cup {worker.track},
                 !.journal = @ \cup {Here}, !.pc = "copy"]
Copied == [worker EXCEPT !.files = @ \cup {Here}, !.track = @ + 1, !.pc = "track"]
CutShort(s) == [worker EXCEPT !.journal = @ \ {Here}, !.pc = "join", !.stop = s]
Fed(j) == [worker EXCEPT !.fed = @ \cup {j}]
Started(j) == [worker EXCEPT !.running = @ \cup {j}]
Ready(j) == [worker EXCEPT !.running = @ \ {j}, !.ready = @ \cup {j}]
ReadyFailed(j) ==
  [worker EXCEPT !.running = @ \ {j}, !.ready = @ \cup {j}, !.failed = @ \cup {j},
                 !.faults = @ - 1]
JoinedOn == [worker EXCEPT !.pc = "boundary"]
JoinedOff == [worker EXCEPT !.pc = "stopping"]
NotDue == [worker EXCEPT !.pc = "admit"]
Checkpointed == [worker EXCEPT !.live = @ \cup worker.journal, !.journal = {}, !.pc = "admit"]
Announced(s) == [worker EXCEPT !.stop = s, !.pc = "publish"]
PublishedLast == [worker EXCEPT !.live = @ \cup worker.journal, !.journal = {}, !.pc = "finish"]
Finished == [worker EXCEPT !.pc = "done", !.exit = IF worker.ok THEN "success" ELSE "failure"]
Died(n, e) == [worker EXCEPT !.exit = e, !.faults = n]

(* Before the run starts a move between points changes nothing else.       *)
LEMMA MovedSound ==
  ASSUME Sound(worker), Alive, NEW p \in {"preflight", "erase", "plan", "refresh", "index"},
         worker.pc \in {"hello", "preflight"},
         p \in {"erase", "plan", "refresh"} => worker.kind # "scan",
         p = "index" => worker.kind = "scan"
  PROVE  Sound(Moved(p))
<1> DEFINE w == Moved(p)
<1> USE DEF Sound, Early, Acting, Inside, Moved
<1>0. TRUE BY AtTrack, Fields
<1>1. w \in Workers BY <1>0, AtTrack, TracksFinite DEF Workers, Pcs, Exits, Stops
<1>2. Permitted(w) BY Fields DEF Permitted
<1>3. Placed(w) BY Fields, AtTrack DEF Placed
<1>4. Ended(w) BY <1>0, Fields DEF Ended, Alive, Stops
<1>5. Landed(w) BY Fields, AtTrack DEF Landed, Ended, Placed, Place, Here, Adds
<1>6. Covered(w) BY Fields, TrackShape, AtTrack DEF Covered, Handled, Ended, Landed, Here, Stops
<1> QED BY <1>1, <1>2, <1>3, <1>4, <1>5, <1>6

(* A prompt.                                                               *)
LEMMA AskedSound ==
  ASSUME Sound(worker), Alive, worker.pc = "preflight", worker.kind # "scan", worker.prompts > 0
  PROVE  Sound(Asked)
<1> DEFINE w == Asked
<1> USE DEF Sound, Early, Acting, Inside, Asked
<1>0. worker.prompts - 1 \in Nat BY AtTrack, Fields
<1>1. w \in Workers BY <1>0, AtTrack, TracksFinite DEF Workers, Pcs, Exits, Stops
<1>2. Permitted(w) BY Fields DEF Permitted
<1>3. Placed(w) BY Fields, AtTrack DEF Placed
<1>4. Ended(w) BY <1>0, Fields DEF Ended, Alive, Stops
<1>5. Landed(w) BY Fields, AtTrack DEF Landed, Ended, Placed, Place, Here, Adds
<1>6. Covered(w) BY Fields, TrackShape, AtTrack DEF Covered, Handled, Ended, Landed, Here, Stops
<1> QED BY <1>1, <1>2, <1>3, <1>4, <1>5, <1>6

(* A retry goes back to the checks.                                        *)
LEMMA RetriedSound ==
  ASSUME Sound(worker), Alive, worker.pc = "prompt"
  PROVE  Sound(Retried)
<1> DEFINE w == Retried
<1> USE DEF Sound, Early, Acting, Inside, Retried
<1>0. TRUE BY AtTrack, Fields
<1>1. w \in Workers BY <1>0, AtTrack, TracksFinite DEF Workers, Pcs, Exits, Stops
<1>2. Permitted(w) BY Fields DEF Permitted
<1>3. Placed(w) BY Fields, AtTrack DEF Placed
<1>4. Ended(w) BY <1>0, Fields DEF Ended, Alive, Stops
<1>5. Landed(w) BY Fields, AtTrack DEF Landed, Ended, Placed, Place, Here, Adds
<1>6. Covered(w) BY Fields, TrackShape, AtTrack DEF Covered, Handled, Ended, Landed, Here, Stops
<1> QED BY <1>1, <1>2, <1>3, <1>4, <1>5, <1>6

(* An abort ends the run.                                                  *)
LEMMA AbortedSound ==
  ASSUME Sound(worker), Alive, worker.pc = "prompt"
  PROVE  Sound(Aborted)
<1> DEFINE w == Aborted
<1> USE DEF Sound, Early, Acting, Inside, Aborted
<1>0. TRUE BY AtTrack, Fields
<1>1. w \in Workers BY <1>0, AtTrack, TracksFinite DEF Workers, Pcs, Exits, Stops
<1>2. Permitted(w) BY Fields DEF Permitted
<1>3. Placed(w) BY Fields, AtTrack DEF Placed
<1>4. Ended(w) BY <1>0, Fields DEF Ended, Alive, Stops
<1>5. Landed(w) BY Fields, AtTrack DEF Landed, Ended, Placed, Place, Here, Adds
<1>6. Covered(w) BY Fields, TrackShape, AtTrack DEF Covered, Handled, Ended, Landed, Here, Stops
<1> QED BY <1>1, <1>2, <1>3, <1>4, <1>5, <1>6

(* A fault ends the run, wherever it is.                                   *)
LEMMA FaultedSound ==
  ASSUME Sound(worker), Alive, worker.faults > 0, worker.pc # "done"
  PROVE  Sound(Faulted)
<1> DEFINE w == Faulted
<1> USE DEF Sound, Early, Acting, Inside, Faulted
<1>0. worker.faults - 1 \in Nat BY AtTrack, Fields
<1>1. w \in Workers BY <1>0, AtTrack, TracksFinite DEF Workers, Pcs, Exits, Stops
<1>2. Permitted(w) BY Fields DEF Permitted
<1>3. Placed(w) BY Fields, AtTrack DEF Placed
<1>4. Ended(w) BY <1>0, Fields DEF Ended, Alive, Stops
<1>5. Landed(w) BY Fields, AtTrack DEF Landed, Ended, Placed, Place, Here, Adds
<1>6. Covered(w) BY Fields, TrackShape, AtTrack DEF Covered, Handled, Ended, Landed, Here, Stops
<1> QED BY <1>1, <1>2, <1>3, <1>4, <1>5, <1>6

(* A scan that has to ask fails.                                           *)
LEMMA AskedScanSound ==
  ASSUME Sound(worker), Alive, worker.kind = "scan", worker.pc = "preflight", worker.prompts > 0
  PROVE  Sound(AskedScan)
<1> DEFINE w == AskedScan
<1> USE DEF Sound, Early, Acting, Inside, AskedScan
<1>0. worker.prompts - 1 \in Nat BY AtTrack, Fields
<1>1. w \in Workers BY <1>0, AtTrack, TracksFinite DEF Workers, Pcs, Exits, Stops
<1>2. Permitted(w) BY Fields DEF Permitted
<1>3. Placed(w) BY Fields, AtTrack DEF Placed
<1>4. Ended(w) BY <1>0, Fields DEF Ended, Alive, Stops
<1>5. Landed(w) BY Fields, AtTrack DEF Landed, Ended, Placed, Place, Here, Adds
<1>6. Covered(w) BY Fields, TrackShape, AtTrack DEF Covered, Handled, Ended, Landed, Here, Stops
<1> QED BY <1>1, <1>2, <1>3, <1>4, <1>5, <1>6

(* The empty checkpoint is published.                                      *)
LEMMA ErasedSound ==
  ASSUME Sound(worker), Alive, worker.pc = "erase"
  PROVE  Sound(Erased)
<1> DEFINE w == Erased
<1> USE DEF Sound, Early, Acting, Inside, Erased
<1>0. TRUE BY AtTrack, Fields
<1>1. w \in Workers BY <1>0, AtTrack, TracksFinite DEF Workers, Pcs, Exits, Stops
<1>2. Permitted(w) BY Fields DEF Permitted
<1>3. Placed(w) BY Fields, AtTrack DEF Placed
<1>4. Ended(w) BY <1>0, Fields DEF Ended, Alive, Stops
<1>5. Landed(w) BY Fields, AtTrack DEF Landed, Ended, Placed, Place, Here, Adds
<1>6. Covered(w) BY Fields, TrackShape, AtTrack DEF Covered, Handled, Ended, Landed, Here, Stops
<1> QED BY <1>1, <1>2, <1>3, <1>4, <1>5, <1>6

(* A refresh of one more track, or of the last.                            *)
LEMMA RefreshedSound ==
  ASSUME Sound(worker), Alive, worker.pc = "refresh", NEW p \in {"refresh", "finish"}, NEW n \in Nat
  PROVE  Sound(Refreshed(p, n))
<1> DEFINE w == Refreshed(p, n)
<1> USE DEF Sound, Early, Acting, Inside, Refreshed
<1>0. TRUE BY AtTrack, Fields
<1>1. w \in Workers BY <1>0, AtTrack, TracksFinite DEF Workers, Pcs, Exits, Stops
<1>2. Permitted(w) BY Fields DEF Permitted
<1>3. Placed(w) BY Fields, AtTrack DEF Placed
<1>4. Ended(w) BY <1>0, Fields DEF Ended, Alive, Stops
<1>5. Landed(w) BY Fields, AtTrack DEF Landed, Ended, Placed, Place, Here, Adds
<1>6. Covered(w) BY Fields, TrackShape, AtTrack DEF Covered, Handled, Ended, Landed, Here, Stops
<1> QED BY <1>1, <1>2, <1>3, <1>4, <1>5, <1>6

(* The index is saved, or there is nothing to do.                          *)
LEMMA IndexedSound ==
  ASSUME Sound(worker), Alive, worker.pc \in {"index", "plan"}
  PROVE  Sound(Indexed)
<1> DEFINE w == Indexed
<1> USE DEF Sound, Early, Acting, Inside, Indexed
<1>0. TRUE BY AtTrack, Fields
<1>1. w \in Workers BY <1>0, AtTrack, TracksFinite DEF Workers, Pcs, Exits, Stops
<1>2. Permitted(w) BY Fields DEF Permitted
<1>3. Placed(w) BY Fields, AtTrack DEF Placed
<1>4. Ended(w) BY <1>0, Fields DEF Ended, Alive, Stops
<1>5. Landed(w) BY Fields, AtTrack DEF Landed, Ended, Placed, Place, Here, Adds
<1>6. Covered(w) BY Fields, TrackShape, AtTrack DEF Covered, Handled, Ended, Landed, Here, Stops
<1> QED BY <1>1, <1>2, <1>3, <1>4, <1>5, <1>6

(* The plan is made.                                                       *)
LEMMA PlannedSound ==
  ASSUME Sound(worker), Alive, worker.pc = "plan"
  PROVE  Sound(Planned)
<1> DEFINE w == Planned
<1> USE DEF Sound, Early, Acting, Inside, Planned
<1>0. TRUE BY AtTrack, Fields
<1>1. w \in Workers BY <1>0, AtTrack, TracksFinite DEF Workers, Pcs, Exits, Stops
<1>2. Permitted(w) BY Fields DEF Permitted
<1>3. Placed(w) BY Fields, AtTrack DEF Placed
<1>4. Ended(w) BY <1>0, Fields DEF Ended, Alive, Stops
<1>5. Landed(w) BY Fields, AtTrack DEF Landed, Ended, Placed, Place, Here, Adds
<1>6. Covered(w) BY Fields, TrackShape, AtTrack DEF Covered, Handled, Ended, Landed, Here, Stops
<1> QED BY <1>1, <1>2, <1>3, <1>4, <1>5, <1>6

(* The artwork is prepared.                                                *)
LEMMA PreparedSound ==
  ASSUME Sound(worker), Alive, worker.pc = "admit0"
  PROVE  Sound(Prepared)
<1> DEFINE w == Prepared
<1> USE DEF Sound, Early, Acting, Inside, Prepared
<1>0. TRUE BY AtTrack, Fields
<1>1. w \in Workers BY <1>0, AtTrack, TracksFinite DEF Workers, Pcs, Exits, Stops
<1>2. Permitted(w) BY Fields DEF Permitted
<1>3. Placed(w) BY Fields, AtTrack DEF Placed
<1>4. Ended(w) BY <1>0, Fields DEF Ended, Alive, Stops
<1>5. Landed(w) BY Fields, AtTrack DEF Landed, Ended, Placed, Place, Here, Adds
<1>6. Covered(w)
  BY Fields, TrackShape, AtTrack DEF Covered, Handled, Ended, Landed, Here, Stops, Placed
<1> QED BY <1>1, <1>2, <1>3, <1>4, <1>5, <1>6

(* A stop before the first album.                                          *)
LEMMA StoppedEarlySound ==
  ASSUME Sound(worker), Alive, worker.pc = "admit0", worker.kind # "scan", NEW s \in Stops
  PROVE  Sound(StoppedEarly(s))
<1> DEFINE w == StoppedEarly(s)
<1> USE DEF Sound, Early, Acting, Inside, StoppedEarly
<1>0. TRUE BY AtTrack, Fields
<1>1. w \in Workers BY <1>0, AtTrack, TracksFinite DEF Workers, Pcs, Exits, Stops
<1>2. Permitted(w) BY Fields DEF Permitted
<1>3. Placed(w) BY Fields, AtTrack DEF Placed
<1>4. Ended(w) BY <1>0, Fields DEF Ended, Alive, Stops
<1>5. Landed(w) BY Fields, AtTrack DEF Landed, Ended, Placed, Place, Here, Adds
<1>6. Covered(w) BY Fields, TrackShape, AtTrack DEF Covered, Handled, Ended, Landed, Here, Stops
<1> QED BY <1>1, <1>2, <1>3, <1>4, <1>5, <1>6

(* No album is left.                                                       *)
LEMMA LastAlbumSound ==
  ASSUME Sound(worker), Alive, worker.pc = "admit", worker.album = Len(Albums)
  PROVE  Sound(LastAlbum)
<1> DEFINE w == LastAlbum
<1> USE DEF Sound, Early, Acting, Inside, LastAlbum
<1>0. TRUE BY AtTrack, Fields
<1>1. w \in Workers BY <1>0, AtTrack, TracksFinite DEF Workers, Pcs, Exits, Stops
<1>2. Permitted(w) BY Fields DEF Permitted
<1>3. Placed(w) BY Fields, AtTrack DEF Placed
<1>4. Ended(w) BY <1>0, Fields DEF Ended, Alive, Stops
<1>5. Landed(w) BY Fields, AtTrack DEF Landed, Ended, Placed, Place, Here, Adds
<1>6. Covered(w) BY Fields, TrackShape, AtTrack DEF Covered, Handled, Ended, Landed, Here, Stops
<1> QED BY <1>1, <1>2, <1>3, <1>4, <1>5, <1>6

(* The next album is begun.                                                *)
LEMMA NextAlbumSound ==
  ASSUME Sound(worker), Alive, worker.pc = "admit", worker.album < Len(Albums)
  PROVE  Sound(NextAlbum)
<1> DEFINE w == NextAlbum
<1> USE DEF Sound, Early, Acting, Inside, NextAlbum
<1>0. worker.album + 1 \in Nat BY AtTrack, Fields
<1>1. w \in Workers BY <1>0, AtTrack, TracksFinite DEF Workers, Pcs, Exits, Stops
<1>2. Permitted(w)
  <2>1. {} \ {} = {} OBVIOUS
  <2> QED BY <2>1, FS_EmptySet, WorkerAssumption, Fields DEF Permitted
<1>3. Placed(w) BY Fields, AtTrack DEF Placed
<1>4. Ended(w) BY <1>0, Fields DEF Ended, Alive, Stops
<1>5. Landed(w) BY Fields, AtTrack DEF Landed, Ended, Placed, Place, Here, Adds
<1>6. Covered(w) BY Fields, TrackShape, AtTrack DEF Covered, Handled, Ended, Landed, Here, Stops
<1> QED BY <1>1, <1>2, <1>3, <1>4, <1>5, <1>6

(* A stop between two albums.                                              *)
LEMMA StoppedBetweenSound ==
  ASSUME Sound(worker), Alive, worker.pc = "admit", NEW s \in Stops
  PROVE  Sound(StoppedBetween(s))
<1> DEFINE w == StoppedBetween(s)
<1> USE DEF Sound, Early, Acting, Inside, StoppedBetween
<1>0. TRUE BY AtTrack, Fields
<1>1. w \in Workers BY <1>0, AtTrack, TracksFinite DEF Workers, Pcs, Exits, Stops
<1>2. Permitted(w) BY Fields DEF Permitted
<1>3. Placed(w) BY Fields, AtTrack DEF Placed
<1>4. Ended(w) BY <1>0, Fields DEF Ended, Alive, Stops
<1>5. Landed(w) BY Fields, AtTrack DEF Landed, Ended, Placed, Place, Here, Adds
<1>6. Covered(w) BY Fields, TrackShape, AtTrack DEF Covered, Handled, Ended, Landed, Here, Stops
<1> QED BY <1>1, <1>2, <1>3, <1>4, <1>5, <1>6

(* An action is begun.                                                     *)
LEMMA BegunSound ==
  ASSUME Sound(worker), Alive, worker.pc = "track", worker.track <= Len(Albums[worker.album])
  PROVE  Sound(Begun)
<1> DEFINE w == Begun
<1> USE DEF Sound, Early, Acting, Inside, Begun
<1>0. Albums[worker.album][worker.track] \in {"add", "metadata", "remove"} BY AtTrack, Fields
<1>1. w \in Workers BY <1>0, AtTrack, TracksFinite DEF Workers, Pcs, Exits, Stops
<1>2. Permitted(w) BY <1>0, Fields DEF Permitted
<1>3. Placed(w) BY Fields, AtTrack DEF Placed
<1>4. Ended(w) BY <1>0, Fields DEF Ended, Alive, Stops
<1>5. Landed(w) BY Fields, AtTrack DEF Landed, Ended, Placed, Place, Here, Adds
<1>6. Covered(w) BY Fields, TrackShape, AtTrack DEF Covered, Handled, Ended, Landed, Here, Stops
<1> QED BY <1>1, <1>2, <1>3, <1>4, <1>5, <1>6

(* A stop between two tracks.                                              *)
LEMMA StoppedAtSound ==
  ASSUME Sound(worker), Alive, worker.pc = "track", NEW s \in Stops
  PROVE  Sound(StoppedAt(s))
<1> DEFINE w == StoppedAt(s)
<1> USE DEF Sound, Early, Acting, Inside, StoppedAt
<1>0. TRUE BY AtTrack, Fields
<1>1. w \in Workers BY <1>0, AtTrack, TracksFinite DEF Workers, Pcs, Exits, Stops
<1>2. Permitted(w) BY Fields DEF Permitted
<1>3. Placed(w) BY Fields, AtTrack DEF Placed
<1>4. Ended(w) BY <1>0, Fields DEF Ended, Alive, Stops
<1>5. Landed(w) BY Fields, AtTrack DEF Landed, Ended, Placed, Place, Here, Adds
<1>6. Covered(w) BY Fields, TrackShape, AtTrack DEF Covered, Handled, Ended, Landed, Here, Stops
<1> QED BY <1>1, <1>2, <1>3, <1>4, <1>5, <1>6

(* The last track of the album is done with.                               *)
LEMMA AlbumDoneSound ==
  ASSUME Sound(worker), Alive, worker.pc = "track", worker.track > Len(Albums[worker.album])
  PROVE  Sound(AlbumDone)
<1> DEFINE w == AlbumDone
<1> USE DEF Sound, Early, Acting, Inside, AlbumDone
<1>0. TRUE BY AtTrack, Fields
<1>1. w \in Workers BY <1>0, AtTrack, TracksFinite DEF Workers, Pcs, Exits, Stops
<1>2. Permitted(w) BY Fields DEF Permitted
<1>3. Placed(w) BY Fields, AtTrack DEF Placed
<1>4. Ended(w) BY <1>0, Fields DEF Ended, Alive, Stops
<1>5. Landed(w) BY Fields, AtTrack DEF Landed, Ended, Placed, Place, Here, Adds
<1>6. Covered(w) BY Fields, TrackShape, AtTrack DEF Covered, Handled, Ended, Landed, Here, Stops
<1> QED BY <1>1, <1>2, <1>3, <1>4, <1>5, <1>6

(* A removal or a metadata update is recorded.                             *)
LEMMA RecordedSound ==
  ASSUME Sound(worker), Alive, worker.pc \in {"remove", "metadata"}
  PROVE  Sound(Recorded)
<1> DEFINE w == Recorded
<1> USE DEF Sound, Early, Acting, Inside, Recorded
<1>0. worker.track + 1 \in Nat BY AtTrack, Fields
<1>1. w \in Workers BY <1>0, AtTrack, TracksFinite DEF Workers, Pcs, Exits, Stops
<1>2. Permitted(w) BY Fields DEF Permitted
<1>3. Placed(w) BY Fields, AtTrack DEF Placed
<1>4. Ended(w) BY <1>0, Fields DEF Ended, Alive, Stops
<1>5. Landed(w) BY Fields, AtTrack DEF Landed, Ended, Placed, Place, Here, Adds
<1>6. Covered(w) BY Fields, TrackShape, AtTrack DEF Covered, Handled, Ended, Landed, Here, Stops
<1> QED BY <1>1, <1>2, <1>3, <1>4, <1>5, <1>6

(* A metadata update that cannot be read is skipped.                       *)
LEMMA UnreadSound ==
  ASSUME Sound(worker), Alive, worker.pc = "metadata", worker.faults > 0
  PROVE  Sound(Unread)
<1> DEFINE w == Unread
<1> USE DEF Sound, Early, Acting, Inside, Unread
<1>0. worker.track + 1 \in Nat /\ worker.faults - 1 \in Nat BY AtTrack, Fields
<1>1. w \in Workers BY <1>0, AtTrack, TracksFinite DEF Workers, Pcs, Exits, Stops
<1>2. Permitted(w) BY Fields DEF Permitted
<1>3. Placed(w) BY Fields, AtTrack DEF Placed
<1>4. Ended(w) BY <1>0, Fields DEF Ended, Alive, Stops
<1>5. Landed(w) BY Fields, AtTrack DEF Landed, Ended, Placed, Place, Here, Adds
<1>6. Covered(w) BY Fields, TrackShape, AtTrack DEF Covered, Handled, Ended, Landed, Here, Stops
<1> QED BY <1>1, <1>2, <1>3, <1>4, <1>5, <1>6

(* A failed transcode is skipped.                                          *)
LEMMA TookFailureSound ==
  ASSUME Sound(worker), Alive, worker.pc = "add", worker.track \in worker.ready
  PROVE  Sound(TookFailure)
<1> DEFINE w == TookFailure
<1> USE DEF Sound, Early, Acting, Inside, TookFailure
<1>0. worker.track + 1 \in Nat BY AtTrack, Fields
<1>1. w \in Workers BY <1>0, AtTrack, TracksFinite DEF Workers, Pcs, Exits, Stops
<1>2. Permitted(w)
  <2> DEFINE S == worker.fed \ worker.taken
  <2> DEFINE T == worker.fed \ (worker.taken \cup {worker.track})
  <2>1. IsFiniteSet(S) BY FS_Subset DEF Permitted
  <2>2. Cardinality(T) <= Cardinality(S) /\ Cardinality(T) \in Nat /\ Cardinality(S) \in Nat
    BY <2>1, T \subseteq S, FS_Subset, FS_CardinalityType
  <2>3. Cardinality(S) <= Window BY DEF Permitted
  <2>4. Cardinality(T) <= Window BY <2>2, <2>3, WorkerAssumption
  <2>5. w.fed \ w.taken = T /\ w.fed = worker.fed BY Fields
  <2> HIDE DEF S, T
  <2>6. w.running \cup w.ready \cup w.taken \subseteq w.fed BY Fields DEF Permitted
  <2>7. w.pc \notin Early \cup {"admit", "boundary"} BY Fields
  <2> QED BY <2>4, <2>5, <2>6, <2>7 DEF Permitted
<1>3. Placed(w) BY Fields, AtTrack DEF Placed
<1>4. Ended(w) BY <1>0, Fields DEF Ended, Alive, Stops
<1>5. Landed(w) BY Fields, AtTrack DEF Landed, Ended, Placed, Place, Here, Adds
<1>6. Covered(w) BY Fields, TrackShape, AtTrack DEF Covered, Handled, Ended, Landed, Here, Stops
<1> QED BY <1>1, <1>2, <1>3, <1>4, <1>5, <1>6

(* A transcoded track is recorded and copied.                              *)
LEMMA TookSound ==
  ASSUME Sound(worker), Alive, worker.pc = "add", worker.track \in worker.ready
  PROVE  Sound(Took)
<1> DEFINE w == Took
<1> USE DEF Sound, Early, Acting, Inside, Took
<1>0. TRUE BY AtTrack, Fields
<1>1. w \in Workers BY <1>0, AtTrack, TracksFinite DEF Workers, Pcs, Exits, Stops
<1>2. Permitted(w)
  <2> DEFINE S == worker.fed \ worker.taken
  <2> DEFINE T == worker.fed \ (worker.taken \cup {worker.track})
  <2>1. IsFiniteSet(S) BY FS_Subset DEF Permitted
  <2>2. Cardinality(T) <= Cardinality(S) /\ Cardinality(T) \in Nat /\ Cardinality(S) \in Nat
    BY <2>1, T \subseteq S, FS_Subset, FS_CardinalityType
  <2>3. Cardinality(S) <= Window BY DEF Permitted
  <2>4. Cardinality(T) <= Window BY <2>2, <2>3, WorkerAssumption
  <2>5. w.fed \ w.taken = T /\ w.fed = worker.fed BY Fields
  <2> HIDE DEF S, T
  <2>6. w.running \cup w.ready \cup w.taken \subseteq w.fed BY Fields DEF Permitted
  <2>7. w.pc \notin Early \cup {"admit", "boundary"} BY Fields
  <2> QED BY <2>4, <2>5, <2>6, <2>7 DEF Permitted
<1>3. Placed(w) BY Fields, AtTrack DEF Placed
<1>4. Ended(w) BY <1>0, Fields DEF Ended, Alive, Stops
<1>5. Landed(w) BY Fields, AtTrack DEF Landed, Ended, Placed, Place, Here, Adds
<1>6. Covered(w) BY Fields, TrackShape, AtTrack DEF Covered, Handled, Ended, Landed, Here, Stops
<1> QED BY <1>1, <1>2, <1>3, <1>4, <1>5, <1>6

(* A copy lands.                                                           *)
LEMMA CopiedSound ==
  ASSUME Sound(worker), Alive, worker.pc = "copy"
  PROVE  Sound(Copied)
<1> DEFINE w == Copied
<1> USE DEF Sound, Early, Acting, Inside, Copied
<1>0. worker.track + 1 \in Nat /\ (Here \in worker.journal)
  BY AtTrack, Fields DEF Landed, Here, Place
<1>1. w \in Workers BY <1>0, AtTrack, TracksFinite DEF Workers, Pcs, Exits, Stops
<1>2. Permitted(w) BY Fields DEF Permitted
<1>3. Placed(w) BY Fields, AtTrack DEF Placed
<1>4. Ended(w) BY <1>0, Fields DEF Ended, Alive, Stops
<1>5. Landed(w) BY Fields, AtTrack DEF Landed, Ended, Placed, Place, Here, Adds
<1>6. Covered(w)
  <2>1. worker.track \in Nat /\ worker.pc \in Inside BY Fields
  <2>2. \A t \in Tracks : t[1] = worker.album /\ t[2] < worker.track + 1 => t[2] < worker.track \/ t = Here
    BY <2>1, TrackShape DEF Here
  <2>3. Handled(w) = Handled(worker) /\ Here \in Handled(worker) BY <1>0, Fields DEF Handled
  <2>4. w.album = worker.album /\ w.track = worker.track + 1 /\ w.pc = "track" /\ w.ok = worker.ok
        /\ w.stop = worker.stop
    BY Fields
  <2>5. worker.ok /\ worker.stop = "none" =>
          /\ \A t \in Tracks : t[1] < worker.album => t \in Handled(worker)
          /\ \A t \in Tracks : t[1] = worker.album /\ t[2] < worker.track => t \in Handled(worker)
    BY <2>1 DEF Covered
  <2> HIDE DEF w, Copied
  <2> QED BY <2>2, <2>3, <2>4, <2>5 DEF Covered
<1> QED BY <1>1, <1>2, <1>3, <1>4, <1>5, <1>6

(* A copy that is stopped takes its record back.                           *)
LEMMA CutShortSound ==
  ASSUME Sound(worker), Alive, worker.pc = "copy", NEW s \in Stops
  PROVE  Sound(CutShort(s))
<1> DEFINE w == CutShort(s)
<1> USE DEF Sound, Early, Acting, Inside, CutShort
<1>0. TRUE BY AtTrack, Fields
<1>1. w \in Workers BY <1>0, AtTrack, TracksFinite DEF Workers, Pcs, Exits, Stops
<1>2. Permitted(w) BY Fields DEF Permitted
<1>3. Placed(w) BY Fields, AtTrack DEF Placed
<1>4. Ended(w) BY <1>0, Fields DEF Ended, Alive, Stops
<1>5. Landed(w) BY Fields, AtTrack DEF Landed, Ended, Placed, Place, Here, Adds
<1>6. Covered(w) BY Fields, TrackShape, AtTrack DEF Covered, Handled, Ended, Landed, Here, Stops
<1> QED BY <1>1, <1>2, <1>3, <1>4, <1>5, <1>6

(* A job is fed while a permit is left.                                    *)
LEMMA FedSound ==
  ASSUME Sound(worker), Alive, NEW j \in Nat, j \notin worker.fed, worker.pc \in Inside, Permits > 0
  PROVE  Sound(Fed(j))
<1> DEFINE w == Fed(j)
<1> USE DEF Sound, Early, Acting, Inside, Fed
<1>0. TRUE BY AtTrack, Fields
<1>1. w \in Workers BY <1>0, AtTrack, TracksFinite DEF Workers, Pcs, Exits, Stops
<1>2. Permitted(w)
  <2> DEFINE S == worker.fed \ worker.taken
  <2>1. IsFiniteSet(S) BY FS_Subset DEF Permitted
  <2>2. w.fed \ w.taken = S \cup {j} BY Fields DEF Permitted
  <2>3. j \notin S OBVIOUS
  <2>4. Cardinality(S \cup {j}) = Cardinality(S) + 1 /\ Cardinality(S) \in Nat
    BY <2>1, <2>3, FS_AddElement, FS_CardinalityType
  <2>5. Cardinality(S) < Window BY <2>4, WorkerAssumption DEF Permits, Permitted
  <2> HIDE DEF S, Fed, w
  <2>6. Cardinality(w.fed \ w.taken) <= Window
    <3> DEFINE c == Cardinality(S)
    <3>1. c \in Nat /\ c < Window /\ Window \in Nat BY <2>4, <2>5, WorkerAssumption
    <3> HIDE DEF c
    <3>2. c + 1 <= Window BY <3>1
    <3> QED BY <3>2, <2>2, <2>4 DEF c
  <2>7. IsFiniteSet(w.fed) /\ w.running \cup w.ready \cup w.taken \subseteq w.fed
    BY Fields, FS_AddElement DEF Permitted, w, Fed
  <2>8. w.pc \notin Early \cup {"admit", "boundary"} BY Fields DEF w, Fed
  <2> QED BY <2>6, <2>7, <2>8 DEF Permitted
<1>3. Placed(w) BY Fields, AtTrack DEF Placed
<1>4. Ended(w) BY <1>0, Fields DEF Ended, Alive, Stops
<1>5. Landed(w) BY Fields, AtTrack DEF Landed, Ended, Placed, Place, Here, Adds
<1>6. Covered(w) BY Fields, TrackShape, AtTrack DEF Covered, Handled, Ended, Landed, Here, Stops
<1> QED BY <1>1, <1>2, <1>3, <1>4, <1>5, <1>6

(* A transcode starts.                                                     *)
LEMMA StartedSound ==
  ASSUME Sound(worker), Alive, NEW j \in worker.fed, worker.pc \in Inside
  PROVE  Sound(Started(j))
<1> DEFINE w == Started(j)
<1> USE DEF Sound, Early, Acting, Inside, Started
<1>0. TRUE BY AtTrack, Fields
<1>1. w \in Workers BY <1>0, AtTrack, TracksFinite DEF Workers, Pcs, Exits, Stops
<1>2. Permitted(w) BY Fields DEF Permitted
<1>3. Placed(w) BY Fields, AtTrack DEF Placed
<1>4. Ended(w) BY <1>0, Fields DEF Ended, Alive, Stops
<1>5. Landed(w) BY Fields, AtTrack DEF Landed, Ended, Placed, Place, Here, Adds
<1>6. Covered(w) BY Fields, TrackShape, AtTrack DEF Covered, Handled, Ended, Landed, Here, Stops
<1> QED BY <1>1, <1>2, <1>3, <1>4, <1>5, <1>6

(* A transcode ends.                                                       *)
LEMMA ReadySound ==
  ASSUME Sound(worker), Alive, NEW j \in worker.running
  PROVE  Sound(Ready(j))
<1> DEFINE w == Ready(j)
<1> USE DEF Sound, Early, Acting, Inside, Ready
<1>0. TRUE BY AtTrack, Fields
<1>1. w \in Workers BY <1>0, AtTrack, TracksFinite DEF Workers, Pcs, Exits, Stops
<1>2. Permitted(w) BY Fields DEF Permitted
<1>3. Placed(w) BY Fields, AtTrack DEF Placed
<1>4. Ended(w) BY <1>0, Fields DEF Ended, Alive, Stops
<1>5. Landed(w) BY Fields, AtTrack DEF Landed, Ended, Placed, Place, Here, Adds
<1>6. Covered(w) BY Fields, TrackShape, AtTrack DEF Covered, Handled, Ended, Landed, Here, Stops
<1> QED BY <1>1, <1>2, <1>3, <1>4, <1>5, <1>6

(* A transcode fails.                                                      *)
LEMMA ReadyFailedSound ==
  ASSUME Sound(worker), Alive, NEW j \in worker.running, worker.faults > 0
  PROVE  Sound(ReadyFailed(j))
<1> DEFINE w == ReadyFailed(j)
<1> USE DEF Sound, Early, Acting, Inside, ReadyFailed
<1>0. worker.faults - 1 \in Nat BY AtTrack, Fields
<1>1. w \in Workers BY <1>0, AtTrack, TracksFinite DEF Workers, Pcs, Exits, Stops
<1>2. Permitted(w) BY Fields DEF Permitted
<1>3. Placed(w) BY Fields, AtTrack DEF Placed
<1>4. Ended(w) BY <1>0, Fields DEF Ended, Alive, Stops
<1>5. Landed(w) BY Fields, AtTrack DEF Landed, Ended, Placed, Place, Here, Adds
<1>6. Covered(w) BY Fields, TrackShape, AtTrack DEF Covered, Handled, Ended, Landed, Here, Stops
<1> QED BY <1>1, <1>2, <1>3, <1>4, <1>5, <1>6

(* The transcoder is joined and the run goes on.                           *)
LEMMA JoinedOnSound ==
  ASSUME Sound(worker), Alive, worker.pc = "join", worker.running = {}, worker.stop = "none"
  PROVE  Sound(JoinedOn)
<1> DEFINE w == JoinedOn
<1> USE DEF Sound, Early, Acting, Inside, JoinedOn
<1>0. TRUE BY AtTrack, Fields
<1>1. w \in Workers BY <1>0, AtTrack, TracksFinite DEF Workers, Pcs, Exits, Stops
<1>2. Permitted(w) BY Fields DEF Permitted
<1>3. Placed(w) BY Fields, AtTrack DEF Placed
<1>4. Ended(w) BY <1>0, Fields DEF Ended, Alive, Stops
<1>5. Landed(w) BY Fields, AtTrack DEF Landed, Ended, Placed, Place, Here, Adds
<1>6. Covered(w) BY Fields, TrackShape, AtTrack DEF Covered, Handled, Ended, Landed, Here, Stops
<1> QED BY <1>1, <1>2, <1>3, <1>4, <1>5, <1>6

(* The transcoder is joined and the run stops.                             *)
LEMMA JoinedOffSound ==
  ASSUME Sound(worker), Alive, worker.pc = "join", worker.stop # "none"
  PROVE  Sound(JoinedOff)
<1> DEFINE w == JoinedOff
<1> USE DEF Sound, Early, Acting, Inside, JoinedOff
<1>0. TRUE BY AtTrack, Fields
<1>1. w \in Workers BY <1>0, AtTrack, TracksFinite DEF Workers, Pcs, Exits, Stops
<1>2. Permitted(w) BY Fields DEF Permitted
<1>3. Placed(w) BY Fields, AtTrack DEF Placed
<1>4. Ended(w) BY <1>0, Fields DEF Ended, Alive, Stops
<1>5. Landed(w) BY Fields, AtTrack DEF Landed, Ended, Placed, Place, Here, Adds
<1>6. Covered(w) BY Fields, TrackShape, AtTrack DEF Covered, Handled, Ended, Landed, Here, Stops
<1> QED BY <1>1, <1>2, <1>3, <1>4, <1>5, <1>6

(* No checkpoint is due.                                                   *)
LEMMA NotDueSound ==
  ASSUME Sound(worker), Alive, worker.pc = "boundary"
  PROVE  Sound(NotDue)
<1> DEFINE w == NotDue
<1> USE DEF Sound, Early, Acting, Inside, NotDue
<1>0. TRUE BY AtTrack, Fields
<1>1. w \in Workers BY <1>0, AtTrack, TracksFinite DEF Workers, Pcs, Exits, Stops
<1>2. Permitted(w) BY Fields DEF Permitted
<1>3. Placed(w) BY Fields, AtTrack DEF Placed
<1>4. Ended(w) BY <1>0, Fields DEF Ended, Alive, Stops
<1>5. Landed(w) BY Fields, AtTrack DEF Landed, Ended, Placed, Place, Here, Adds
<1>6. Covered(w) BY Fields, TrackShape, AtTrack DEF Covered, Handled, Ended, Landed, Here, Stops
<1> QED BY <1>1, <1>2, <1>3, <1>4, <1>5, <1>6

(* A checkpoint is published between two albums.                           *)
LEMMA CheckpointedSound ==
  ASSUME Sound(worker), Alive, worker.pc = "boundary"
  PROVE  Sound(Checkpointed)
<1> DEFINE w == Checkpointed
<1> USE DEF Sound, Early, Acting, Inside, Checkpointed
<1>0. TRUE BY AtTrack, Fields
<1>1. w \in Workers BY <1>0, AtTrack, TracksFinite DEF Workers, Pcs, Exits, Stops
<1>2. Permitted(w) BY Fields DEF Permitted
<1>3. Placed(w) BY Fields, AtTrack DEF Placed
<1>4. Ended(w) BY <1>0, Fields DEF Ended, Alive, Stops
<1>5. Landed(w) BY Fields, AtTrack DEF Landed, Ended, Placed, Place, Here, Adds
<1>6. Covered(w) BY Fields, TrackShape, AtTrack DEF Covered, Handled, Ended, Landed, Here, Stops
<1> QED BY <1>1, <1>2, <1>3, <1>4, <1>5, <1>6

(* The last poll.                                                          *)
LEMMA AnnouncedSound ==
  ASSUME Sound(worker), Alive, worker.pc = "stopping", NEW s \in Stops \cup {"none"},
         worker.stop # "none" => s = worker.stop
  PROVE  Sound(Announced(s))
<1> DEFINE w == Announced(s)
<1> USE DEF Sound, Early, Acting, Inside, Announced
<1>0. TRUE BY AtTrack, Fields
<1>1. w \in Workers BY <1>0, AtTrack, TracksFinite DEF Workers, Pcs, Exits, Stops
<1>2. Permitted(w) BY Fields DEF Permitted
<1>3. Placed(w) BY Fields, AtTrack DEF Placed
<1>4. Ended(w) BY <1>0, Fields DEF Ended, Alive, Stops
<1>5. Landed(w) BY Fields, AtTrack DEF Landed, Ended, Placed, Place, Here, Adds
<1>6. Covered(w) BY Fields, TrackShape, AtTrack DEF Covered, Handled, Ended, Landed, Here, Stops
<1> QED BY <1>1, <1>2, <1>3, <1>4, <1>5, <1>6

(* The last checkpoint is published.                                       *)
LEMMA PublishedLastSound ==
  ASSUME Sound(worker), Alive, worker.pc = "publish"
  PROVE  Sound(PublishedLast)
<1> DEFINE w == PublishedLast
<1> USE DEF Sound, Early, Acting, Inside, PublishedLast
<1>0. TRUE BY AtTrack, Fields
<1>1. w \in Workers BY <1>0, AtTrack, TracksFinite DEF Workers, Pcs, Exits, Stops
<1>2. Permitted(w) BY Fields DEF Permitted
<1>3. Placed(w) BY Fields, AtTrack DEF Placed
<1>4. Ended(w) BY <1>0, Fields DEF Ended, Alive, Stops
<1>5. Landed(w) BY Fields, AtTrack DEF Landed, Ended, Placed, Place, Here, Adds
<1>6. Covered(w) BY Fields, TrackShape, AtTrack DEF Covered, Handled, Ended, Landed, Here, Stops
<1> QED BY <1>1, <1>2, <1>3, <1>4, <1>5, <1>6

(* The process exits.                                                      *)
LEMMA FinishedSound ==
  ASSUME Sound(worker), Alive, worker.pc = "finish"
  PROVE  Sound(Finished)
<1> DEFINE w == Finished
<1> USE DEF Sound, Early, Acting, Inside, Finished
<1>0. TRUE BY AtTrack, Fields
<1>1. w \in Workers BY <1>0, AtTrack, TracksFinite DEF Workers, Pcs, Exits, Stops
<1>2. Permitted(w) BY Fields DEF Permitted
<1>3. Placed(w) BY Fields, AtTrack DEF Placed
<1>4. Ended(w) BY <1>0, Fields DEF Ended, Alive, Stops
<1>5. Landed(w) BY Fields, AtTrack DEF Landed, Ended, Placed, Place, Here, Adds
<1>6. Covered(w) BY Fields, TrackShape, AtTrack DEF Covered, Handled, Ended, Landed, Here, Stops
<1> QED BY <1>1, <1>2, <1>3, <1>4, <1>5, <1>6

(* The process dies, or is killed.                                         *)
LEMMA DiedSound ==
  ASSUME Sound(worker), Alive, NEW n \in Nat, NEW e \in {"killed", "terminated"}
  PROVE  Sound(Died(n, e))
<1> DEFINE w == Died(n, e)
<1> USE DEF Sound, Early, Acting, Inside, Died
<1>0. TRUE BY AtTrack, Fields
<1>1. w \in Workers BY <1>0, AtTrack, TracksFinite DEF Workers, Pcs, Exits, Stops
<1>2. Permitted(w) BY Fields DEF Permitted
<1>3. Placed(w) BY Fields, AtTrack DEF Placed
<1>4. Ended(w) BY <1>0, Fields DEF Ended, Alive, Stops
<1>5. Landed(w) BY Fields, AtTrack DEF Landed, Ended, Placed, Place, Here, Adds
<1>6. Covered(w) BY Fields, TrackShape, AtTrack DEF Covered, Handled, Ended, Landed, Here, Stops
<1> QED BY <1>1, <1>2, <1>3, <1>4, <1>5, <1>6

-----------------------------------------------------------------------------
(* What the driver hears.                                                    *)

(* A step that says nothing.                                               *)
LEMMA SaysNothing ==
  ASSUME NEW d, NEW w, NEW x, NEW p, Heard(d, w, p),
         \A u \in Views : Reflects(w, u) => Reflects(x, u)
  PROVE  Heard(d, x, p)
BY DEF Heard

(* A step that writes one event.                                           *)
LEMMA SaysOne ==
  ASSUME NEW d, NEW w, NEW x, NEW p, NEW e \in Events, Heard(d, w, p),
         \A u \in Views : Reflects(w, u) => Legal(d.scan, u, e) /\ Reflects(x, Consumed(d.scan, u, e))
  PROVE  Heard(d, x, p \o <<e>>)
<1>1. PICK v \in Views, u \in Views : Sees(d, v) /\ Leads(d.scan, v, p, u) /\ Reflects(w, u)
  BY DEF Heard
<1>2. Legal(d.scan, u, e) /\ Reflects(x, Consumed(d.scan, u, e)) BY <1>1
<1>3. Leads(d.scan, v, p \o <<e>>, Consumed(d.scan, u, e)) /\ Consumed(d.scan, u, e) \in Views
  BY <1>1, <1>2, LeadsEmit
<1> QED BY <1>1, <1>2, <1>3 DEF Heard

(* Two events written one after another are a pair.                        *)
LEMMA Paired ==
  ASSUME NEW e, NEW f
  PROVE  <<e>> \o <<f>> = <<e, f>>
<1>1. <<e>> \in Seq({e, f}) /\ <<f>> \in Seq({e, f}) /\ <<e, f>> \in Seq({e, f}) OBVIOUS
<1>2. Len(<<e>>) = 1 /\ Len(<<f>>) = 1 /\ Len(<<e, f>>) = 2 OBVIOUS
<1>3. <<e>> \o <<f>> \in Seq({e, f}) /\ Len(<<e>> \o <<f>>) = 2 BY <1>1, <1>2, ConcatProperties
<1>4. (<<e>> \o <<f>>)[1] = e /\ (<<e>> \o <<f>>)[2] = f BY <1>1, <1>2, ConcatProperties
<1>5. <<e, f>>[1] = e /\ <<e, f>>[2] = f OBVIOUS
<1>6. \A i \in 1..2 : (<<e>> \o <<f>>)[i] = <<e, f>>[i] BY <1>4, <1>5
<1> QED BY <1>1, <1>2, <1>3, <1>6, SeqEqual

(* Two events written one after the other are written together.            *)
LEMMA Joining ==
  ASSUME NEW e \in Events, NEW f \in Events, NEW p \in Seq(Events)
  PROVE  (p \o <<e>>) \o <<f>> = p \o <<e, f>>
<1>1. <<e>> \in Seq(Events) /\ <<f>> \in Seq(Events) OBVIOUS
<1>2. (p \o <<e>>) \o <<f>> = p \o (<<e>> \o <<f>>) BY <1>1, ConcatAssociative
<1> QED BY <1>2, Paired

(* A step that writes two.                                                 *)
LEMMA SaysTwo ==
  ASSUME NEW d, NEW w, NEW x, NEW p, NEW e \in Events, NEW f \in Events, Heard(d, w, p),
         \A u \in Views : Reflects(w, u) =>
           /\ Legal(d.scan, u, e) /\ Legal(d.scan, Consumed(d.scan, u, e), f)
           /\ Reflects(x, Consumed(d.scan, Consumed(d.scan, u, e), f))
  PROVE  Heard(d, x, p \o <<e, f>>)
<1>1. PICK v \in Views, u \in Views : Sees(d, v) /\ Leads(d.scan, v, p, u) /\ Reflects(w, u)
  BY DEF Heard
<1> DEFINE c == Consumed(d.scan, u, e)
<1>2. Legal(d.scan, u, e) /\ Legal(d.scan, c, f) /\ Reflects(x, Consumed(d.scan, c, f)) BY <1>1
<1>3. Leads(d.scan, v, p \o <<e>>, c) /\ c \in Views BY <1>1, <1>2, LeadsEmit
<1> HIDE DEF c
<1>4. Leads(d.scan, v, (p \o <<e>>) \o <<f>>, Consumed(d.scan, c, f)) /\ Consumed(d.scan, c, f) \in Views
  BY <1>2, <1>3, LeadsEmit
<1>5. p \in Seq(Events) BY <1>1 DEF Leads
<1>6. (p \o <<e>>) \o <<f>> = p \o <<e, f>> BY <1>5, Joining
<1> QED BY <1>1, <1>2, <1>4, <1>6 DEF Heard

(* The fields of a view.                                                   *)
LEMMA ViewFields ==
  ASSUME NEW u \in Views
  PROVE  /\ u.life \in Lives /\ u.total \in Nat /\ u.errored \in Nat /\ u.cancelled \in BOOLEAN
         /\ u.paused \in BOOLEAN /\ u.finish \in {"none", "ok", "failed"} /\ u.marked \in BOOLEAN
         /\ u.life.reason \in Stops \cup {"none"} /\ u.life.err \in BOOLEAN
         /\ u.life.state \in {"hello", "running", "finalizing", "graceful", "scan", "scanning",
                              "finished", "illegal"}
BY DEF Views, Lives

(* The skipped tracks can be counted.                                      *)
LEMMA Counted ==
  ASSUME NEW S, S \subseteq Tracks, NEW t \in Tracks
  PROVE  /\ Cardinality(S) \in Nat /\ Cardinality(S \cup {t}) \in Nat
         /\ Cardinality(S \cup {t}) <= Cardinality(S) + 1
<1>1. IsFiniteSet(S) BY TracksFinite, FS_Subset
<1> DEFINE c == Cardinality(S)
<1>2. c \in Nat BY <1>1, FS_CardinalityType
<1>3. Cardinality(S \cup {t}) = IF t \in S THEN c ELSE c + 1 BY <1>1, FS_AddElement
<1> HIDE DEF c
<1>4. Cardinality(S \cup {t}) \in Nat /\ Cardinality(S \cup {t}) <= c + 1
  <2>1. CASE t \in S BY <2>1, <1>2, <1>3
  <2>2. CASE t \notin S BY <2>2, <1>2, <1>3
  <2> QED BY <2>1, <2>2
<1> QED BY <1>2, <1>4 DEF c

(* And so can a worker's.                                                  *)
LEMMA SkippedCounted ==
  ASSUME NEW w \in Workers
  PROVE  /\ Cardinality(w.skipped) \in Nat
         /\ \A t \in Tracks : Cardinality(w.skipped \cup {t}) \in Nat
                             /\ Cardinality(w.skipped \cup {t}) <= Cardinality(w.skipped) + 1
<1>1. w.skipped \subseteq Tracks BY Fields
<1>2. Cardinality(w.skipped) \in Nat BY <1>1, TracksFinite, FS_Subset, FS_CardinalityType
<1> QED BY <1>1, <1>2, Counted

(* Every event has its shape.                                              *)
LEMMA EventShape ==
  ASSUME NEW n \in Names, NEW a \in Nat \cup BOOLEAN \cup Stops
  PROVE  Event(n, a) \in Events
BY Zenon DEF Event, Events

(* Before the run starts a move between points changes nothing else: the   *)
(* driver hears what it says.                                              *)
LEMMA HelloHeard ==
  ASSUME NEW p0, Heard(driver, worker, p0), Sound(worker), Alive,
         (driver.scan <=> worker.kind = "scan"),
         NEW p \in {"preflight", "erase", "plan", "refresh", "index"},
         worker.pc \in {"hello", "preflight"},
         p \in {"erase", "plan", "refresh"} => worker.kind # "scan",
         p = "index" => worker.kind = "scan", worker.pc = "hello", worker.kind # "scan",
         p = "preflight"
  PROVE  Heard(driver, Moved(p), p0 \o <<Plain("hello")>>)
<1> DEFINE w == Moved(p)
<1> USE DEF Early, Acting, Inside, Working, Moved
<1> DEFINE e == Plain("hello")
<1>1. e \in Events BY EventShape, TracksFinite, Fields DEF Plain, Finalizing, Sound, Names
<1>2. ASSUME NEW u \in Views, Reflects(worker, u)
      PROVE  Legal(driver.scan, u, e) /\ Reflects(w, Consumed(driver.scan, u, e))
  <2>1. worker \in Workers BY DEF Sound
  <2> USE <1>2, <2>1, Fields, ViewFields, TracksFinite
      DEF Reflects, Reading, Scanning, Consumed, Stops, Plain, Event, Finalizing, Advance,
         RunningNext, FinalizingNext, GracefulNext, ScanNext, Outcome, Illegal, Life, Sound, Ended,
         Alive, Pcs
  <2>2. Advance(driver.scan, u.life, e) \in Lives /\ Advance(driver.scan, u.life, e) # Illegal
    BY DEF Lives
  <2>3. Legal(driver.scan, u, e) BY <2>2 DEF Legal, Views
  <2>4. Reflects(w, Consumed(driver.scan, u, e)) BY AtTrack, SkippedCounted DEF Landed
  <2> QED BY <2>3, <2>4
<1> HIDE DEF w, e, Moved
<1>3. Heard(driver, w, p0 \o <<e>>) BY <1>1, <1>2, SaysOne
<1> QED BY <1>3 DEF w, e

(* Before the run starts a move between points changes nothing else: the   *)
(* driver hears what it says.                                              *)
LEMMA HelloScanHeard ==
  ASSUME NEW p0, Heard(driver, worker, p0), Sound(worker), Alive,
         (driver.scan <=> worker.kind = "scan"),
         NEW p \in {"preflight", "erase", "plan", "refresh", "index"},
         worker.pc \in {"hello", "preflight"},
         p \in {"erase", "plan", "refresh"} => worker.kind # "scan",
         p = "index" => worker.kind = "scan", worker.pc = "hello", worker.kind = "scan",
         p = "preflight"
  PROVE  Heard(driver, Moved(p), p0 \o <<Plain("hello"), Plain("scan_started")>>)
<1> DEFINE w == Moved(p)
<1> USE DEF Early, Acting, Inside, Working, Moved
<1> DEFINE e == Plain("hello")
<1> DEFINE f == Plain("scan_started")
<1>1. e \in Events /\ f \in Events BY EventShape, Fields DEF Plain, Sound, Names
<1>2. ASSUME NEW u \in Views, Reflects(worker, u)
      PROVE  /\ Legal(driver.scan, u, e) /\ Legal(driver.scan, Consumed(driver.scan, u, e), f)
             /\ Reflects(w, Consumed(driver.scan, Consumed(driver.scan, u, e), f))
  <2> DEFINE c == Consumed(driver.scan, u, e)
  <2>0. worker \in Workers BY DEF Sound
  <2>1. Legal(driver.scan, u, e)
    BY <1>2, <2>0, Fields, ViewFields
       DEF Reflects, Reading, Scanning, Legal, Consumed, Views, Lives, Stops, Plain, Event,
          Finalizing, Advance, RunningNext, FinalizingNext, GracefulNext, ScanNext, Outcome,
          Illegal, Life, Sound, Ended, Alive, Pcs
  <2>2. c \in Views BY <2>1 DEF Legal
  <2>3. Advance(driver.scan, c.life, f) \in Lives /\ Advance(driver.scan, c.life, f) # Illegal
    BY <1>2, <2>0, <2>2, Fields, ViewFields
       DEF Reflects, Reading, Scanning, Consumed, Lives, Stops, Plain, Event, Finalizing, Advance,
          RunningNext, FinalizingNext, GracefulNext, ScanNext, Outcome, Illegal, Life, Sound, Ended,
          Alive, Pcs
  <2>4. Legal(driver.scan, c, f)
    <3> HIDE DEF c
    <3> QED BY <2>2, <2>3, Fields, ViewFields DEF Legal, Consumed, Views, Plain, Event, Finalizing
  <2>5. /\ c.total = u.total /\ c.errored = u.errored /\ c.finish = u.finish
            /\ (c.marked <=> u.marked)
        /\ (c.cancelled <=> u.cancelled \/ e.name = "cancelled")
                  /\ (c.paused <=> u.paused \/ e.name = "paused")
    BY DEF Consumed, Plain, Event, Finalizing
  <2>6. c.life = Life("scan", "none", FALSE) /\ driver.scan
    BY <1>2, <2>0, <2>2, Fields, ViewFields
       DEF Reflects, Reading, Scanning, Consumed, Lives, Stops, Plain, Event, Finalizing, Advance,
          RunningNext, FinalizingNext, GracefulNext, ScanNext, Outcome, Illegal, Life, Sound, Ended,
          Alive, Pcs
  <2> DEFINE z == Consumed(driver.scan, c, f)
  <2> HIDE DEF c
  <2>7. z.life = Life("scanning", "none", FALSE)
    BY <2>6
       DEF Consumed, Plain, Event, Finalizing, Advance, RunningNext, FinalizingNext, GracefulNext,
          ScanNext, Outcome, Illegal, Life
  <2>8. /\ z.total = c.total /\ z.errored = c.errored /\ z.finish = c.finish
            /\ (z.marked <=> c.marked)
        /\ (z.cancelled <=> c.cancelled) /\ (z.paused <=> c.paused)
    BY DEF Consumed, Plain, Event, Finalizing
  <2> HIDE DEF z
  <2>9. c.errored \in Nat BY <2>2, ViewFields
  <2>10. Reflects(w, z)
    BY <1>2, <2>0, <2>5, <2>6, <2>7, <2>8, <2>9, AtTrack, Fields, SkippedCounted, TracksFinite
       DEF Reflects, Reading, Scanning, Plain, Event, Finalizing, Life, Sound, Ended, Alive, Pcs,
          Stops, Landed
  <2> QED BY <2>1, <2>4, <2>10 DEF c, z
<1> HIDE DEF w, e, f, Moved
<1>3. Heard(driver, w, p0 \o <<e, f>>) BY <1>1, <1>2, SaysTwo
<1> QED BY <1>3 DEF w, e, f

(* Before the run starts a move between points changes nothing else: the   *)
(* driver hears nothing.                                                   *)
LEMMA PassedHeard ==
  ASSUME NEW p0, Heard(driver, worker, p0), Sound(worker), Alive,
         (driver.scan <=> worker.kind = "scan"),
         NEW p \in {"preflight", "erase", "plan", "refresh", "index"},
         worker.pc \in {"hello", "preflight"},
         p \in {"erase", "plan", "refresh"} => worker.kind # "scan",
         p = "index" => worker.kind = "scan", worker.pc = "preflight"
  PROVE  Heard(driver, Moved(p), p0)
<1> DEFINE w == Moved(p)
<1> USE DEF Early, Acting, Inside, Working, Moved
<1>1. ASSUME NEW u \in Views, Reflects(worker, u) PROVE Reflects(w, u)
  BY <1>1, AtTrack, Fields, ViewFields
     DEF Reflects, Reading, Scanning, Sound, Ended, Alive, Pcs, Stops, Landed
<1> HIDE DEF w, Moved
<1>2. Heard(driver, w, p0) BY <1>1, SaysNothing
<1> QED BY <1>2 DEF w

(* A prompt: the driver hears what it says.                                *)
LEMMA AskedHeard ==
  ASSUME NEW p0, Heard(driver, worker, p0), Sound(worker), Alive,
         (driver.scan <=> worker.kind = "scan"),
         worker.pc = "preflight", worker.kind # "scan", worker.prompts > 0
  PROVE  Heard(driver, Asked, p0 \o <<Plain("prompt")>>)
<1> DEFINE w == Asked
<1> USE DEF Early, Acting, Inside, Working, Asked
<1> DEFINE e == Plain("prompt")
<1>1. e \in Events BY EventShape, TracksFinite, Fields DEF Plain, Finalizing, Sound, Names
<1>2. ASSUME NEW u \in Views, Reflects(worker, u)
      PROVE  Legal(driver.scan, u, e) /\ Reflects(w, Consumed(driver.scan, u, e))
  <2>1. worker \in Workers BY DEF Sound
  <2> USE <1>2, <2>1, Fields, ViewFields, TracksFinite
      DEF Reflects, Reading, Scanning, Consumed, Stops, Plain, Event, Finalizing, Advance,
         RunningNext, FinalizingNext, GracefulNext, ScanNext, Outcome, Illegal, Life, Sound, Ended,
         Alive, Pcs
  <2>2. Advance(driver.scan, u.life, e) \in Lives /\ Advance(driver.scan, u.life, e) # Illegal
    BY DEF Lives
  <2>3. Legal(driver.scan, u, e) BY <2>2 DEF Legal, Views
  <2>4. Reflects(w, Consumed(driver.scan, u, e)) BY AtTrack, SkippedCounted DEF Landed
  <2> QED BY <2>3, <2>4
<1> HIDE DEF w, e, Asked
<1>3. Heard(driver, w, p0 \o <<e>>) BY <1>1, <1>2, SaysOne
<1> QED BY <1>3 DEF w, e

(* A retry goes back to the checks: the driver hears nothing.              *)
LEMMA RetriedHeard ==
  ASSUME NEW p0, Heard(driver, worker, p0), Sound(worker), Alive,
         (driver.scan <=> worker.kind = "scan"),
         worker.pc = "prompt"
  PROVE  Heard(driver, Retried, p0)
<1> DEFINE w == Retried
<1> USE DEF Early, Acting, Inside, Working, Retried
<1>1. ASSUME NEW u \in Views, Reflects(worker, u) PROVE Reflects(w, u)
  BY <1>1, AtTrack, Fields, ViewFields
     DEF Reflects, Reading, Scanning, Sound, Ended, Alive, Pcs, Stops, Landed
<1> HIDE DEF w, Retried
<1>2. Heard(driver, w, p0) BY <1>1, SaysNothing
<1> QED BY <1>2 DEF w

(* An abort ends the run: the driver hears what it says.                   *)
LEMMA AbortedHeard ==
  ASSUME NEW p0, Heard(driver, worker, p0), Sound(worker), Alive,
         (driver.scan <=> worker.kind = "scan"),
         worker.pc = "prompt"
  PROVE  Heard(driver, Aborted, p0 \o <<Plain("error")>>)
<1> DEFINE w == Aborted
<1> USE DEF Early, Acting, Inside, Working, Aborted
<1> DEFINE e == Plain("error")
<1>1. e \in Events BY EventShape, TracksFinite, Fields DEF Plain, Finalizing, Sound, Names
<1>2. ASSUME NEW u \in Views, Reflects(worker, u)
      PROVE  Legal(driver.scan, u, e) /\ Reflects(w, Consumed(driver.scan, u, e))
  <2>1. worker \in Workers BY DEF Sound
  <2> USE <1>2, <2>1, Fields, ViewFields, TracksFinite
      DEF Reflects, Reading, Scanning, Consumed, Stops, Plain, Event, Finalizing, Advance,
         RunningNext, FinalizingNext, GracefulNext, ScanNext, Outcome, Illegal, Life, Sound, Ended,
         Alive, Pcs
  <2>2. Advance(driver.scan, u.life, e) \in Lives /\ Advance(driver.scan, u.life, e) # Illegal
    BY DEF Lives
  <2>3. Legal(driver.scan, u, e) BY <2>2 DEF Legal, Views
  <2>4. Reflects(w, Consumed(driver.scan, u, e)) BY AtTrack, SkippedCounted DEF Landed
  <2> QED BY <2>3, <2>4
<1> HIDE DEF w, e, Aborted
<1>3. Heard(driver, w, p0 \o <<e>>) BY <1>1, <1>2, SaysOne
<1> QED BY <1>3 DEF w, e

(* A fault ends the run, wherever it is: the driver hears what it says.    *)
LEMMA FaultedHeard ==
  ASSUME NEW p0, Heard(driver, worker, p0), Sound(worker), Alive,
         (driver.scan <=> worker.kind = "scan"),
         worker.faults > 0, worker.pc # "done", worker.kind # "scan", worker.pc # "hello", worker.ok
  PROVE  Heard(driver, Faulted, p0 \o <<Plain("error")>>)
<1> DEFINE w == Faulted
<1> USE DEF Early, Acting, Inside, Working, Faulted
<1> DEFINE e == Plain("error")
<1>1. e \in Events BY EventShape, TracksFinite, Fields DEF Plain, Finalizing, Sound, Names
<1>2. ASSUME NEW u \in Views, Reflects(worker, u)
      PROVE  Legal(driver.scan, u, e) /\ Reflects(w, Consumed(driver.scan, u, e))
  <2>1. worker \in Workers BY DEF Sound
  <2> USE <1>2, <2>1, Fields, ViewFields, TracksFinite
      DEF Reflects, Reading, Scanning, Consumed, Stops, Plain, Event, Finalizing, Advance,
         RunningNext, FinalizingNext, GracefulNext, ScanNext, Outcome, Illegal, Life, Sound, Ended,
         Alive, Pcs
  <2>2. Advance(driver.scan, u.life, e) \in Lives /\ Advance(driver.scan, u.life, e) # Illegal
    BY DEF Lives
  <2>3. Legal(driver.scan, u, e) BY <2>2 DEF Legal, Views
  <2>4. Reflects(w, Consumed(driver.scan, u, e)) BY AtTrack, SkippedCounted DEF Landed
  <2> QED BY <2>3, <2>4
<1> HIDE DEF w, e, Faulted
<1>3. Heard(driver, w, p0 \o <<e>>) BY <1>1, <1>2, SaysOne
<1> QED BY <1>3 DEF w, e

(* A fault ends the run, wherever it is: the driver hears nothing.         *)
LEMMA FaultedScanHeard ==
  ASSUME NEW p0, Heard(driver, worker, p0), Sound(worker), Alive,
         (driver.scan <=> worker.kind = "scan"),
         worker.faults > 0, worker.pc # "done", worker.kind = "scan", worker.pc # "hello"
  PROVE  Heard(driver, Faulted, p0)
<1> DEFINE w == Faulted
<1> USE DEF Early, Acting, Inside, Working, Faulted
<1>1. ASSUME NEW u \in Views, Reflects(worker, u) PROVE Reflects(w, u)
  BY <1>1, AtTrack, Fields, ViewFields
     DEF Reflects, Reading, Scanning, Sound, Ended, Alive, Pcs, Stops, Landed
<1> HIDE DEF w, Faulted
<1>2. Heard(driver, w, p0) BY <1>1, SaysNothing
<1> QED BY <1>2 DEF w

(* A scan that has to ask fails: the driver hears nothing.                 *)
LEMMA AskedScanHeard ==
  ASSUME NEW p0, Heard(driver, worker, p0), Sound(worker), Alive,
         (driver.scan <=> worker.kind = "scan"),
         worker.kind = "scan", worker.pc = "preflight", worker.prompts > 0
  PROVE  Heard(driver, AskedScan, p0)
<1> DEFINE w == AskedScan
<1> USE DEF Early, Acting, Inside, Working, AskedScan
<1>1. ASSUME NEW u \in Views, Reflects(worker, u) PROVE Reflects(w, u)
  BY <1>1, AtTrack, Fields, ViewFields
     DEF Reflects, Reading, Scanning, Sound, Ended, Alive, Pcs, Stops, Landed
<1> HIDE DEF w, AskedScan
<1>2. Heard(driver, w, p0) BY <1>1, SaysNothing
<1> QED BY <1>2 DEF w

(* The empty checkpoint is published: the driver hears what it says.       *)
LEMMA ErasedHeard ==
  ASSUME NEW p0, Heard(driver, worker, p0), Sound(worker), Alive,
         (driver.scan <=> worker.kind = "scan"),
         worker.pc = "erase"
  PROVE  Heard(driver, Erased, p0 \o <<Plain("progress")>>)
<1> DEFINE w == Erased
<1> USE DEF Early, Acting, Inside, Working, Erased
<1> DEFINE e == Plain("progress")
<1>1. e \in Events BY EventShape, TracksFinite, Fields DEF Plain, Finalizing, Sound, Names
<1>2. ASSUME NEW u \in Views, Reflects(worker, u)
      PROVE  Legal(driver.scan, u, e) /\ Reflects(w, Consumed(driver.scan, u, e))
  <2>1. worker \in Workers BY DEF Sound
  <2> USE <1>2, <2>1, Fields, ViewFields, TracksFinite
      DEF Reflects, Reading, Scanning, Consumed, Stops, Plain, Event, Finalizing, Advance,
         RunningNext, FinalizingNext, GracefulNext, ScanNext, Outcome, Illegal, Life, Sound, Ended,
         Alive, Pcs
  <2>2. Advance(driver.scan, u.life, e) \in Lives /\ Advance(driver.scan, u.life, e) # Illegal
    BY DEF Lives
  <2>3. Legal(driver.scan, u, e) BY <2>2 DEF Legal, Views
  <2>4. Reflects(w, Consumed(driver.scan, u, e)) BY AtTrack, SkippedCounted DEF Landed
  <2> QED BY <2>3, <2>4
<1> HIDE DEF w, e, Erased
<1>3. Heard(driver, w, p0 \o <<e>>) BY <1>1, <1>2, SaysOne
<1> QED BY <1>3 DEF w, e

(* A refresh of one more track, or of the last: the driver hears nothing.  *)
LEMMA SummedHeard ==
  ASSUME NEW p0, Heard(driver, worker, p0), Sound(worker), Alive,
         (driver.scan <=> worker.kind = "scan"),
         worker.pc = "refresh",
         NEW p \in {"refresh", "finish"},
         NEW n \in Nat
  PROVE  Heard(driver, Refreshed(p, n), p0 \o <<Event("summary", Cardinality(Tracks))>>)
<1> DEFINE w == Refreshed(p, n)
<1> USE DEF Early, Acting, Inside, Working, Refreshed
<1> DEFINE e == Event("summary", Cardinality(Tracks))
<1>1. e \in Events BY EventShape, TracksFinite, Fields DEF Plain, Finalizing, Sound, Names
<1>2. ASSUME NEW u \in Views, Reflects(worker, u)
      PROVE  Legal(driver.scan, u, e) /\ Reflects(w, Consumed(driver.scan, u, e))
  <2>1. worker \in Workers BY DEF Sound
  <2> USE <1>2, <2>1, Fields, ViewFields, TracksFinite
      DEF Reflects, Reading, Scanning, Consumed, Stops, Plain, Event, Finalizing, Advance,
         RunningNext, FinalizingNext, GracefulNext, ScanNext, Outcome, Illegal, Life, Sound, Ended,
         Alive, Pcs
  <2>2. Advance(driver.scan, u.life, e) \in Lives /\ Advance(driver.scan, u.life, e) # Illegal
    BY DEF Lives
  <2>3. Legal(driver.scan, u, e) BY <2>2 DEF Legal, Views
  <2>4. Reflects(w, Consumed(driver.scan, u, e)) BY AtTrack, SkippedCounted DEF Landed
  <2> QED BY <2>3, <2>4
<1> HIDE DEF w, e, Refreshed
<1>3. Heard(driver, w, p0 \o <<e>>) BY <1>1, <1>2, SaysOne
<1> QED BY <1>3 DEF w, e

(* A refresh of one more track, or of the last: the driver hears nothing.  *)
LEMMA RefreshedHeard ==
  ASSUME NEW p0, Heard(driver, worker, p0), Sound(worker), Alive,
         (driver.scan <=> worker.kind = "scan"),
         worker.pc = "refresh",
         NEW p \in {"refresh", "finish"},
         NEW n \in Nat
  PROVE  Heard(driver, Refreshed(p, n), p0 \o <<Plain("done")>>)
<1> DEFINE w == Refreshed(p, n)
<1> USE DEF Early, Acting, Inside, Working, Refreshed
<1> DEFINE e == Plain("done")
<1>1. e \in Events BY EventShape, TracksFinite, Fields DEF Plain, Finalizing, Sound, Names
<1>2. ASSUME NEW u \in Views, Reflects(worker, u)
      PROVE  Legal(driver.scan, u, e) /\ Reflects(w, Consumed(driver.scan, u, e))
  <2>1. worker \in Workers BY DEF Sound
  <2> USE <1>2, <2>1, Fields, ViewFields, TracksFinite
      DEF Reflects, Reading, Scanning, Consumed, Stops, Plain, Event, Finalizing, Advance,
         RunningNext, FinalizingNext, GracefulNext, ScanNext, Outcome, Illegal, Life, Sound, Ended,
         Alive, Pcs
  <2>2. Advance(driver.scan, u.life, e) \in Lives /\ Advance(driver.scan, u.life, e) # Illegal
    BY DEF Lives
  <2>3. Legal(driver.scan, u, e) BY <2>2 DEF Legal, Views
  <2>4. Reflects(w, Consumed(driver.scan, u, e)) BY AtTrack, SkippedCounted DEF Landed
  <2> QED BY <2>3, <2>4
<1> HIDE DEF w, e, Refreshed
<1>3. Heard(driver, w, p0 \o <<e>>) BY <1>1, <1>2, SaysOne
<1> QED BY <1>3 DEF w, e

(* The index is saved, or there is nothing to do: the driver hears what it *)
(* says.                                                                   *)
LEMMA IndexedHeard ==
  ASSUME NEW p0, Heard(driver, worker, p0), Sound(worker), Alive,
         (driver.scan <=> worker.kind = "scan"),
         worker.pc \in {"index", "plan"}, worker.pc = "index"
  PROVE  Heard(driver, Indexed, p0 \o <<Plain("scan_progress")>>)
<1> DEFINE w == Indexed
<1> USE DEF Early, Acting, Inside, Working, Indexed
<1> DEFINE e == Plain("scan_progress")
<1>1. e \in Events BY EventShape, TracksFinite, Fields DEF Plain, Finalizing, Sound, Names
<1>2. ASSUME NEW u \in Views, Reflects(worker, u)
      PROVE  Legal(driver.scan, u, e) /\ Reflects(w, Consumed(driver.scan, u, e))
  <2>1. worker \in Workers BY DEF Sound
  <2> USE <1>2, <2>1, Fields, ViewFields, TracksFinite
      DEF Reflects, Reading, Scanning, Consumed, Stops, Plain, Event, Finalizing, Advance,
         RunningNext, FinalizingNext, GracefulNext, ScanNext, Outcome, Illegal, Life, Sound, Ended,
         Alive, Pcs
  <2>2. Advance(driver.scan, u.life, e) \in Lives /\ Advance(driver.scan, u.life, e) # Illegal
    BY DEF Lives
  <2>3. Legal(driver.scan, u, e) BY <2>2 DEF Legal, Views
  <2>4. Reflects(w, Consumed(driver.scan, u, e)) BY AtTrack, SkippedCounted DEF Landed
  <2> QED BY <2>3, <2>4
<1> HIDE DEF w, e, Indexed
<1>3. Heard(driver, w, p0 \o <<e>>) BY <1>1, <1>2, SaysOne
<1> QED BY <1>3 DEF w, e

(* The index is saved, or there is nothing to do: the driver hears what it *)
(* says.                                                                   *)
LEMMA NothingHeard ==
  ASSUME NEW p0, Heard(driver, worker, p0), Sound(worker), Alive,
         (driver.scan <=> worker.kind = "scan"),
         worker.pc \in {"index", "plan"}, worker.pc = "plan"
  PROVE  Heard(driver, Indexed, p0 \o <<Event("summary", 0)>>)
<1> DEFINE w == Indexed
<1> USE DEF Early, Acting, Inside, Working, Indexed
<1> DEFINE e == Event("summary", 0)
<1>1. e \in Events BY EventShape, TracksFinite, Fields DEF Plain, Finalizing, Sound, Names
<1>2. ASSUME NEW u \in Views, Reflects(worker, u)
      PROVE  Legal(driver.scan, u, e) /\ Reflects(w, Consumed(driver.scan, u, e))
  <2>1. worker \in Workers BY DEF Sound
  <2> USE <1>2, <2>1, Fields, ViewFields, TracksFinite
      DEF Reflects, Reading, Scanning, Consumed, Stops, Plain, Event, Finalizing, Advance,
         RunningNext, FinalizingNext, GracefulNext, ScanNext, Outcome, Illegal, Life, Sound, Ended,
         Alive, Pcs
  <2>2. Advance(driver.scan, u.life, e) \in Lives /\ Advance(driver.scan, u.life, e) # Illegal
    BY DEF Lives
  <2>3. Legal(driver.scan, u, e) BY <2>2 DEF Legal, Views
  <2>4. Reflects(w, Consumed(driver.scan, u, e)) BY AtTrack, SkippedCounted DEF Landed
  <2> QED BY <2>3, <2>4
<1> HIDE DEF w, e, Indexed
<1>3. Heard(driver, w, p0 \o <<e>>) BY <1>1, <1>2, SaysOne
<1> QED BY <1>3 DEF w, e

(* The plan is made: the driver hears what it says.                        *)
LEMMA PlannedHeard ==
  ASSUME NEW p0, Heard(driver, worker, p0), Sound(worker), Alive,
         (driver.scan <=> worker.kind = "scan"),
         worker.pc = "plan"
  PROVE  Heard(driver, Planned, p0 \o <<Event("summary", Cardinality(Tracks))>>)
<1> DEFINE w == Planned
<1> USE DEF Early, Acting, Inside, Working, Planned
<1> DEFINE e == Event("summary", Cardinality(Tracks))
<1>1. e \in Events BY EventShape, TracksFinite, Fields DEF Plain, Finalizing, Sound, Names
<1>2. ASSUME NEW u \in Views, Reflects(worker, u)
      PROVE  Legal(driver.scan, u, e) /\ Reflects(w, Consumed(driver.scan, u, e))
  <2>1. worker \in Workers BY DEF Sound
  <2> USE <1>2, <2>1, Fields, ViewFields, TracksFinite
      DEF Reflects, Reading, Scanning, Consumed, Stops, Plain, Event, Finalizing, Advance,
         RunningNext, FinalizingNext, GracefulNext, ScanNext, Outcome, Illegal, Life, Sound, Ended,
         Alive, Pcs
  <2>2. Advance(driver.scan, u.life, e) \in Lives /\ Advance(driver.scan, u.life, e) # Illegal
    BY DEF Lives
  <2>3. Legal(driver.scan, u, e) BY <2>2 DEF Legal, Views
  <2>4. Reflects(w, Consumed(driver.scan, u, e)) BY AtTrack, SkippedCounted DEF Landed
  <2> QED BY <2>3, <2>4
<1> HIDE DEF w, e, Planned
<1>3. Heard(driver, w, p0 \o <<e>>) BY <1>1, <1>2, SaysOne
<1> QED BY <1>3 DEF w, e

(* The artwork is prepared: the driver hears nothing.                      *)
LEMMA PreparedHeard ==
  ASSUME NEW p0, Heard(driver, worker, p0), Sound(worker), Alive,
         (driver.scan <=> worker.kind = "scan"),
         worker.pc = "admit0"
  PROVE  Heard(driver, Prepared, p0)
<1> DEFINE w == Prepared
<1> USE DEF Early, Acting, Inside, Working, Prepared
<1>1. ASSUME NEW u \in Views, Reflects(worker, u) PROVE Reflects(w, u)
  BY <1>1, AtTrack, Fields, ViewFields
     DEF Reflects, Reading, Scanning, Sound, Ended, Alive, Pcs, Stops, Landed
<1> HIDE DEF w, Prepared
<1>2. Heard(driver, w, p0) BY <1>1, SaysNothing
<1> QED BY <1>2 DEF w

(* A stop before the first album: the driver hears what it says.           *)
LEMMA StoppedEarlyHeard ==
  ASSUME NEW p0, Heard(driver, worker, p0), Sound(worker), Alive,
         (driver.scan <=> worker.kind = "scan"),
         worker.pc = "admit0", worker.kind # "scan",
         NEW s \in Stops
  PROVE  Heard(driver, StoppedEarly(s), p0 \o <<Finalizing(s)>>)
<1> DEFINE w == StoppedEarly(s)
<1> USE DEF Early, Acting, Inside, Working, StoppedEarly
<1> DEFINE e == Finalizing(s)
<1>1. e \in Events BY EventShape, TracksFinite, Fields DEF Plain, Finalizing, Sound, Names
<1>2. ASSUME NEW u \in Views, Reflects(worker, u)
      PROVE  Legal(driver.scan, u, e) /\ Reflects(w, Consumed(driver.scan, u, e))
  <2>1. worker \in Workers BY DEF Sound
  <2> USE <1>2, <2>1, Fields, ViewFields, TracksFinite
      DEF Reflects, Reading, Scanning, Consumed, Stops, Plain, Event, Finalizing, Advance,
         RunningNext, FinalizingNext, GracefulNext, ScanNext, Outcome, Illegal, Life, Sound, Ended,
         Alive, Pcs
  <2>2. Advance(driver.scan, u.life, e) \in Lives /\ Advance(driver.scan, u.life, e) # Illegal
    BY DEF Lives
  <2>3. Legal(driver.scan, u, e) BY <2>2 DEF Legal, Views
  <2>4. Reflects(w, Consumed(driver.scan, u, e)) BY AtTrack, SkippedCounted DEF Landed
  <2> QED BY <2>3, <2>4
<1> HIDE DEF w, e, StoppedEarly
<1>3. Heard(driver, w, p0 \o <<e>>) BY <1>1, <1>2, SaysOne
<1> QED BY <1>3 DEF w, e

(* No album is left: the driver hears nothing.                             *)
LEMMA LastAlbumHeard ==
  ASSUME NEW p0, Heard(driver, worker, p0), Sound(worker), Alive,
         (driver.scan <=> worker.kind = "scan"),
         worker.pc = "admit", worker.album = Len(Albums)
  PROVE  Heard(driver, LastAlbum, p0)
<1> DEFINE w == LastAlbum
<1> USE DEF Early, Acting, Inside, Working, LastAlbum
<1>1. ASSUME NEW u \in Views, Reflects(worker, u) PROVE Reflects(w, u)
  BY <1>1, AtTrack, Fields, ViewFields
     DEF Reflects, Reading, Scanning, Sound, Ended, Alive, Pcs, Stops, Landed
<1> HIDE DEF w, LastAlbum
<1>2. Heard(driver, w, p0) BY <1>1, SaysNothing
<1> QED BY <1>2 DEF w

(* The next album is begun: the driver hears nothing.                      *)
LEMMA NextAlbumHeard ==
  ASSUME NEW p0, Heard(driver, worker, p0), Sound(worker), Alive,
         (driver.scan <=> worker.kind = "scan"),
         worker.pc = "admit", worker.album < Len(Albums)
  PROVE  Heard(driver, NextAlbum, p0)
<1> DEFINE w == NextAlbum
<1> USE DEF Early, Acting, Inside, Working, NextAlbum
<1>1. ASSUME NEW u \in Views, Reflects(worker, u) PROVE Reflects(w, u)
  BY <1>1, AtTrack, Fields, ViewFields
     DEF Reflects, Reading, Scanning, Sound, Ended, Alive, Pcs, Stops, Landed
<1> HIDE DEF w, NextAlbum
<1>2. Heard(driver, w, p0) BY <1>1, SaysNothing
<1> QED BY <1>2 DEF w

(* A stop between two albums: the driver hears nothing.                    *)
LEMMA StoppedBetweenHeard ==
  ASSUME NEW p0, Heard(driver, worker, p0), Sound(worker), Alive,
         (driver.scan <=> worker.kind = "scan"),
         worker.pc = "admit",
         NEW s \in Stops
  PROVE  Heard(driver, StoppedBetween(s), p0)
<1> DEFINE w == StoppedBetween(s)
<1> USE DEF Early, Acting, Inside, Working, StoppedBetween
<1>1. ASSUME NEW u \in Views, Reflects(worker, u) PROVE Reflects(w, u)
  BY <1>1, AtTrack, Fields, ViewFields
     DEF Reflects, Reading, Scanning, Sound, Ended, Alive, Pcs, Stops, Landed
<1> HIDE DEF w, StoppedBetween
<1>2. Heard(driver, w, p0) BY <1>1, SaysNothing
<1> QED BY <1>2 DEF w

(* A stop between two tracks: the driver hears nothing.                    *)
LEMMA StoppedAtHeard ==
  ASSUME NEW p0, Heard(driver, worker, p0), Sound(worker), Alive,
         (driver.scan <=> worker.kind = "scan"),
         worker.pc = "track",
         NEW s \in Stops
  PROVE  Heard(driver, StoppedAt(s), p0)
<1> DEFINE w == StoppedAt(s)
<1> USE DEF Early, Acting, Inside, Working, StoppedAt
<1>1. ASSUME NEW u \in Views, Reflects(worker, u) PROVE Reflects(w, u)
  BY <1>1, AtTrack, Fields, ViewFields
     DEF Reflects, Reading, Scanning, Sound, Ended, Alive, Pcs, Stops, Landed
<1> HIDE DEF w, StoppedAt
<1>2. Heard(driver, w, p0) BY <1>1, SaysNothing
<1> QED BY <1>2 DEF w

(* The last track of the album is done with: the driver hears nothing.     *)
LEMMA AlbumDoneHeard ==
  ASSUME NEW p0, Heard(driver, worker, p0), Sound(worker), Alive,
         (driver.scan <=> worker.kind = "scan"),
         worker.pc = "track", worker.track > Len(Albums[worker.album])
  PROVE  Heard(driver, AlbumDone, p0)
<1> DEFINE w == AlbumDone
<1> USE DEF Early, Acting, Inside, Working, AlbumDone
<1>1. ASSUME NEW u \in Views, Reflects(worker, u) PROVE Reflects(w, u)
  BY <1>1, AtTrack, Fields, ViewFields
     DEF Reflects, Reading, Scanning, Sound, Ended, Alive, Pcs, Stops, Landed
<1> HIDE DEF w, AlbumDone
<1>2. Heard(driver, w, p0) BY <1>1, SaysNothing
<1> QED BY <1>2 DEF w

(* A transcoded track is recorded and copied: the driver hears nothing.    *)
LEMMA TookHeard ==
  ASSUME NEW p0, Heard(driver, worker, p0), Sound(worker), Alive,
         (driver.scan <=> worker.kind = "scan"),
         worker.pc = "add", worker.track \in worker.ready
  PROVE  Heard(driver, Took, p0)
<1> DEFINE w == Took
<1> USE DEF Early, Acting, Inside, Working, Took
<1>1. ASSUME NEW u \in Views, Reflects(worker, u) PROVE Reflects(w, u)
  BY <1>1, AtTrack, Fields, ViewFields
     DEF Reflects, Reading, Scanning, Sound, Ended, Alive, Pcs, Stops, Landed
<1> HIDE DEF w, Took
<1>2. Heard(driver, w, p0) BY <1>1, SaysNothing
<1> QED BY <1>2 DEF w

(* A job is fed while a permit is left: the driver hears nothing.          *)
LEMMA FedHeard ==
  ASSUME NEW p0, Heard(driver, worker, p0), Sound(worker), Alive,
         (driver.scan <=> worker.kind = "scan"),
         NEW j \in Nat, j \notin worker.fed, worker.pc \in Inside, Permits > 0
  PROVE  Heard(driver, Fed(j), p0)
<1> DEFINE w == Fed(j)
<1> USE DEF Early, Acting, Inside, Working, Fed
<1>1. ASSUME NEW u \in Views, Reflects(worker, u) PROVE Reflects(w, u)
  BY <1>1, AtTrack, Fields, ViewFields
     DEF Reflects, Reading, Scanning, Sound, Ended, Alive, Pcs, Stops, Landed
<1> HIDE DEF w, Fed
<1>2. Heard(driver, w, p0) BY <1>1, SaysNothing
<1> QED BY <1>2 DEF w

(* A transcode starts: the driver hears nothing.                           *)
LEMMA StartedHeard ==
  ASSUME NEW p0, Heard(driver, worker, p0), Sound(worker), Alive,
         (driver.scan <=> worker.kind = "scan"),
         NEW j \in worker.fed, worker.pc \in Inside
  PROVE  Heard(driver, Started(j), p0)
<1> DEFINE w == Started(j)
<1> USE DEF Early, Acting, Inside, Working, Started
<1>1. ASSUME NEW u \in Views, Reflects(worker, u) PROVE Reflects(w, u)
  BY <1>1, AtTrack, Fields, ViewFields
     DEF Reflects, Reading, Scanning, Sound, Ended, Alive, Pcs, Stops, Landed
<1> HIDE DEF w, Started
<1>2. Heard(driver, w, p0) BY <1>1, SaysNothing
<1> QED BY <1>2 DEF w

(* A transcode ends: the driver hears nothing.                             *)
LEMMA ReadyHeard ==
  ASSUME NEW p0, Heard(driver, worker, p0), Sound(worker), Alive,
         (driver.scan <=> worker.kind = "scan"),
         NEW j \in worker.running
  PROVE  Heard(driver, Ready(j), p0)
<1> DEFINE w == Ready(j)
<1> USE DEF Early, Acting, Inside, Working, Ready
<1>1. ASSUME NEW u \in Views, Reflects(worker, u) PROVE Reflects(w, u)
  BY <1>1, AtTrack, Fields, ViewFields
     DEF Reflects, Reading, Scanning, Sound, Ended, Alive, Pcs, Stops, Landed
<1> HIDE DEF w, Ready
<1>2. Heard(driver, w, p0) BY <1>1, SaysNothing
<1> QED BY <1>2 DEF w

(* A transcode fails: the driver hears nothing.                            *)
LEMMA ReadyFailedHeard ==
  ASSUME NEW p0, Heard(driver, worker, p0), Sound(worker), Alive,
         (driver.scan <=> worker.kind = "scan"),
         NEW j \in worker.running, worker.faults > 0
  PROVE  Heard(driver, ReadyFailed(j), p0)
<1> DEFINE w == ReadyFailed(j)
<1> USE DEF Early, Acting, Inside, Working, ReadyFailed
<1>1. ASSUME NEW u \in Views, Reflects(worker, u) PROVE Reflects(w, u)
  BY <1>1, AtTrack, Fields, ViewFields
     DEF Reflects, Reading, Scanning, Sound, Ended, Alive, Pcs, Stops, Landed
<1> HIDE DEF w, ReadyFailed
<1>2. Heard(driver, w, p0) BY <1>1, SaysNothing
<1> QED BY <1>2 DEF w

(* The transcoder is joined and the run goes on: the driver hears nothing. *)
LEMMA JoinedOnHeard ==
  ASSUME NEW p0, Heard(driver, worker, p0), Sound(worker), Alive,
         (driver.scan <=> worker.kind = "scan"),
         worker.pc = "join", worker.running = {}, worker.stop = "none"
  PROVE  Heard(driver, JoinedOn, p0)
<1> DEFINE w == JoinedOn
<1> USE DEF Early, Acting, Inside, Working, JoinedOn
<1>1. ASSUME NEW u \in Views, Reflects(worker, u) PROVE Reflects(w, u)
  BY <1>1, AtTrack, Fields, ViewFields
     DEF Reflects, Reading, Scanning, Sound, Ended, Alive, Pcs, Stops, Landed
<1> HIDE DEF w, JoinedOn
<1>2. Heard(driver, w, p0) BY <1>1, SaysNothing
<1> QED BY <1>2 DEF w

(* The transcoder is joined and the run stops: the driver hears nothing.   *)
LEMMA JoinedOffHeard ==
  ASSUME NEW p0, Heard(driver, worker, p0), Sound(worker), Alive,
         (driver.scan <=> worker.kind = "scan"),
         worker.pc = "join", worker.stop # "none"
  PROVE  Heard(driver, JoinedOff, p0)
<1> DEFINE w == JoinedOff
<1> USE DEF Early, Acting, Inside, Working, JoinedOff
<1>1. ASSUME NEW u \in Views, Reflects(worker, u) PROVE Reflects(w, u)
  BY <1>1, AtTrack, Fields, ViewFields
     DEF Reflects, Reading, Scanning, Sound, Ended, Alive, Pcs, Stops, Landed
<1> HIDE DEF w, JoinedOff
<1>2. Heard(driver, w, p0) BY <1>1, SaysNothing
<1> QED BY <1>2 DEF w

(* No checkpoint is due: the driver hears nothing.                         *)
LEMMA NotDueHeard ==
  ASSUME NEW p0, Heard(driver, worker, p0), Sound(worker), Alive,
         (driver.scan <=> worker.kind = "scan"),
         worker.pc = "boundary"
  PROVE  Heard(driver, NotDue, p0)
<1> DEFINE w == NotDue
<1> USE DEF Early, Acting, Inside, Working, NotDue
<1>1. ASSUME NEW u \in Views, Reflects(worker, u) PROVE Reflects(w, u)
  BY <1>1, AtTrack, Fields, ViewFields
     DEF Reflects, Reading, Scanning, Sound, Ended, Alive, Pcs, Stops, Landed
<1> HIDE DEF w, NotDue
<1>2. Heard(driver, w, p0) BY <1>1, SaysNothing
<1> QED BY <1>2 DEF w

(* The process dies, or is killed: the driver hears nothing.               *)
LEMMA DiedHeard ==
  ASSUME NEW p0, Heard(driver, worker, p0), Sound(worker), Alive,
         (driver.scan <=> worker.kind = "scan"),
         NEW n \in Nat,
         NEW e \in {"killed", "terminated"}
  PROVE  Heard(driver, Died(n, e), p0)
<1> DEFINE w == Died(n, e)
<1> USE DEF Early, Acting, Inside, Working, Died
<1>1. ASSUME NEW u \in Views, Reflects(worker, u) PROVE Reflects(w, u)
  BY <1>1, AtTrack, Fields, ViewFields
     DEF Reflects, Reading, Scanning, Sound, Ended, Alive, Pcs, Stops, Landed
<1> HIDE DEF w, Died
<1>2. Heard(driver, w, p0) BY <1>1, SaysNothing
<1> QED BY <1>2 DEF w

(* An action is begun: the driver hears what it says.                      *)
LEMMA BegunHeard ==
  ASSUME NEW p0, Heard(driver, worker, p0), Sound(worker), Alive,
         (driver.scan <=> worker.kind = "scan"),
         worker.pc = "track", worker.track <= Len(Albums[worker.album])
  PROVE  Heard(driver, Begun, p0 \o <<Plain("progress")>>)
<1> DEFINE w == Begun
<1> USE DEF Early, Acting, Inside, Working, Begun
<1> DEFINE e == Plain("progress")
<1>1. e \in Events BY EventShape, TracksFinite, Fields DEF Plain, Finalizing, Sound, Names
<1>2. ASSUME NEW u \in Views, Reflects(worker, u)
      PROVE  Legal(driver.scan, u, e) /\ Reflects(w, Consumed(driver.scan, u, e))
  <2>1. worker \in Workers BY DEF Sound
  <2> USE <1>2, <2>1, Fields, ViewFields, TracksFinite
      DEF Reflects, Reading, Scanning, Consumed, Stops, Plain, Event, Finalizing, Advance,
         RunningNext, FinalizingNext, GracefulNext, ScanNext, Outcome, Illegal, Life, Sound, Ended,
         Alive, Pcs
  <2>2. Advance(driver.scan, u.life, e) \in Lives /\ Advance(driver.scan, u.life, e) # Illegal
    BY DEF Lives
  <2>3. Legal(driver.scan, u, e) BY <2>2 DEF Legal, Views
  <2>4. Reflects(w, Consumed(driver.scan, u, e)) BY AtTrack, SkippedCounted DEF Landed
  <2> QED BY <2>3, <2>4
<1> HIDE DEF w, e, Begun
<1>3. Heard(driver, w, p0 \o <<e>>) BY <1>1, <1>2, SaysOne
<1> QED BY <1>3 DEF w, e

(* A removal or a metadata update is recorded: the driver hears what it    *)
(* says.                                                                   *)
LEMMA RecordedHeard ==
  ASSUME NEW p0, Heard(driver, worker, p0), Sound(worker), Alive,
         (driver.scan <=> worker.kind = "scan"),
         worker.pc \in {"remove", "metadata"}
  PROVE  Heard(driver, Recorded, p0 \o <<Plain("done")>>)
<1> DEFINE w == Recorded
<1> USE DEF Early, Acting, Inside, Working, Recorded
<1> DEFINE e == Plain("done")
<1>1. e \in Events BY EventShape, TracksFinite, Fields DEF Plain, Finalizing, Sound, Names
<1>2. ASSUME NEW u \in Views, Reflects(worker, u)
      PROVE  Legal(driver.scan, u, e) /\ Reflects(w, Consumed(driver.scan, u, e))
  <2>1. worker \in Workers BY DEF Sound
  <2> USE <1>2, <2>1, Fields, ViewFields, TracksFinite
      DEF Reflects, Reading, Scanning, Consumed, Stops, Plain, Event, Finalizing, Advance,
         RunningNext, FinalizingNext, GracefulNext, ScanNext, Outcome, Illegal, Life, Sound, Ended,
         Alive, Pcs
  <2>2. Advance(driver.scan, u.life, e) \in Lives /\ Advance(driver.scan, u.life, e) # Illegal
    BY DEF Lives
  <2>3. Legal(driver.scan, u, e) BY <2>2 DEF Legal, Views
  <2>4. Reflects(w, Consumed(driver.scan, u, e)) BY AtTrack, SkippedCounted DEF Landed
  <2> QED BY <2>3, <2>4
<1> HIDE DEF w, e, Recorded
<1>3. Heard(driver, w, p0 \o <<e>>) BY <1>1, <1>2, SaysOne
<1> QED BY <1>3 DEF w, e

(* A metadata update that cannot be read is skipped: the driver hears what *)
(* it says.                                                                *)
LEMMA UnreadHeard ==
  ASSUME NEW p0, Heard(driver, worker, p0), Sound(worker), Alive,
         (driver.scan <=> worker.kind = "scan"),
         worker.pc = "metadata", worker.faults > 0
  PROVE  Heard(driver, Unread, p0 \o <<Plain("error"), Plain("skipped")>>)
<1> DEFINE w == Unread
<1> USE DEF Early, Acting, Inside, Working, Unread
<1> DEFINE e == Plain("error")
<1> DEFINE f == Plain("skipped")
<1>1. e \in Events /\ f \in Events BY EventShape, Fields DEF Plain, Sound, Names
<1>2. ASSUME NEW u \in Views, Reflects(worker, u)
      PROVE  /\ Legal(driver.scan, u, e) /\ Legal(driver.scan, Consumed(driver.scan, u, e), f)
             /\ Reflects(w, Consumed(driver.scan, Consumed(driver.scan, u, e), f))
  <2> DEFINE c == Consumed(driver.scan, u, e)
  <2>0. worker \in Workers BY DEF Sound
  <2>1. Legal(driver.scan, u, e)
    BY <1>2, <2>0, Fields, ViewFields
       DEF Reflects, Reading, Scanning, Legal, Consumed, Views, Lives, Stops, Plain, Event,
          Finalizing, Advance, RunningNext, FinalizingNext, GracefulNext, ScanNext, Outcome,
          Illegal, Life, Sound, Ended, Alive, Pcs
  <2>2. c \in Views BY <2>1 DEF Legal
  <2>3. Advance(driver.scan, c.life, f) \in Lives /\ Advance(driver.scan, c.life, f) # Illegal
    BY <1>2, <2>0, <2>2, Fields, ViewFields
       DEF Reflects, Reading, Scanning, Consumed, Lives, Stops, Plain, Event, Finalizing, Advance,
          RunningNext, FinalizingNext, GracefulNext, ScanNext, Outcome, Illegal, Life, Sound, Ended,
          Alive, Pcs
  <2>4. Legal(driver.scan, c, f)
    <3> HIDE DEF c
    <3> QED BY <2>2, <2>3, Fields, ViewFields DEF Legal, Consumed, Views, Plain, Event, Finalizing
  <2>5. /\ c.total = u.total /\ c.errored = u.errored /\ c.finish = u.finish
            /\ (c.marked <=> u.marked)
        /\ (c.cancelled <=> u.cancelled \/ e.name = "cancelled")
                  /\ (c.paused <=> u.paused \/ e.name = "paused")
    BY DEF Consumed, Plain, Event, Finalizing
  <2>6. c.life = Life("running", "none", TRUE)
    BY <1>2, <2>0, <2>2, Fields, ViewFields
       DEF Reflects, Reading, Scanning, Consumed, Lives, Stops, Plain, Event, Finalizing, Advance,
          RunningNext, FinalizingNext, GracefulNext, ScanNext, Outcome, Illegal, Life, Sound, Ended,
          Alive, Pcs
  <2> DEFINE z == Consumed(driver.scan, c, f)
  <2> HIDE DEF c
  <2>7. z.life = c.life
    BY <2>6
       DEF Consumed, Plain, Event, Finalizing, Advance, RunningNext, FinalizingNext, GracefulNext,
          ScanNext, Outcome, Illegal, Life
  <2>8. /\ z.total = c.total /\ z.errored = c.errored + 1 /\ z.finish = c.finish
            /\ (z.marked <=> c.marked)
        /\ (z.cancelled <=> c.cancelled) /\ (z.paused <=> c.paused)
    BY DEF Consumed, Plain, Event, Finalizing
  <2> HIDE DEF z
  <2>9. c.errored \in Nat BY <2>2, ViewFields
  <2>10. Reflects(w, z)
    BY <1>2, <2>0, <2>5, <2>6, <2>7, <2>8, <2>9, AtTrack, Fields, SkippedCounted, TracksFinite
       DEF Reflects, Reading, Scanning, Plain, Event, Finalizing, Life, Sound, Ended, Alive, Pcs,
          Stops, Landed
  <2> QED BY <2>1, <2>4, <2>10 DEF c, z
<1> HIDE DEF w, e, f, Unread
<1>3. Heard(driver, w, p0 \o <<e, f>>) BY <1>1, <1>2, SaysTwo
<1> QED BY <1>3 DEF w, e, f

(* A failed transcode is skipped: the driver hears what it says.           *)
LEMMA TookFailureHeard ==
  ASSUME NEW p0, Heard(driver, worker, p0), Sound(worker), Alive,
         (driver.scan <=> worker.kind = "scan"),
         worker.pc = "add", worker.track \in worker.ready
  PROVE  Heard(driver, TookFailure, p0 \o <<Plain("error"), Plain("skipped")>>)
<1> DEFINE w == TookFailure
<1> USE DEF Early, Acting, Inside, Working, TookFailure
<1> DEFINE e == Plain("error")
<1> DEFINE f == Plain("skipped")
<1>1. e \in Events /\ f \in Events BY EventShape, Fields DEF Plain, Sound, Names
<1>2. ASSUME NEW u \in Views, Reflects(worker, u)
      PROVE  /\ Legal(driver.scan, u, e) /\ Legal(driver.scan, Consumed(driver.scan, u, e), f)
             /\ Reflects(w, Consumed(driver.scan, Consumed(driver.scan, u, e), f))
  <2> DEFINE c == Consumed(driver.scan, u, e)
  <2>0. worker \in Workers BY DEF Sound
  <2>1. Legal(driver.scan, u, e)
    BY <1>2, <2>0, Fields, ViewFields
       DEF Reflects, Reading, Scanning, Legal, Consumed, Views, Lives, Stops, Plain, Event,
          Finalizing, Advance, RunningNext, FinalizingNext, GracefulNext, ScanNext, Outcome,
          Illegal, Life, Sound, Ended, Alive, Pcs
  <2>2. c \in Views BY <2>1 DEF Legal
  <2>3. Advance(driver.scan, c.life, f) \in Lives /\ Advance(driver.scan, c.life, f) # Illegal
    BY <1>2, <2>0, <2>2, Fields, ViewFields
       DEF Reflects, Reading, Scanning, Consumed, Lives, Stops, Plain, Event, Finalizing, Advance,
          RunningNext, FinalizingNext, GracefulNext, ScanNext, Outcome, Illegal, Life, Sound, Ended,
          Alive, Pcs
  <2>4. Legal(driver.scan, c, f)
    <3> HIDE DEF c
    <3> QED BY <2>2, <2>3, Fields, ViewFields DEF Legal, Consumed, Views, Plain, Event, Finalizing
  <2>5. /\ c.total = u.total /\ c.errored = u.errored /\ c.finish = u.finish
            /\ (c.marked <=> u.marked)
        /\ (c.cancelled <=> u.cancelled \/ e.name = "cancelled")
                  /\ (c.paused <=> u.paused \/ e.name = "paused")
    BY DEF Consumed, Plain, Event, Finalizing
  <2>6. c.life = Life("running", "none", TRUE)
    BY <1>2, <2>0, <2>2, Fields, ViewFields
       DEF Reflects, Reading, Scanning, Consumed, Lives, Stops, Plain, Event, Finalizing, Advance,
          RunningNext, FinalizingNext, GracefulNext, ScanNext, Outcome, Illegal, Life, Sound, Ended,
          Alive, Pcs
  <2> DEFINE z == Consumed(driver.scan, c, f)
  <2> HIDE DEF c
  <2>7. z.life = c.life
    BY <2>6
       DEF Consumed, Plain, Event, Finalizing, Advance, RunningNext, FinalizingNext, GracefulNext,
          ScanNext, Outcome, Illegal, Life
  <2>8. /\ z.total = c.total /\ z.errored = c.errored + 1 /\ z.finish = c.finish
            /\ (z.marked <=> c.marked)
        /\ (z.cancelled <=> c.cancelled) /\ (z.paused <=> c.paused)
    BY DEF Consumed, Plain, Event, Finalizing
  <2> HIDE DEF z
  <2>9. c.errored \in Nat BY <2>2, ViewFields
  <2>10. Reflects(w, z)
    BY <1>2, <2>0, <2>5, <2>6, <2>7, <2>8, <2>9, AtTrack, Fields, SkippedCounted, TracksFinite
       DEF Reflects, Reading, Scanning, Plain, Event, Finalizing, Life, Sound, Ended, Alive, Pcs,
          Stops, Landed
  <2> QED BY <2>1, <2>4, <2>10 DEF c, z
<1> HIDE DEF w, e, f, TookFailure
<1>3. Heard(driver, w, p0 \o <<e, f>>) BY <1>1, <1>2, SaysTwo
<1> QED BY <1>3 DEF w, e, f

(* A copy lands: the driver hears what it says.                            *)
LEMMA CopiedHeard ==
  ASSUME NEW p0, Heard(driver, worker, p0), Sound(worker), Alive,
         (driver.scan <=> worker.kind = "scan"),
         worker.pc = "copy"
  PROVE  Heard(driver, Copied, p0 \o <<Plain("done")>>)
<1> DEFINE w == Copied
<1> USE DEF Early, Acting, Inside, Working, Copied
<1> DEFINE e == Plain("done")
<1>1. e \in Events BY EventShape, TracksFinite, Fields DEF Plain, Finalizing, Sound, Names
<1>2. ASSUME NEW u \in Views, Reflects(worker, u)
      PROVE  Legal(driver.scan, u, e) /\ Reflects(w, Consumed(driver.scan, u, e))
  <2>1. worker \in Workers BY DEF Sound
  <2> USE <1>2, <2>1, Fields, ViewFields, TracksFinite
      DEF Reflects, Reading, Scanning, Consumed, Stops, Plain, Event, Finalizing, Advance,
         RunningNext, FinalizingNext, GracefulNext, ScanNext, Outcome, Illegal, Life, Sound, Ended,
         Alive, Pcs
  <2>2. Advance(driver.scan, u.life, e) \in Lives /\ Advance(driver.scan, u.life, e) # Illegal
    BY DEF Lives
  <2>3. Legal(driver.scan, u, e) BY <2>2 DEF Legal, Views
  <2>4. Reflects(w, Consumed(driver.scan, u, e)) BY AtTrack, SkippedCounted DEF Landed
  <2> QED BY <2>3, <2>4
<1> HIDE DEF w, e, Copied
<1>3. Heard(driver, w, p0 \o <<e>>) BY <1>1, <1>2, SaysOne
<1> QED BY <1>3 DEF w, e

(* A copy that is stopped takes its record back: the driver hears what it  *)
(* says.                                                                   *)
LEMMA CutShortHeard ==
  ASSUME NEW p0, Heard(driver, worker, p0), Sound(worker), Alive,
         (driver.scan <=> worker.kind = "scan"),
         worker.pc = "copy",
         NEW s \in Stops
  PROVE  Heard(driver, CutShort(s), p0 \o <<Plain("skipped")>>)
<1> DEFINE w == CutShort(s)
<1> USE DEF Early, Acting, Inside, Working, CutShort
<1> DEFINE e == Plain("skipped")
<1>1. e \in Events BY EventShape, TracksFinite, Fields DEF Plain, Finalizing, Sound, Names
<1>2. ASSUME NEW u \in Views, Reflects(worker, u)
      PROVE  Legal(driver.scan, u, e) /\ Reflects(w, Consumed(driver.scan, u, e))
  <2>1. worker \in Workers BY DEF Sound
  <2> USE <1>2, <2>1, Fields, ViewFields, TracksFinite
      DEF Reflects, Reading, Scanning, Consumed, Stops, Plain, Event, Finalizing, Advance,
         RunningNext, FinalizingNext, GracefulNext, ScanNext, Outcome, Illegal, Life, Sound, Ended,
         Alive, Pcs
  <2>2. Advance(driver.scan, u.life, e) \in Lives /\ Advance(driver.scan, u.life, e) # Illegal
    BY DEF Lives
  <2>3. Legal(driver.scan, u, e) BY <2>2 DEF Legal, Views
  <2>4. Reflects(w, Consumed(driver.scan, u, e)) BY AtTrack, SkippedCounted DEF Landed
  <2> QED BY <2>3, <2>4
<1> HIDE DEF w, e, CutShort
<1>3. Heard(driver, w, p0 \o <<e>>) BY <1>1, <1>2, SaysOne
<1> QED BY <1>3 DEF w, e

(* A checkpoint is published between two albums: the driver hears what it  *)
(* says.                                                                   *)
LEMMA CheckpointedHeard ==
  ASSUME NEW p0, Heard(driver, worker, p0), Sound(worker), Alive,
         (driver.scan <=> worker.kind = "scan"),
         worker.pc = "boundary"
  PROVE  Heard(driver, Checkpointed, p0 \o <<Plain("progress")>>)
<1> DEFINE w == Checkpointed
<1> USE DEF Early, Acting, Inside, Working, Checkpointed
<1> DEFINE e == Plain("progress")
<1>1. e \in Events BY EventShape, TracksFinite, Fields DEF Plain, Finalizing, Sound, Names
<1>2. ASSUME NEW u \in Views, Reflects(worker, u)
      PROVE  Legal(driver.scan, u, e) /\ Reflects(w, Consumed(driver.scan, u, e))
  <2>1. worker \in Workers BY DEF Sound
  <2> USE <1>2, <2>1, Fields, ViewFields, TracksFinite
      DEF Reflects, Reading, Scanning, Consumed, Stops, Plain, Event, Finalizing, Advance,
         RunningNext, FinalizingNext, GracefulNext, ScanNext, Outcome, Illegal, Life, Sound, Ended,
         Alive, Pcs
  <2>2. Advance(driver.scan, u.life, e) \in Lives /\ Advance(driver.scan, u.life, e) # Illegal
    BY DEF Lives
  <2>3. Legal(driver.scan, u, e) BY <2>2 DEF Legal, Views
  <2>4. Reflects(w, Consumed(driver.scan, u, e)) BY AtTrack, SkippedCounted DEF Landed
  <2> QED BY <2>3, <2>4
<1> HIDE DEF w, e, Checkpointed
<1>3. Heard(driver, w, p0 \o <<e>>) BY <1>1, <1>2, SaysOne
<1> QED BY <1>3 DEF w, e

(* The last poll: the driver hears nothing.                                *)
LEMMA UnannouncedHeard ==
  ASSUME NEW p0, Heard(driver, worker, p0), Sound(worker), Alive,
         (driver.scan <=> worker.kind = "scan"),
         worker.pc = "stopping",
         NEW s \in Stops \cup {"none"}, worker.stop # "none" => s = worker.stop, s = "none"
  PROVE  Heard(driver, Announced(s), p0)
<1> DEFINE w == Announced(s)
<1> USE DEF Early, Acting, Inside, Working, Announced
<1>1. ASSUME NEW u \in Views, Reflects(worker, u) PROVE Reflects(w, u)
  BY <1>1, AtTrack, Fields, ViewFields
     DEF Reflects, Reading, Scanning, Sound, Ended, Alive, Pcs, Stops, Landed
<1> HIDE DEF w, Announced
<1>2. Heard(driver, w, p0) BY <1>1, SaysNothing
<1> QED BY <1>2 DEF w

(* The last poll: the driver hears what it says.                           *)
LEMMA AnnouncedHeard ==
  ASSUME NEW p0, Heard(driver, worker, p0), Sound(worker), Alive,
         (driver.scan <=> worker.kind = "scan"),
         worker.pc = "stopping",
         NEW s \in Stops \cup {"none"}, worker.stop # "none" => s = worker.stop, s # "none"
  PROVE  Heard(driver, Announced(s), p0 \o <<Finalizing(s)>>)
<1> DEFINE w == Announced(s)
<1> USE DEF Early, Acting, Inside, Working, Announced
<1> DEFINE e == Finalizing(s)
<1>1. e \in Events BY EventShape, TracksFinite, Fields DEF Plain, Finalizing, Sound, Names
<1>2. ASSUME NEW u \in Views, Reflects(worker, u)
      PROVE  Legal(driver.scan, u, e) /\ Reflects(w, Consumed(driver.scan, u, e))
  <2>1. worker \in Workers BY DEF Sound
  <2> USE <1>2, <2>1, Fields, ViewFields, TracksFinite
      DEF Reflects, Reading, Scanning, Consumed, Stops, Plain, Event, Finalizing, Advance,
         RunningNext, FinalizingNext, GracefulNext, ScanNext, Outcome, Illegal, Life, Sound, Ended,
         Alive, Pcs
  <2>2. Advance(driver.scan, u.life, e) \in Lives /\ Advance(driver.scan, u.life, e) # Illegal
    BY DEF Lives
  <2>3. Legal(driver.scan, u, e) BY <2>2 DEF Legal, Views
  <2>4. Reflects(w, Consumed(driver.scan, u, e)) BY AtTrack, SkippedCounted DEF Landed
  <2> QED BY <2>3, <2>4
<1> HIDE DEF w, e, Announced
<1>3. Heard(driver, w, p0 \o <<e>>) BY <1>1, <1>2, SaysOne
<1> QED BY <1>3 DEF w, e

(* The last checkpoint is published: the driver hears what it says.        *)
LEMMA PublishedLastHeard ==
  ASSUME NEW p0, Heard(driver, worker, p0), Sound(worker), Alive,
         (driver.scan <=> worker.kind = "scan"),
         worker.pc = "publish"
  PROVE  Heard(driver, PublishedLast, p0 \o <<Plain("progress")>>)
<1> DEFINE w == PublishedLast
<1> USE DEF Early, Acting, Inside, Working, PublishedLast
<1> DEFINE e == Plain("progress")
<1>1. e \in Events BY EventShape, TracksFinite, Fields DEF Plain, Finalizing, Sound, Names
<1>2. ASSUME NEW u \in Views, Reflects(worker, u)
      PROVE  Legal(driver.scan, u, e) /\ Reflects(w, Consumed(driver.scan, u, e))
  <2>1. worker \in Workers BY DEF Sound
  <2> USE <1>2, <2>1, Fields, ViewFields, TracksFinite
      DEF Reflects, Reading, Scanning, Consumed, Stops, Plain, Event, Finalizing, Advance,
         RunningNext, FinalizingNext, GracefulNext, ScanNext, Outcome, Illegal, Life, Sound, Ended,
         Alive, Pcs
  <2>2. Advance(driver.scan, u.life, e) \in Lives /\ Advance(driver.scan, u.life, e) # Illegal
    BY DEF Lives
  <2>3. Legal(driver.scan, u, e) BY <2>2 DEF Legal, Views
  <2>4. Reflects(w, Consumed(driver.scan, u, e)) BY AtTrack, SkippedCounted DEF Landed
  <2> QED BY <2>3, <2>4
<1> HIDE DEF w, e, PublishedLast
<1>3. Heard(driver, w, p0 \o <<e>>) BY <1>1, <1>2, SaysOne
<1> QED BY <1>3 DEF w, e

(* The process exits: the driver hears what it says.                       *)
LEMMA FinishedScanHeard ==
  ASSUME NEW p0, Heard(driver, worker, p0), Sound(worker), Alive,
         (driver.scan <=> worker.kind = "scan"),
         worker.pc = "finish", worker.kind = "scan"
  PROVE  Heard(driver, Finished, p0 \o <<Event("scan_finished", worker.ok)>>)
<1> DEFINE w == Finished
<1> USE DEF Early, Acting, Inside, Working, Finished
<1> DEFINE e == Event("scan_finished", worker.ok)
<1>1. e \in Events BY EventShape, TracksFinite, Fields DEF Plain, Finalizing, Sound, Names
<1>2. ASSUME NEW u \in Views, Reflects(worker, u)
      PROVE  Legal(driver.scan, u, e) /\ Reflects(w, Consumed(driver.scan, u, e))
  <2>1. worker \in Workers BY DEF Sound
  <2> USE <1>2, <2>1, Fields, ViewFields, TracksFinite
      DEF Reflects, Reading, Scanning, Consumed, Stops, Plain, Event, Finalizing, Advance,
         RunningNext, FinalizingNext, GracefulNext, ScanNext, Outcome, Illegal, Life, Sound, Ended,
         Alive, Pcs
  <2>2. Advance(driver.scan, u.life, e) \in Lives /\ Advance(driver.scan, u.life, e) # Illegal
    BY DEF Lives
  <2>3. Legal(driver.scan, u, e) BY <2>2 DEF Legal, Views
  <2>4. Reflects(w, Consumed(driver.scan, u, e)) BY AtTrack, SkippedCounted DEF Landed
  <2> QED BY <2>3, <2>4
<1> HIDE DEF w, e, Finished
<1>3. Heard(driver, w, p0 \o <<e>>) BY <1>1, <1>2, SaysOne
<1> QED BY <1>3 DEF w, e

(* The process exits: the driver hears what it says.                       *)
LEMMA FinishedFailedHeard ==
  ASSUME NEW p0, Heard(driver, worker, p0), Sound(worker), Alive,
         (driver.scan <=> worker.kind = "scan"),
         worker.pc = "finish", worker.kind # "scan", ~ worker.ok
  PROVE  Heard(driver, Finished, p0 \o <<Plain("error"), Event("finished", worker.ok)>>)
<1> DEFINE w == Finished
<1> USE DEF Early, Acting, Inside, Working, Finished
<1> DEFINE e == Plain("error")
<1> DEFINE f == Event("finished", worker.ok)
<1>1. e \in Events /\ f \in Events BY EventShape, Fields DEF Plain, Sound, Names
<1>2. ASSUME NEW u \in Views, Reflects(worker, u)
      PROVE  /\ Legal(driver.scan, u, e) /\ Legal(driver.scan, Consumed(driver.scan, u, e), f)
             /\ Reflects(w, Consumed(driver.scan, Consumed(driver.scan, u, e), f))
  <2> DEFINE c == Consumed(driver.scan, u, e)
  <2>0. worker \in Workers BY DEF Sound
  <2>1. Legal(driver.scan, u, e)
    BY <1>2, <2>0, Fields, ViewFields
       DEF Reflects, Reading, Scanning, Legal, Consumed, Views, Lives, Stops, Plain, Event,
          Finalizing, Advance, RunningNext, FinalizingNext, GracefulNext, ScanNext, Outcome,
          Illegal, Life, Sound, Ended, Alive, Pcs
  <2>2. c \in Views BY <2>1 DEF Legal
  <2>3. Advance(driver.scan, c.life, f) \in Lives /\ Advance(driver.scan, c.life, f) # Illegal
    BY <1>2, <2>0, <2>2, Fields, ViewFields
       DEF Reflects, Reading, Scanning, Consumed, Lives, Stops, Plain, Event, Finalizing, Advance,
          RunningNext, FinalizingNext, GracefulNext, ScanNext, Outcome, Illegal, Life, Sound, Ended,
          Alive, Pcs
  <2>4. Legal(driver.scan, c, f)
    <3> HIDE DEF c
    <3> QED BY <2>2, <2>3, Fields, ViewFields DEF Legal, Consumed, Views, Plain, Event, Finalizing
  <2>5. /\ c.total = u.total /\ c.errored = u.errored /\ c.finish = u.finish
            /\ (c.marked <=> u.marked)
        /\ (c.cancelled <=> u.cancelled \/ e.name = "cancelled")
                  /\ (c.paused <=> u.paused \/ e.name = "paused")
    BY DEF Consumed, Plain, Event, Finalizing
  <2>6. c.life.state \in {"running", "finalizing"} /\ c.life.err /\ ~ worker.ok
    BY <1>2, <2>0, <2>2, Fields, ViewFields
       DEF Reflects, Reading, Scanning, Consumed, Lives, Stops, Plain, Event, Finalizing, Advance,
          RunningNext, FinalizingNext, GracefulNext, ScanNext, Outcome, Illegal, Life, Sound, Ended,
          Alive, Pcs
  <2> DEFINE z == Consumed(driver.scan, c, f)
  <2> HIDE DEF c
  <2>7. z.life = Life("finished", "none", FALSE)
    BY <2>6
       DEF Consumed, Plain, Event, Finalizing, Advance, RunningNext, FinalizingNext, GracefulNext,
          ScanNext, Outcome, Illegal, Life
  <2>8. /\ z.total = c.total /\ z.errored = c.errored /\ z.finish = (IF worker.ok THEN "ok" ELSE "failed")
            /\ (z.marked <=> c.marked)
        /\ (z.cancelled <=> c.cancelled) /\ (z.paused <=> c.paused)
    BY DEF Consumed, Plain, Event, Finalizing
  <2> HIDE DEF z
  <2>9. c.errored \in Nat BY <2>2, ViewFields
  <2>10. Reflects(w, z)
    BY <1>2, <2>0, <2>5, <2>6, <2>7, <2>8, <2>9, AtTrack, Fields, SkippedCounted, TracksFinite
       DEF Reflects, Reading, Scanning, Plain, Event, Finalizing, Life, Sound, Ended, Alive, Pcs,
          Stops, Landed
  <2> QED BY <2>1, <2>4, <2>10 DEF c, z
<1> HIDE DEF w, e, f, Finished
<1>3. Heard(driver, w, p0 \o <<e, f>>) BY <1>1, <1>2, SaysTwo
<1> QED BY <1>3 DEF w, e, f

(* The process exits: the driver hears what it says.                       *)
LEMMA FinishedOkHeard ==
  ASSUME NEW p0, Heard(driver, worker, p0), Sound(worker), Alive,
         (driver.scan <=> worker.kind = "scan"),
         worker.pc = "finish", worker.kind # "scan", worker.ok, worker.stop = "none"
  PROVE  Heard(driver, Finished, p0 \o <<Event("finished", worker.ok)>>)
<1> DEFINE w == Finished
<1> USE DEF Early, Acting, Inside, Working, Finished
<1> DEFINE e == Event("finished", worker.ok)
<1>1. e \in Events BY EventShape, TracksFinite, Fields DEF Plain, Finalizing, Sound, Names
<1>2. ASSUME NEW u \in Views, Reflects(worker, u)
      PROVE  Legal(driver.scan, u, e) /\ Reflects(w, Consumed(driver.scan, u, e))
  <2>1. worker \in Workers BY DEF Sound
  <2> USE <1>2, <2>1, Fields, ViewFields, TracksFinite
      DEF Reflects, Reading, Scanning, Consumed, Stops, Plain, Event, Finalizing, Advance,
         RunningNext, FinalizingNext, GracefulNext, ScanNext, Outcome, Illegal, Life, Sound, Ended,
         Alive, Pcs
  <2>2. Advance(driver.scan, u.life, e) \in Lives /\ Advance(driver.scan, u.life, e) # Illegal
    BY DEF Lives
  <2>3. Legal(driver.scan, u, e) BY <2>2 DEF Legal, Views
  <2>4. Reflects(w, Consumed(driver.scan, u, e)) BY AtTrack, SkippedCounted DEF Landed
  <2> QED BY <2>3, <2>4
<1> HIDE DEF w, e, Finished
<1>3. Heard(driver, w, p0 \o <<e>>) BY <1>1, <1>2, SaysOne
<1> QED BY <1>3 DEF w, e

(* The process exits: the driver hears what it says.                       *)
LEMMA FinishedCancelledHeard ==
  ASSUME NEW p0, Heard(driver, worker, p0), Sound(worker), Alive,
         (driver.scan <=> worker.kind = "scan"),
         worker.pc = "finish", worker.kind # "scan", worker.ok, worker.stop = "cancel"
  PROVE  Heard(driver, Finished, p0 \o <<Plain("cancelled"), Event("finished", worker.ok)>>)
<1> DEFINE w == Finished
<1> USE DEF Early, Acting, Inside, Working, Finished
<1> DEFINE e == Plain("cancelled")
<1> DEFINE f == Event("finished", worker.ok)
<1>1. e \in Events /\ f \in Events BY EventShape, Fields DEF Plain, Sound, Names
<1>2. ASSUME NEW u \in Views, Reflects(worker, u)
      PROVE  /\ Legal(driver.scan, u, e) /\ Legal(driver.scan, Consumed(driver.scan, u, e), f)
             /\ Reflects(w, Consumed(driver.scan, Consumed(driver.scan, u, e), f))
  <2> DEFINE c == Consumed(driver.scan, u, e)
  <2>0. worker \in Workers BY DEF Sound
  <2>1. Legal(driver.scan, u, e)
    BY <1>2, <2>0, Fields, ViewFields
       DEF Reflects, Reading, Scanning, Legal, Consumed, Views, Lives, Stops, Plain, Event,
          Finalizing, Advance, RunningNext, FinalizingNext, GracefulNext, ScanNext, Outcome,
          Illegal, Life, Sound, Ended, Alive, Pcs
  <2>2. c \in Views BY <2>1 DEF Legal
  <2>3. Advance(driver.scan, c.life, f) \in Lives /\ Advance(driver.scan, c.life, f) # Illegal
    BY <1>2, <2>0, <2>2, Fields, ViewFields
       DEF Reflects, Reading, Scanning, Consumed, Lives, Stops, Plain, Event, Finalizing, Advance,
          RunningNext, FinalizingNext, GracefulNext, ScanNext, Outcome, Illegal, Life, Sound, Ended,
          Alive, Pcs
  <2>4. Legal(driver.scan, c, f)
    <3> HIDE DEF c
    <3> QED BY <2>2, <2>3, Fields, ViewFields DEF Legal, Consumed, Views, Plain, Event, Finalizing
  <2>5. /\ c.total = u.total /\ c.errored = u.errored /\ c.finish = u.finish
            /\ (c.marked <=> u.marked)
        /\ (c.cancelled <=> u.cancelled \/ e.name = "cancelled")
                  /\ (c.paused <=> u.paused \/ e.name = "paused")
    BY DEF Consumed, Plain, Event, Finalizing
  <2>6. c.life = Life("graceful", "cancel", c.life.err)
    BY <1>2, <2>0, <2>2, Fields, ViewFields
       DEF Reflects, Reading, Scanning, Consumed, Lives, Stops, Plain, Event, Finalizing, Advance,
          RunningNext, FinalizingNext, GracefulNext, ScanNext, Outcome, Illegal, Life, Sound, Ended,
          Alive, Pcs
  <2> DEFINE z == Consumed(driver.scan, c, f)
  <2> HIDE DEF c
  <2>7. z.life = Life("finished", "none", FALSE)
    BY <2>6
       DEF Consumed, Plain, Event, Finalizing, Advance, RunningNext, FinalizingNext, GracefulNext,
          ScanNext, Outcome, Illegal, Life
  <2>8. /\ z.total = c.total /\ z.errored = c.errored /\ z.finish = (IF worker.ok THEN "ok" ELSE "failed")
            /\ (z.marked <=> c.marked)
        /\ (z.cancelled <=> c.cancelled) /\ (z.paused <=> c.paused)
    BY DEF Consumed, Plain, Event, Finalizing
  <2> HIDE DEF z
  <2>9. c.errored \in Nat BY <2>2, ViewFields
  <2>10. Reflects(w, z)
    BY <1>2, <2>0, <2>5, <2>6, <2>7, <2>8, <2>9, AtTrack, Fields, SkippedCounted, TracksFinite
       DEF Reflects, Reading, Scanning, Plain, Event, Finalizing, Life, Sound, Ended, Alive, Pcs,
          Stops, Landed
  <2> QED BY <2>1, <2>4, <2>10 DEF c, z
<1> HIDE DEF w, e, f, Finished
<1>3. Heard(driver, w, p0 \o <<e, f>>) BY <1>1, <1>2, SaysTwo
<1> QED BY <1>3 DEF w, e, f

(* The process exits: the driver hears what it says.                       *)
LEMMA FinishedPausedHeard ==
  ASSUME NEW p0, Heard(driver, worker, p0), Sound(worker), Alive,
         (driver.scan <=> worker.kind = "scan"),
         worker.pc = "finish", worker.kind # "scan", worker.ok, worker.stop = "pause"
  PROVE  Heard(driver, Finished, p0 \o <<Plain("paused"), Event("finished", worker.ok)>>)
<1> DEFINE w == Finished
<1> USE DEF Early, Acting, Inside, Working, Finished
<1> DEFINE e == Plain("paused")
<1> DEFINE f == Event("finished", worker.ok)
<1>1. e \in Events /\ f \in Events BY EventShape, Fields DEF Plain, Sound, Names
<1>2. ASSUME NEW u \in Views, Reflects(worker, u)
      PROVE  /\ Legal(driver.scan, u, e) /\ Legal(driver.scan, Consumed(driver.scan, u, e), f)
             /\ Reflects(w, Consumed(driver.scan, Consumed(driver.scan, u, e), f))
  <2> DEFINE c == Consumed(driver.scan, u, e)
  <2>0. worker \in Workers BY DEF Sound
  <2>1. Legal(driver.scan, u, e)
    BY <1>2, <2>0, Fields, ViewFields
       DEF Reflects, Reading, Scanning, Legal, Consumed, Views, Lives, Stops, Plain, Event,
          Finalizing, Advance, RunningNext, FinalizingNext, GracefulNext, ScanNext, Outcome,
          Illegal, Life, Sound, Ended, Alive, Pcs
  <2>2. c \in Views BY <2>1 DEF Legal
  <2>3. Advance(driver.scan, c.life, f) \in Lives /\ Advance(driver.scan, c.life, f) # Illegal
    BY <1>2, <2>0, <2>2, Fields, ViewFields
       DEF Reflects, Reading, Scanning, Consumed, Lives, Stops, Plain, Event, Finalizing, Advance,
          RunningNext, FinalizingNext, GracefulNext, ScanNext, Outcome, Illegal, Life, Sound, Ended,
          Alive, Pcs
  <2>4. Legal(driver.scan, c, f)
    <3> HIDE DEF c
    <3> QED BY <2>2, <2>3, Fields, ViewFields DEF Legal, Consumed, Views, Plain, Event, Finalizing
  <2>5. /\ c.total = u.total /\ c.errored = u.errored /\ c.finish = u.finish
            /\ (c.marked <=> u.marked)
        /\ (c.cancelled <=> u.cancelled \/ e.name = "cancelled")
                  /\ (c.paused <=> u.paused \/ e.name = "paused")
    BY DEF Consumed, Plain, Event, Finalizing
  <2>6. c.life = Life("graceful", "pause", c.life.err)
    BY <1>2, <2>0, <2>2, Fields, ViewFields
       DEF Reflects, Reading, Scanning, Consumed, Lives, Stops, Plain, Event, Finalizing, Advance,
          RunningNext, FinalizingNext, GracefulNext, ScanNext, Outcome, Illegal, Life, Sound, Ended,
          Alive, Pcs
  <2> DEFINE z == Consumed(driver.scan, c, f)
  <2> HIDE DEF c
  <2>7. z.life = Life("finished", "none", FALSE)
    BY <2>6
       DEF Consumed, Plain, Event, Finalizing, Advance, RunningNext, FinalizingNext, GracefulNext,
          ScanNext, Outcome, Illegal, Life
  <2>8. /\ z.total = c.total /\ z.errored = c.errored /\ z.finish = (IF worker.ok THEN "ok" ELSE "failed")
            /\ (z.marked <=> c.marked)
        /\ (z.cancelled <=> c.cancelled) /\ (z.paused <=> c.paused)
    BY DEF Consumed, Plain, Event, Finalizing
  <2> HIDE DEF z
  <2>9. c.errored \in Nat BY <2>2, ViewFields
  <2>10. Reflects(w, z)
    BY <1>2, <2>0, <2>5, <2>6, <2>7, <2>8, <2>9, AtTrack, Fields, SkippedCounted, TracksFinite
       DEF Reflects, Reading, Scanning, Plain, Event, Finalizing, Life, Sound, Ended, Alive, Pcs,
          Stops, Landed
  <2> QED BY <2>1, <2>4, <2>10 DEF c, z
<1> HIDE DEF w, e, f, Finished
<1>3. Heard(driver, w, p0 \o <<e, f>>) BY <1>1, <1>2, SaysTwo
<1> QED BY <1>3 DEF w, e, f

-----------------------------------------------------------------------------
(* One lemma per action of the worker.                                       *)

(* What the pipe holds are events.                                         *)
LEMMA PipeTyped ==
  ASSUME Heard(driver, worker, pipe)
  PROVE  pipe \in Seq(Events) /\ pipe \o <<>> = pipe
<1>1. pipe \in Seq(Events) BY DEF Heard, Leads
<1> QED BY <1>1

(* A stop that was polled is one.                                          *)
LEMMA PolledStop ==
  ASSUME decisions \in Seq(Stops \cup Answers)
  PROVE  Polled # "none" => Polled \in Stops
BY PollFinds

(* What is fed or started is a job.                                        *)
LEMMA Jobbed ==
  ASSUME Sound(worker), worker.pc \in Inside
  PROVE  /\ Unfed # {} => Min(Unfed) \in Nat /\ Min(Unfed) \notin worker.fed
         /\ Queued # {} => Min(Queued) \in worker.fed
<1>1. Unfed \subseteq Nat
  BY AtTrack, WorkerAssumption DEF Unfed, Jobs
<1>2. Queued \subseteq worker.fed /\ Queued \subseteq Nat BY Fields DEF Queued, Sound
<1>3. Unfed # {} => Min(Unfed) \in Unfed BY <1>1, MinOf
<1>4. Queued # {} => Min(Queued) \in Queued BY <1>2, MinOf
<1> QED BY <1>1, <1>2, <1>3, <1>4 DEF Unfed

(* What an action of the worker has to keep.                               *)
Kept ==
  /\ Sound(worker') /\ Heard(driver, worker', pipe') /\ decisions' \in Seq(Stops \cup Answers)
  /\ worker'.kind = worker.kind /\ worker'.exit # "terminated" /\ Alive
Before ==
  /\ Sound(worker) /\ Heard(driver, worker, pipe) /\ decisions \in Seq(Stops \cup Answers)
  /\ (driver.scan <=> worker.kind = "scan")

(* A fault, wherever it strikes, is reported by a sync.                    *)
LEMMA FailKept ==
  ASSUME Before, NEW pc \in Pcs \ {"hello", "finish", "done"}, Fail(pc)
  PROVE  Kept
<1>1. Sound(worker) /\ Heard(driver, worker, pipe)
          /\ (driver.scan <=> worker.kind = "scan") /\ Alive
      /\ worker \in Workers /\ worker.faults > 0 /\ worker.pc = pc
  BY DEF Before, Sound, Fail, Step, At
<1>2. worker' = Faulted
  BY <1>1 DEF Fail, Step, Failed, Workers, Faulted
<1>3. Sound(worker') BY <1>1, <1>2, FaultedSound
<1>4. worker.pc \notin {"hello", "done"} BY <1>1
<1>5. decisions' \in Seq(Stops \cup Answers) BY DEF Before, Fail, Step
<1>6. worker'.kind = worker.kind /\ worker'.exit # "terminated"
  BY <1>1, <1>2 DEF Workers, Alive, Faulted
<1>7. CASE worker.kind = "scan"
  <2>1. pipe' = pipe BY <1>7, PipeTyped, <1>1 DEF Fail, Step, Emit
  <2>2. Heard(driver, Faulted, pipe) BY <1>1, <1>4, <1>7, FaultedScanHeard
  <2> QED BY <1>1, <1>2, <1>3, <1>5, <1>6, <2>1, <2>2 DEF Kept
<1>8. CASE worker.kind # "scan"
  <2>1. pipe' = pipe \o <<Plain("error")>> BY <1>8 DEF Fail, Step, Emit
  <2>2. worker.ok BY <1>1, Fields DEF Sound, Ended
  <2>3. Heard(driver, Faulted, pipe \o <<Plain("error")>>) BY <1>1, <1>4, <1>8, <2>2, FaultedHeard
  <2> QED BY <1>1, <1>2, <1>3, <1>5, <1>6, <2>1, <2>3 DEF Kept
<1> QED BY <1>7, <1>8

(* Hello keeps what a worker's action has to keep.                         *)
LEMMA HelloKept ==
  ASSUME Before, Hello
  PROVE  Kept
<1> USE DEF At
<1>1. /\ Sound(worker) /\ Heard(driver, worker, pipe) /\ (driver.scan <=> worker.kind = "scan")
      /\ worker \in Workers /\ Alive
  BY DEF Before, Sound, Hello, Step
<1>2. Polled \in Stops \cup {"none"} /\ Drained \in Seq(Stops \cup Answers) BY PollFinds DEF Before
<1>3. worker'.kind = worker.kind /\ worker'.exit # "terminated"
  BY <1>1 DEF Hello, Step, Workers, Alive
<1>4. decisions' \in Seq(Stops \cup Answers) BY <1>2 DEF Before, Hello, Step
<1>5. Sound(worker') /\ Heard(driver, worker', pipe')
  <2>0. \/ (worker.pc = "hello" /\ worker.kind # "scan" /\ worker' = Moved("preflight")
            /\ pipe' = pipe \o <<Plain("hello")>>)
        \/ (worker.pc = "hello" /\ worker.kind = "scan" /\ worker' = Moved("preflight")
                  /\ pipe' = pipe \o <<Plain("hello"), Plain("scan_started")>>)
    BY <1>1, <1>2, PipeTyped, Fields DEF Hello, Step, Emit, Workers, Kinds, Stops, Moved
  <2>1. CASE worker.pc = "hello" /\ worker.kind # "scan" /\ worker' = Moved("preflight")
            /\ pipe' = pipe \o <<Plain("hello")>>
    <3>1. Sound(Moved("preflight")) BY <2>1, <1>1, <1>2, Fields, MovedSound DEF Stops
    <3>2. Heard(driver, Moved("preflight"), pipe \o <<Plain("hello")>>)
      BY <2>1, <1>1, <1>2, Fields, HelloHeard DEF Stops
    <3> QED BY <2>1, <3>1, <3>2
  <2>2. CASE worker.pc = "hello" /\ worker.kind = "scan" /\ worker' = Moved("preflight")
            /\ pipe' = pipe \o <<Plain("hello"), Plain("scan_started")>>
    <3>1. Sound(Moved("preflight")) BY <2>2, <1>1, <1>2, Fields, MovedSound DEF Stops
    <3>2. Heard(driver, Moved("preflight"), pipe \o <<Plain("hello"), Plain("scan_started")>>)
      BY <2>2, <1>1, <1>2, Fields, HelloScanHeard DEF Stops
    <3> QED BY <2>2, <3>1, <3>2
  <2> QED BY <2>0, <2>1, <2>2
<1> QED BY <1>1, <1>3, <1>4, <1>5 DEF Kept

(* Ask keeps what a worker's action has to keep.                           *)
LEMMA AskKept ==
  ASSUME Before, Ask
  PROVE  Kept
<1> USE DEF At
<1>1. /\ Sound(worker) /\ Heard(driver, worker, pipe) /\ (driver.scan <=> worker.kind = "scan")
      /\ worker \in Workers /\ Alive
  BY DEF Before, Sound, Ask, Step
<1>2. Polled \in Stops \cup {"none"} /\ Drained \in Seq(Stops \cup Answers) BY PollFinds DEF Before
<1>3. worker'.kind = worker.kind /\ worker'.exit # "terminated"
  BY <1>1 DEF Ask, Step, Workers, Alive
<1>4. decisions' \in Seq(Stops \cup Answers) BY <1>2 DEF Before, Ask, Step
<1>5. Sound(worker') BY <1>1, <1>2, Fields, AskedSound DEF Ask, Step, Workers, Kinds, Asked
<1>6. Heard(driver, worker', pipe')
  BY <1>1, <1>2, PipeTyped, Fields, AskedHeard DEF Ask, Step, Emit, Workers, Kinds, Asked
<1> QED BY <1>1, <1>3, <1>4, <1>5, <1>6 DEF Kept

(* Answered keeps what a worker's action has to keep.                      *)
LEMMA AnsweredKept ==
  ASSUME Before, Answered
  PROVE  Kept
<1> USE DEF At
<1>1. /\ Sound(worker) /\ Heard(driver, worker, pipe) /\ (driver.scan <=> worker.kind = "scan")
      /\ worker \in Workers /\ Alive
  BY DEF Before, Sound, Answered, AwaitPrompt, Failed
<1>2. Polled \in Stops \cup {"none"} /\ Drained \in Seq(Stops \cup Answers) BY PollFinds DEF Before
<1>3. worker'.kind = worker.kind /\ worker'.exit # "terminated"
  BY <1>1 DEF Answered, AwaitPrompt, Failed, Workers, Alive
<1>4. decisions' \in Seq(Stops \cup Answers) BY <1>2 DEF Before, Answered, AwaitPrompt, Failed
<1>5. Sound(worker') /\ Heard(driver, worker', pipe')
  <2>0. \/ (worker.pc = "prompt" /\ worker' = Retried /\ pipe' = pipe)
        \/ (worker.pc = "prompt" /\ worker' = Aborted /\ pipe' = pipe \o <<Plain("error")>>)
        \/ worker' = worker /\ pipe' = pipe
    BY <1>1, <1>2, PipeTyped, Fields
       DEF Answered, AwaitPrompt, Failed, Emit, Workers, Kinds, Stops, Sound, Ended, Early, Retried,
          Aborted
  <2>1. CASE worker.pc = "prompt" /\ worker' = Retried /\ pipe' = pipe
    <3>1. Sound(Retried) BY <2>1, <1>1, <1>2, Fields, RetriedSound DEF Stops
    <3>2. Heard(driver, Retried, pipe) BY <2>1, <1>1, <1>2, Fields, RetriedHeard DEF Stops
    <3> QED BY <2>1, <3>1, <3>2
  <2>2. CASE worker.pc = "prompt" /\ worker' = Aborted /\ pipe' = pipe \o <<Plain("error")>>
    <3>1. Sound(Aborted) BY <2>2, <1>1, <1>2, Fields, AbortedSound DEF Stops
    <3>2. Heard(driver, Aborted, pipe \o <<Plain("error")>>)
      BY <2>2, <1>1, <1>2, Fields, AbortedHeard DEF Stops
    <3> QED BY <2>2, <3>1, <3>2
  <2>3. CASE worker' = worker /\ pipe' = pipe BY <2>3, <1>1
  <2> QED BY <2>0, <2>1, <2>2, <2>3
<1> QED BY <1>1, <1>3, <1>4, <1>5 DEF Kept

(* ScanAsks keeps what a worker's action has to keep.                      *)
LEMMA ScanAsksKept ==
  ASSUME Before, ScanAsks
  PROVE  Kept
<1> USE DEF At
<1>1. /\ Sound(worker) /\ Heard(driver, worker, pipe) /\ (driver.scan <=> worker.kind = "scan")
      /\ worker \in Workers /\ Alive
  BY DEF Before, Sound, ScanAsks, Step
<1>2. Polled \in Stops \cup {"none"} /\ Drained \in Seq(Stops \cup Answers) BY PollFinds DEF Before
<1>3. worker'.kind = worker.kind /\ worker'.exit # "terminated"
  BY <1>1 DEF ScanAsks, Step, Workers, Alive
<1>4. decisions' \in Seq(Stops \cup Answers) BY <1>2 DEF Before, ScanAsks, Step
<1>5. Sound(worker')
  BY <1>1, <1>2, Fields, AskedScanSound DEF ScanAsks, Step, Workers, Kinds, AskedScan
<1>6. Heard(driver, worker', pipe')
  BY <1>1, <1>2, PipeTyped, Fields, AskedScanHeard
     DEF ScanAsks, Step, Emit, Workers, Kinds, AskedScan
<1> QED BY <1>1, <1>3, <1>4, <1>5, <1>6 DEF Kept

(* Passed keeps what a worker's action has to keep.                        *)
LEMMA PassedKept ==
  ASSUME Before, Passed
  PROVE  Kept
<1> USE DEF At
<1>1. /\ Sound(worker) /\ Heard(driver, worker, pipe) /\ (driver.scan <=> worker.kind = "scan")
      /\ worker \in Workers /\ Alive
  BY DEF Before, Sound, Passed, Step
<1>2. Polled \in Stops \cup {"none"} /\ Drained \in Seq(Stops \cup Answers) BY PollFinds DEF Before
<1>3. worker'.kind = worker.kind /\ worker'.exit # "terminated"
  BY <1>1 DEF Passed, Step, Workers, Alive
<1>4. decisions' \in Seq(Stops \cup Answers) BY <1>2 DEF Before, Passed, Step
<1>5. Sound(worker') BY <1>1, <1>2, Fields, MovedSound DEF Passed, Step, Workers, Kinds, Moved
<1>6. Heard(driver, worker', pipe')
  BY <1>1, <1>2, PipeTyped, Fields, PassedHeard DEF Passed, Step, Emit, Workers, Kinds, Moved
<1> QED BY <1>1, <1>3, <1>4, <1>5, <1>6 DEF Kept

(* Erase keeps what a worker's action has to keep.                         *)
LEMMA EraseKept ==
  ASSUME Before, Erase
  PROVE  Kept
<1> USE DEF At
<1>1. /\ Sound(worker) /\ Heard(driver, worker, pipe) /\ (driver.scan <=> worker.kind = "scan")
      /\ worker \in Workers /\ Alive
  BY DEF Before, Sound, Erase, Step
<1>2. Polled \in Stops \cup {"none"} /\ Drained \in Seq(Stops \cup Answers) BY PollFinds DEF Before
<1>3. worker'.kind = worker.kind /\ worker'.exit # "terminated"
  BY <1>1 DEF Erase, Step, Workers, Alive
<1>4. decisions' \in Seq(Stops \cup Answers) BY <1>2 DEF Before, Erase, Step
<1>5. Sound(worker') BY <1>1, <1>2, Fields, ErasedSound DEF Erase, Step, Workers, Kinds, Erased
<1>6. Heard(driver, worker', pipe')
  BY <1>1, <1>2, PipeTyped, Fields, ErasedHeard DEF Erase, Step, Emit, Workers, Kinds, Erased
<1> QED BY <1>1, <1>3, <1>4, <1>5, <1>6 DEF Kept

(* Refresh keeps what a worker's action has to keep.                       *)
LEMMA RefreshKept ==
  ASSUME Before, Refresh
  PROVE  Kept
<1> DEFINE p == IF worker.track = Cardinality(Tracks) THEN "finish" ELSE "refresh"
<1> DEFINE n == IF worker.track = Cardinality(Tracks) THEN 0 ELSE worker.track + 1
<1> USE DEF At
<1>1. /\ Sound(worker) /\ Heard(driver, worker, pipe) /\ (driver.scan <=> worker.kind = "scan")
      /\ worker \in Workers /\ Alive
  BY DEF Before, Sound, Refresh, Step
<1>2. Polled \in Stops \cup {"none"} /\ Drained \in Seq(Stops \cup Answers) BY PollFinds DEF Before
<1>3. worker'.kind = worker.kind /\ worker'.exit # "terminated"
  BY <1>1 DEF Refresh, Step, Workers, Alive
<1>4. decisions' \in Seq(Stops \cup Answers) BY <1>2 DEF Before, Refresh, Step
<1>5. Sound(worker') /\ Heard(driver, worker', pipe')
  <2>0. \/ (worker.pc = "refresh" /\ n \in Nat /\ worker' = Refreshed(p, n)
            /\ pipe' = pipe \o <<Event("summary", Cardinality(Tracks))>>)
        \/ (worker.pc = "refresh" /\ n \in Nat /\ worker' = Refreshed(p, n)
                  /\ pipe' = pipe \o <<Plain("done")>>)
    BY <1>1, <1>2, PipeTyped, Fields, TracksFinite
       DEF Refresh, Step, Emit, Workers, Kinds, Stops, Refreshed
  <2>1. CASE worker.pc = "refresh" /\ n \in Nat /\ worker' = Refreshed(p, n)
            /\ pipe' = pipe \o <<Event("summary", Cardinality(Tracks))>>
    <3>1. Sound(Refreshed(p, n)) BY <2>1, <1>1, <1>2, Fields, RefreshedSound DEF Stops
    <3>2. Heard(driver, Refreshed(p, n), pipe \o <<Event("summary", Cardinality(Tracks))>>)
      BY <2>1, <1>1, <1>2, Fields, SummedHeard DEF Stops
    <3> QED BY <2>1, <3>1, <3>2
  <2>2. CASE worker.pc = "refresh" /\ n \in Nat /\ worker' = Refreshed(p, n)
            /\ pipe' = pipe \o <<Plain("done")>>
    <3>1. Sound(Refreshed(p, n)) BY <2>2, <1>1, <1>2, Fields, RefreshedSound DEF Stops
    <3>2. Heard(driver, Refreshed(p, n), pipe \o <<Plain("done")>>)
      BY <2>2, <1>1, <1>2, Fields, RefreshedHeard DEF Stops
    <3> QED BY <2>2, <3>1, <3>2
  <2> QED BY <2>0, <2>1, <2>2
<1> QED BY <1>1, <1>3, <1>4, <1>5 DEF Kept

(* Index keeps what a worker's action has to keep.                         *)
LEMMA IndexKept ==
  ASSUME Before, Index
  PROVE  Kept
<1> USE DEF At
<1>1. /\ Sound(worker) /\ Heard(driver, worker, pipe) /\ (driver.scan <=> worker.kind = "scan")
      /\ worker \in Workers /\ Alive
  BY DEF Before, Sound, Index, Step
<1>2. Polled \in Stops \cup {"none"} /\ Drained \in Seq(Stops \cup Answers) BY PollFinds DEF Before
<1>3. worker'.kind = worker.kind /\ worker'.exit # "terminated"
  BY <1>1 DEF Index, Step, Workers, Alive
<1>4. decisions' \in Seq(Stops \cup Answers) BY <1>2 DEF Before, Index, Step
<1>5. Sound(worker') BY <1>1, <1>2, Fields, IndexedSound DEF Index, Step, Workers, Kinds, Indexed
<1>6. Heard(driver, worker', pipe')
  BY <1>1, <1>2, PipeTyped, Fields, IndexedHeard DEF Index, Step, Emit, Workers, Kinds, Indexed
<1> QED BY <1>1, <1>3, <1>4, <1>5, <1>6 DEF Kept

(* Plan keeps what a worker's action has to keep.                          *)
LEMMA PlanKept ==
  ASSUME Before, Plan
  PROVE  Kept
<1> USE DEF At
<1>1. /\ Sound(worker) /\ Heard(driver, worker, pipe) /\ (driver.scan <=> worker.kind = "scan")
      /\ worker \in Workers /\ Alive
  BY DEF Before, Sound, Plan, Step
<1>2. Polled \in Stops \cup {"none"} /\ Drained \in Seq(Stops \cup Answers) BY PollFinds DEF Before
<1>3. worker'.kind = worker.kind /\ worker'.exit # "terminated"
  BY <1>1 DEF Plan, Step, Workers, Alive
<1>4. decisions' \in Seq(Stops \cup Answers) BY <1>2 DEF Before, Plan, Step
<1>5. Sound(worker') /\ Heard(driver, worker', pipe')
  <2>0. \/ (worker.pc = "plan" /\ worker' = Planned
            /\ pipe' = pipe \o <<Event("summary", Cardinality(Tracks))>>)
        \/ (worker.pc = "plan" /\ worker' = Indexed /\ pipe' = pipe \o <<Event("summary", 0)>>)
    BY <1>1, <1>2, PipeTyped, Fields DEF Plan, Step, Emit, Workers, Kinds, Stops, Planned, Indexed
  <2>1. CASE worker.pc = "plan" /\ worker' = Planned
            /\ pipe' = pipe \o <<Event("summary", Cardinality(Tracks))>>
    <3>1. Sound(Planned) BY <2>1, <1>1, <1>2, Fields, PlannedSound DEF Stops
    <3>2. Heard(driver, Planned, pipe \o <<Event("summary", Cardinality(Tracks))>>)
      BY <2>1, <1>1, <1>2, Fields, PlannedHeard DEF Stops
    <3> QED BY <2>1, <3>1, <3>2
  <2>2. CASE worker.pc = "plan" /\ worker' = Indexed /\ pipe' = pipe \o <<Event("summary", 0)>>
    <3>1. Sound(Indexed) BY <2>2, <1>1, <1>2, Fields, IndexedSound DEF Stops
    <3>2. Heard(driver, Indexed, pipe \o <<Event("summary", 0)>>)
      BY <2>2, <1>1, <1>2, Fields, NothingHeard DEF Stops
    <3> QED BY <2>2, <3>1, <3>2
  <2> QED BY <2>0, <2>1, <2>2
<1> QED BY <1>1, <1>3, <1>4, <1>5 DEF Kept

(* PrepareArtwork keeps what a worker's action has to keep.                      *)
LEMMA PrepareArtworkKept ==
  ASSUME Before, PrepareArtwork
  PROVE  Kept
<1> USE DEF At
<1>1. /\ Sound(worker) /\ Heard(driver, worker, pipe) /\ (driver.scan <=> worker.kind = "scan")
      /\ worker \in Workers /\ Alive
  BY DEF Before, Sound, PrepareArtwork, Poll, GoesOn, Stopped
<1>2. Polled \in Stops \cup {"none"} /\ Drained \in Seq(Stops \cup Answers) BY PollFinds DEF Before
<1>3. worker'.kind = worker.kind /\ worker'.exit # "terminated"
  BY <1>1 DEF PrepareArtwork, Poll, GoesOn, Stopped, Workers, Alive
<1>4. decisions' \in Seq(Stops \cup Answers)
  BY <1>2 DEF Before, PrepareArtwork, Poll, GoesOn, Stopped
<1>5. Sound(worker') /\ Heard(driver, worker', pipe')
  <2>0. \/ (worker.pc = "admit0" /\ worker' = Prepared /\ pipe' = pipe)
        \/ (worker.pc = "admit0" /\ Polled \in Stops /\ worker.kind # "scan"
                  /\ worker' = StoppedEarly(Polled) /\ pipe' = pipe \o <<Finalizing(Polled)>>)
    BY <1>1, <1>2, PipeTyped, Fields
       DEF PrepareArtwork, Poll, GoesOn, Stopped, Emit, Workers, Kinds, Stops, Sound, Ended,
          Prepared, StoppedEarly
  <2>1. CASE worker.pc = "admit0" /\ worker' = Prepared /\ pipe' = pipe
    <3>1. Sound(Prepared) BY <2>1, <1>1, <1>2, Fields, PreparedSound DEF Stops
    <3>2. Heard(driver, Prepared, pipe) BY <2>1, <1>1, <1>2, Fields, PreparedHeard DEF Stops
    <3> QED BY <2>1, <3>1, <3>2
  <2>2. CASE worker.pc = "admit0" /\ Polled \in Stops /\ worker.kind # "scan"
            /\ worker' = StoppedEarly(Polled) /\ pipe' = pipe \o <<Finalizing(Polled)>>
    <3>1. Sound(StoppedEarly(Polled)) BY <2>2, <1>1, <1>2, Fields, StoppedEarlySound DEF Stops
    <3>2. Heard(driver, StoppedEarly(Polled), pipe \o <<Finalizing(Polled)>>)
      BY <2>2, <1>1, <1>2, Fields, StoppedEarlyHeard DEF Stops
    <3> QED BY <2>2, <3>1, <3>2
  <2> QED BY <2>0, <2>1, <2>2
<1> QED BY <1>1, <1>3, <1>4, <1>5 DEF Kept

(* Admit keeps what a worker's action has to keep.                         *)
LEMMA AdmitKept ==
  ASSUME Before, Admit
  PROVE  Kept
<1> USE DEF At
<1>1. /\ Sound(worker) /\ Heard(driver, worker, pipe) /\ (driver.scan <=> worker.kind = "scan")
      /\ worker \in Workers /\ Alive
  BY DEF Before, Sound, Admit, Poll, GoesOn, Stopped
<1>2. Polled \in Stops \cup {"none"} /\ Drained \in Seq(Stops \cup Answers) BY PollFinds DEF Before
<1>3. worker'.kind = worker.kind /\ worker'.exit # "terminated"
  BY <1>1 DEF Admit, Poll, GoesOn, Stopped, Workers, Alive
<1>4. decisions' \in Seq(Stops \cup Answers) BY <1>2 DEF Before, Admit, Poll, GoesOn, Stopped
<1>5. Sound(worker') /\ Heard(driver, worker', pipe')
  <2>0. \/ (worker.pc = "admit" /\ worker.album = Len(Albums) /\ worker' = LastAlbum
            /\ pipe' = pipe)
        \/ (worker.pc = "admit" /\ worker.album < Len(Albums) /\ worker' = NextAlbum
                  /\ pipe' = pipe)
        \/ (worker.pc = "admit" /\ Polled \in Stops /\ worker' = StoppedBetween(Polled)
                  /\ pipe' = pipe)
    BY <1>1, <1>2, PipeTyped, Fields
       DEF Admit, Poll, GoesOn, Stopped, Emit, Workers, Kinds, Stops, LastAlbum, NextAlbum,
          StoppedBetween
  <2>1. CASE worker.pc = "admit" /\ worker.album = Len(Albums) /\ worker' = LastAlbum
            /\ pipe' = pipe
    <3>1. Sound(LastAlbum) BY <2>1, <1>1, <1>2, Fields, LastAlbumSound DEF Stops
    <3>2. Heard(driver, LastAlbum, pipe) BY <2>1, <1>1, <1>2, Fields, LastAlbumHeard DEF Stops
    <3> QED BY <2>1, <3>1, <3>2
  <2>2. CASE worker.pc = "admit" /\ worker.album < Len(Albums) /\ worker' = NextAlbum
            /\ pipe' = pipe
    <3>1. Sound(NextAlbum) BY <2>2, <1>1, <1>2, Fields, NextAlbumSound DEF Stops
    <3>2. Heard(driver, NextAlbum, pipe) BY <2>2, <1>1, <1>2, Fields, NextAlbumHeard DEF Stops
    <3> QED BY <2>2, <3>1, <3>2
  <2>3. CASE worker.pc = "admit" /\ Polled \in Stops /\ worker' = StoppedBetween(Polled)
            /\ pipe' = pipe
    <3>1. Sound(StoppedBetween(Polled)) BY <2>3, <1>1, <1>2, Fields, StoppedBetweenSound DEF Stops
    <3>2. Heard(driver, StoppedBetween(Polled), pipe)
      BY <2>3, <1>1, <1>2, Fields, StoppedBetweenHeard DEF Stops
    <3> QED BY <2>3, <3>1, <3>2
  <2> QED BY <2>0, <2>1, <2>2, <2>3
<1> QED BY <1>1, <1>3, <1>4, <1>5 DEF Kept

(* Track keeps what a worker's action has to keep.                         *)
LEMMA TrackKept ==
  ASSUME Before, Track
  PROVE  Kept
<1> USE DEF At
<1>1. /\ Sound(worker) /\ Heard(driver, worker, pipe) /\ (driver.scan <=> worker.kind = "scan")
      /\ worker \in Workers /\ Alive
  BY DEF Before, Sound, Track, Action, Poll, GoesOn, Stopped
<1>2. Polled \in Stops \cup {"none"} /\ Drained \in Seq(Stops \cup Answers) BY PollFinds DEF Before
<1>3. worker'.kind = worker.kind /\ worker'.exit # "terminated"
  BY <1>1 DEF Track, Action, Poll, GoesOn, Stopped, Workers, Alive
<1>4. decisions' \in Seq(Stops \cup Answers)
  BY <1>2 DEF Before, Track, Action, Poll, GoesOn, Stopped
<1>5. Sound(worker') /\ Heard(driver, worker', pipe')
  <2>0. \/ (worker.pc = "track" /\ worker.track <= Len(Albums[worker.album]) /\ worker' = Begun
            /\ pipe' = pipe \o <<Plain("progress")>>)
        \/ (worker.pc = "track" /\ Polled \in Stops /\ worker' = StoppedAt(Polled) /\ pipe' = pipe)
    BY <1>1, <1>2, PipeTyped, Fields
       DEF Track, Action, Poll, GoesOn, Stopped, Emit, Workers, Kinds, Stops, Begun, StoppedAt
  <2>1. CASE worker.pc = "track" /\ worker.track <= Len(Albums[worker.album]) /\ worker' = Begun
            /\ pipe' = pipe \o <<Plain("progress")>>
    <3>1. Sound(Begun) BY <2>1, <1>1, <1>2, Fields, BegunSound DEF Stops
    <3>2. Heard(driver, Begun, pipe \o <<Plain("progress")>>)
      BY <2>1, <1>1, <1>2, Fields, BegunHeard DEF Stops
    <3> QED BY <2>1, <3>1, <3>2
  <2>2. CASE worker.pc = "track" /\ Polled \in Stops /\ worker' = StoppedAt(Polled) /\ pipe' = pipe
    <3>1. Sound(StoppedAt(Polled)) BY <2>2, <1>1, <1>2, Fields, StoppedAtSound DEF Stops
    <3>2. Heard(driver, StoppedAt(Polled), pipe)
      BY <2>2, <1>1, <1>2, Fields, StoppedAtHeard DEF Stops
    <3> QED BY <2>2, <3>1, <3>2
  <2> QED BY <2>0, <2>1, <2>2
<1> QED BY <1>1, <1>3, <1>4, <1>5 DEF Kept

(* LastTrack keeps what a worker's action has to keep.                      *)
LEMMA LastTrackKept ==
  ASSUME Before, LastTrack
  PROVE  Kept
<1> USE DEF At
<1>1. /\ Sound(worker) /\ Heard(driver, worker, pipe) /\ (driver.scan <=> worker.kind = "scan")
      /\ worker \in Workers /\ Alive
  BY DEF Before, Sound, LastTrack, Step
<1>2. Polled \in Stops \cup {"none"} /\ Drained \in Seq(Stops \cup Answers) BY PollFinds DEF Before
<1>3. worker'.kind = worker.kind /\ worker'.exit # "terminated"
  BY <1>1 DEF LastTrack, Step, Workers, Alive
<1>4. decisions' \in Seq(Stops \cup Answers) BY <1>2 DEF Before, LastTrack, Step
<1>5. Sound(worker')
  BY <1>1, <1>2, Fields, AlbumDoneSound DEF LastTrack, Step, Workers, Kinds, AlbumDone
<1>6. Heard(driver, worker', pipe')
  BY <1>1, <1>2, PipeTyped, Fields, AlbumDoneHeard
     DEF LastTrack, Step, Emit, Workers, Kinds, AlbumDone
<1> QED BY <1>1, <1>3, <1>4, <1>5, <1>6 DEF Kept

(* Remove keeps what a worker's action has to keep.                        *)
LEMMA RemoveKept ==
  ASSUME Before, Remove
  PROVE  Kept
<1> USE DEF At
<1>1. /\ Sound(worker) /\ Heard(driver, worker, pipe) /\ (driver.scan <=> worker.kind = "scan")
      /\ worker \in Workers /\ Alive
  BY DEF Before, Sound, Remove, Next1, Step
<1>2. Polled \in Stops \cup {"none"} /\ Drained \in Seq(Stops \cup Answers) BY PollFinds DEF Before
<1>3. worker'.kind = worker.kind /\ worker'.exit # "terminated"
  BY <1>1 DEF Remove, Next1, Step, Workers, Alive
<1>4. decisions' \in Seq(Stops \cup Answers) BY <1>2 DEF Before, Remove, Next1, Step
<1>5. Sound(worker')
  BY <1>1, <1>2, Fields, RecordedSound DEF Remove, Next1, Step, Workers, Kinds, Recorded
<1>6. Heard(driver, worker', pipe')
  BY <1>1, <1>2, PipeTyped, Fields, RecordedHeard
     DEF Remove, Next1, Step, Emit, Workers, Kinds, Recorded
<1> QED BY <1>1, <1>3, <1>4, <1>5, <1>6 DEF Kept

(* Metadata keeps what a worker's action has to keep.                      *)
LEMMA MetadataKept ==
  ASSUME Before, Metadata
  PROVE  Kept
<1> USE DEF At
<1>1. /\ Sound(worker) /\ Heard(driver, worker, pipe) /\ (driver.scan <=> worker.kind = "scan")
      /\ worker \in Workers /\ Alive
  BY DEF Before, Sound, Metadata, Next1, Step
<1>2. Polled \in Stops \cup {"none"} /\ Drained \in Seq(Stops \cup Answers) BY PollFinds DEF Before
<1>3. worker'.kind = worker.kind /\ worker'.exit # "terminated"
  BY <1>1 DEF Metadata, Next1, Step, Workers, Alive
<1>4. decisions' \in Seq(Stops \cup Answers) BY <1>2 DEF Before, Metadata, Next1, Step
<1>5. Sound(worker') /\ Heard(driver, worker', pipe')
  <2>0. \/ (worker.pc = "metadata" /\ worker' = Recorded /\ pipe' = pipe \o <<Plain("done")>>)
        \/ (worker.pc = "metadata" /\ worker.faults > 0 /\ worker' = Unread
                  /\ pipe' = pipe \o <<Plain("error"), Plain("skipped")>>)
    BY <1>1, <1>2, PipeTyped, Fields
       DEF Metadata, Next1, Step, Emit, Workers, Kinds, Stops, Recorded, Unread
  <2>1. CASE worker.pc = "metadata" /\ worker' = Recorded /\ pipe' = pipe \o <<Plain("done")>>
    <3>1. Sound(Recorded) BY <2>1, <1>1, <1>2, Fields, RecordedSound DEF Stops
    <3>2. Heard(driver, Recorded, pipe \o <<Plain("done")>>)
      BY <2>1, <1>1, <1>2, Fields, RecordedHeard DEF Stops
    <3> QED BY <2>1, <3>1, <3>2
  <2>2. CASE worker.pc = "metadata" /\ worker.faults > 0 /\ worker' = Unread
            /\ pipe' = pipe \o <<Plain("error"), Plain("skipped")>>
    <3>1. Sound(Unread) BY <2>2, <1>1, <1>2, Fields, UnreadSound DEF Stops
    <3>2. Heard(driver, Unread, pipe \o <<Plain("error"), Plain("skipped")>>)
      BY <2>2, <1>1, <1>2, Fields, UnreadHeard DEF Stops
    <3> QED BY <2>2, <3>1, <3>2
  <2> QED BY <2>0, <2>1, <2>2
<1> QED BY <1>1, <1>3, <1>4, <1>5 DEF Kept

(* Take keeps what a worker's action has to keep.                          *)
LEMMA TakeKept ==
  ASSUME Before, Take
  PROVE  Kept
<1> USE DEF At
<1>1. /\ Sound(worker) /\ Heard(driver, worker, pipe) /\ (driver.scan <=> worker.kind = "scan")
      /\ worker \in Workers /\ Alive
  BY DEF Before, Sound, Take, Next1, Step
<1>2. Polled \in Stops \cup {"none"} /\ Drained \in Seq(Stops \cup Answers) BY PollFinds DEF Before
<1>3. worker'.kind = worker.kind /\ worker'.exit # "terminated"
  BY <1>1 DEF Take, Next1, Step, Workers, Alive
<1>4. decisions' \in Seq(Stops \cup Answers) BY <1>2 DEF Before, Take, Next1, Step
<1>5. Sound(worker') /\ Heard(driver, worker', pipe')
  <2>0. \/ (worker.pc = "add" /\ worker.track \in worker.ready /\ worker' = TookFailure
            /\ pipe' = pipe \o <<Plain("error"), Plain("skipped")>>)
        \/ (worker.pc = "add" /\ worker.track \in worker.ready /\ worker' = Took /\ pipe' = pipe)
    BY <1>1, <1>2, PipeTyped, Fields
       DEF Take, Next1, Step, Emit, Workers, Kinds, Stops, TookFailure, Took
  <2>1. CASE worker.pc = "add" /\ worker.track \in worker.ready /\ worker' = TookFailure
            /\ pipe' = pipe \o <<Plain("error"), Plain("skipped")>>
    <3>1. Sound(TookFailure) BY <2>1, <1>1, <1>2, Fields, TookFailureSound DEF Stops
    <3>2. Heard(driver, TookFailure, pipe \o <<Plain("error"), Plain("skipped")>>)
      BY <2>1, <1>1, <1>2, Fields, TookFailureHeard DEF Stops
    <3> QED BY <2>1, <3>1, <3>2
  <2>2. CASE worker.pc = "add" /\ worker.track \in worker.ready /\ worker' = Took /\ pipe' = pipe
    <3>1. Sound(Took) BY <2>2, <1>1, <1>2, Fields, TookSound DEF Stops
    <3>2. Heard(driver, Took, pipe) BY <2>2, <1>1, <1>2, Fields, TookHeard DEF Stops
    <3> QED BY <2>2, <3>1, <3>2
  <2> QED BY <2>0, <2>1, <2>2
<1> QED BY <1>1, <1>3, <1>4, <1>5 DEF Kept

(* Copy keeps what a worker's action has to keep.                          *)
LEMMA CopyKept ==
  ASSUME Before, Copy
  PROVE  Kept
<1> USE DEF At
<1>1. /\ Sound(worker) /\ Heard(driver, worker, pipe) /\ (driver.scan <=> worker.kind = "scan")
      /\ worker \in Workers /\ Alive
  BY DEF Before, Sound, Copy, Unrecorded, Next1, Poll, GoesOn, Stopped
<1>2. Polled \in Stops \cup {"none"} /\ Drained \in Seq(Stops \cup Answers) BY PollFinds DEF Before
<1>3. worker'.kind = worker.kind /\ worker'.exit # "terminated"
  BY <1>1 DEF Copy, Unrecorded, Next1, Poll, GoesOn, Stopped, Workers, Alive
<1>4. decisions' \in Seq(Stops \cup Answers)
  BY <1>2 DEF Before, Copy, Unrecorded, Next1, Poll, GoesOn, Stopped
<1>5. Sound(worker') /\ Heard(driver, worker', pipe')
  <2>0. \/ (worker.pc = "copy" /\ worker' = Copied /\ pipe' = pipe \o <<Plain("done")>>)
        \/ (worker.pc = "copy" /\ Polled \in Stops /\ worker' = CutShort(Polled)
                  /\ pipe' = pipe \o <<Plain("skipped")>>)
    BY <1>1, <1>2, PipeTyped, Fields
       DEF Copy, Unrecorded, Next1, Poll, GoesOn, Stopped, Emit, Workers, Kinds, Stops, Copied,
          CutShort
  <2>1. CASE worker.pc = "copy" /\ worker' = Copied /\ pipe' = pipe \o <<Plain("done")>>
    <3>1. Sound(Copied) BY <2>1, <1>1, <1>2, Fields, CopiedSound DEF Stops
    <3>2. Heard(driver, Copied, pipe \o <<Plain("done")>>)
      BY <2>1, <1>1, <1>2, Fields, CopiedHeard DEF Stops
    <3> QED BY <2>1, <3>1, <3>2
  <2>2. CASE worker.pc = "copy" /\ Polled \in Stops /\ worker' = CutShort(Polled)
            /\ pipe' = pipe \o <<Plain("skipped")>>
    <3>1. Sound(CutShort(Polled)) BY <2>2, <1>1, <1>2, Fields, CutShortSound DEF Stops
    <3>2. Heard(driver, CutShort(Polled), pipe \o <<Plain("skipped")>>)
      BY <2>2, <1>1, <1>2, Fields, CutShortHeard DEF Stops
    <3> QED BY <2>2, <3>1, <3>2
  <2> QED BY <2>0, <2>1, <2>2
<1> QED BY <1>1, <1>3, <1>4, <1>5 DEF Kept

(* Feed keeps what a worker's action has to keep.                          *)
LEMMA FeedKept ==
  ASSUME Before, Feed
  PROVE  Kept
<1> USE DEF At
<1>1. /\ Sound(worker) /\ Heard(driver, worker, pipe) /\ (driver.scan <=> worker.kind = "scan")
      /\ worker \in Workers /\ Alive
  BY DEF Before, Sound, Feed, InAlbum
<1>2. Polled \in Stops \cup {"none"} /\ Drained \in Seq(Stops \cup Answers) BY PollFinds DEF Before
<1>3. worker'.kind = worker.kind /\ worker'.exit # "terminated"
  BY <1>1 DEF Feed, InAlbum, Workers, Alive
<1>4. decisions' \in Seq(Stops \cup Answers) BY <1>2 DEF Before, Feed, InAlbum
<1>5. Sound(worker') /\ Heard(driver, worker', pipe')
  <2>0. worker.pc \in Inside /\ Permits > 0 /\ Min(Unfed) \in Nat \ worker.fed
            /\ worker' = Fed(Min(Unfed)) /\ pipe' = pipe
    BY <1>1, <1>2, PipeTyped, Fields, AtTrack, Jobbed
       DEF Feed, InAlbum, Emit, Workers, Kinds, Stops, Inside, Acting, Fed
  <2>1. CASE worker.pc \in Inside /\ Permits > 0 /\ Min(Unfed) \in Nat \ worker.fed
            /\ worker' = Fed(Min(Unfed)) /\ pipe' = pipe
    <3>1. Sound(Fed(Min(Unfed))) BY <2>1, <1>1, <1>2, Fields, FedSound DEF Stops
    <3>2. Heard(driver, Fed(Min(Unfed)), pipe) BY <2>1, <1>1, <1>2, Fields, FedHeard DEF Stops
    <3> QED BY <2>1, <3>1, <3>2
  <2> QED BY <2>0, <2>1
<1> QED BY <1>1, <1>3, <1>4, <1>5 DEF Kept

(* Transcode keeps what a worker's action has to keep.                      *)
LEMMA TranscodeKept ==
  ASSUME Before, Transcode
  PROVE  Kept
<1> USE DEF At
<1>1. /\ Sound(worker) /\ Heard(driver, worker, pipe) /\ (driver.scan <=> worker.kind = "scan")
      /\ worker \in Workers /\ Alive
  BY DEF Before, Sound, Transcode, InAlbum
<1>2. Polled \in Stops \cup {"none"} /\ Drained \in Seq(Stops \cup Answers) BY PollFinds DEF Before
<1>3. worker'.kind = worker.kind /\ worker'.exit # "terminated"
  BY <1>1 DEF Transcode, InAlbum, Workers, Alive
<1>4. decisions' \in Seq(Stops \cup Answers) BY <1>2 DEF Before, Transcode, InAlbum
<1>5. Sound(worker') /\ Heard(driver, worker', pipe')
  <2>0. worker.pc \in Inside /\ Min(Queued) \in worker.fed /\ worker' = Started(Min(Queued))
            /\ pipe' = pipe
    BY <1>1, <1>2, PipeTyped, Fields, AtTrack, Jobbed
       DEF Transcode, InAlbum, Emit, Workers, Kinds, Stops, Inside, Acting, Started
  <2>1. CASE worker.pc \in Inside /\ Min(Queued) \in worker.fed /\ worker' = Started(Min(Queued))
            /\ pipe' = pipe
    <3>1. Sound(Started(Min(Queued))) BY <2>1, <1>1, <1>2, Fields, StartedSound DEF Stops
    <3>2. Heard(driver, Started(Min(Queued)), pipe)
      BY <2>1, <1>1, <1>2, Fields, StartedHeard DEF Stops
    <3> QED BY <2>1, <3>1, <3>2
  <2> QED BY <2>0, <2>1
<1> QED BY <1>1, <1>3, <1>4, <1>5 DEF Kept

(* Transcoded keeps what a worker's action has to keep.                      *)
LEMMA TranscodedKept ==
  ASSUME Before, NEW job \in worker.running, Transcoded(job)
  PROVE  Kept
<1> USE DEF At
<1>1. /\ Sound(worker) /\ Heard(driver, worker, pipe) /\ (driver.scan <=> worker.kind = "scan")
      /\ worker \in Workers /\ Alive
  BY DEF Before, Sound, Transcoded
<1>2. Polled \in Stops \cup {"none"} /\ Drained \in Seq(Stops \cup Answers) BY PollFinds DEF Before
<1>3. worker'.kind = worker.kind /\ worker'.exit # "terminated"
  BY <1>1 DEF Transcoded, Workers, Alive
<1>4. decisions' \in Seq(Stops \cup Answers) BY <1>2 DEF Before, Transcoded
<1>5. Sound(worker') /\ Heard(driver, worker', pipe')
  <2>0. \/ (worker' = Ready(job) /\ pipe' = pipe)
        \/ (worker.faults > 0 /\ worker' = ReadyFailed(job) /\ pipe' = pipe)
    BY <1>1, <1>2, PipeTyped, Fields DEF Transcoded, Emit, Workers, Kinds, Stops, Ready, ReadyFailed
  <2>1. CASE worker' = Ready(job) /\ pipe' = pipe
    <3>1. Sound(Ready(job)) BY <2>1, <1>1, <1>2, Fields, ReadySound DEF Stops
    <3>2. Heard(driver, Ready(job), pipe) BY <2>1, <1>1, <1>2, Fields, ReadyHeard DEF Stops
    <3> QED BY <2>1, <3>1, <3>2
  <2>2. CASE worker.faults > 0 /\ worker' = ReadyFailed(job) /\ pipe' = pipe
    <3>1. Sound(ReadyFailed(job)) BY <2>2, <1>1, <1>2, Fields, ReadyFailedSound DEF Stops
    <3>2. Heard(driver, ReadyFailed(job), pipe)
      BY <2>2, <1>1, <1>2, Fields, ReadyFailedHeard DEF Stops
    <3> QED BY <2>2, <3>1, <3>2
  <2> QED BY <2>0, <2>1, <2>2
<1> QED BY <1>1, <1>3, <1>4, <1>5 DEF Kept

(* Join keeps what a worker's action has to keep.                          *)
LEMMA JoinKept ==
  ASSUME Before, Join
  PROVE  Kept
<1> USE DEF At
<1>1. /\ Sound(worker) /\ Heard(driver, worker, pipe) /\ (driver.scan <=> worker.kind = "scan")
      /\ worker \in Workers /\ Alive
  BY DEF Before, Sound, Join, Joined, Step
<1>2. Polled \in Stops \cup {"none"} /\ Drained \in Seq(Stops \cup Answers) BY PollFinds DEF Before
<1>3. worker'.kind = worker.kind /\ worker'.exit # "terminated"
  BY <1>1 DEF Join, Joined, Step, Workers, Alive
<1>4. decisions' \in Seq(Stops \cup Answers) BY <1>2 DEF Before, Join, Joined, Step
<1>5. Sound(worker')
  BY <1>1, <1>2, Fields, JoinedOnSound, JoinedOffSound
     DEF Join, Joined, Step, Workers, Kinds, JoinedOn, JoinedOff
<1>6. Heard(driver, worker', pipe')
  BY <1>1, <1>2, PipeTyped, Fields, JoinedOnHeard, JoinedOffHeard
     DEF Join, Joined, Step, Emit, Workers, Kinds, JoinedOn, JoinedOff
<1> QED BY <1>1, <1>3, <1>4, <1>5, <1>6 DEF Kept

(* Boundary keeps what a worker's action has to keep.                      *)
LEMMA BoundaryKept ==
  ASSUME Before, Boundary
  PROVE  Kept
<1> USE DEF At
<1>1. /\ Sound(worker) /\ Heard(driver, worker, pipe) /\ (driver.scan <=> worker.kind = "scan")
      /\ worker \in Workers /\ Alive
  BY DEF Before, Sound, Boundary, Published, Step
<1>2. Polled \in Stops \cup {"none"} /\ Drained \in Seq(Stops \cup Answers) BY PollFinds DEF Before
<1>3. worker'.kind = worker.kind /\ worker'.exit # "terminated"
  BY <1>1 DEF Boundary, Published, Step, Workers, Alive
<1>4. decisions' \in Seq(Stops \cup Answers) BY <1>2 DEF Before, Boundary, Published, Step
<1>5. Sound(worker') /\ Heard(driver, worker', pipe')
  <2>0. \/ (worker.pc = "boundary" /\ worker' = NotDue /\ pipe' = pipe)
        \/ (worker.pc = "boundary" /\ worker' = Checkpointed
                  /\ pipe' = pipe \o <<Plain("progress")>>)
    BY <1>1, <1>2, PipeTyped, Fields
       DEF Boundary, Published, Step, Emit, Workers, Kinds, Stops, NotDue, Checkpointed
  <2>1. CASE worker.pc = "boundary" /\ worker' = NotDue /\ pipe' = pipe
    <3>1. Sound(NotDue) BY <2>1, <1>1, <1>2, Fields, NotDueSound DEF Stops
    <3>2. Heard(driver, NotDue, pipe) BY <2>1, <1>1, <1>2, Fields, NotDueHeard DEF Stops
    <3> QED BY <2>1, <3>1, <3>2
  <2>2. CASE worker.pc = "boundary" /\ worker' = Checkpointed
            /\ pipe' = pipe \o <<Plain("progress")>>
    <3>1. Sound(Checkpointed) BY <2>2, <1>1, <1>2, Fields, CheckpointedSound DEF Stops
    <3>2. Heard(driver, Checkpointed, pipe \o <<Plain("progress")>>)
      BY <2>2, <1>1, <1>2, Fields, CheckpointedHeard DEF Stops
    <3> QED BY <2>2, <3>1, <3>2
  <2> QED BY <2>0, <2>1, <2>2
<1> QED BY <1>1, <1>3, <1>4, <1>5 DEF Kept

(* Stopping keeps what a worker's action has to keep.                      *)
LEMMA StoppingKept ==
  ASSUME Before, Stopping
  PROVE  Kept
<1> USE DEF At
<1>1. /\ Sound(worker) /\ Heard(driver, worker, pipe) /\ (driver.scan <=> worker.kind = "scan")
      /\ worker \in Workers /\ Alive
  BY DEF Before, Sound, Stopping, FinalStop
<1>2. Polled \in Stops \cup {"none"} /\ Drained \in Seq(Stops \cup Answers) BY PollFinds DEF Before
<1>3. worker'.kind = worker.kind /\ worker'.exit # "terminated"
  BY <1>1 DEF Stopping, FinalStop, Workers, Alive
<1>4. decisions' \in Seq(Stops \cup Answers) BY <1>2 DEF Before, Stopping, FinalStop
<1>5. Sound(worker')
  BY <1>1, <1>2, Fields, AnnouncedSound DEF Stopping, FinalStop, Workers, Kinds, Announced
<1>6. Heard(driver, worker', pipe')
  BY <1>1, <1>2, PipeTyped, Fields, AnnouncedHeard, UnannouncedHeard
     DEF Stopping, FinalStop, Emit, Workers, Kinds, Announced
<1> QED BY <1>1, <1>3, <1>4, <1>5, <1>6 DEF Kept

(* Publish keeps what a worker's action has to keep.                       *)
LEMMA PublishKept ==
  ASSUME Before, Publish
  PROVE  Kept
<1> USE DEF At
<1>1. /\ Sound(worker) /\ Heard(driver, worker, pipe) /\ (driver.scan <=> worker.kind = "scan")
      /\ worker \in Workers /\ Alive
  BY DEF Before, Sound, Publish, Published, Step
<1>2. Polled \in Stops \cup {"none"} /\ Drained \in Seq(Stops \cup Answers) BY PollFinds DEF Before
<1>3. worker'.kind = worker.kind /\ worker'.exit # "terminated"
  BY <1>1 DEF Publish, Published, Step, Workers, Alive
<1>4. decisions' \in Seq(Stops \cup Answers) BY <1>2 DEF Before, Publish, Published, Step
<1>5. Sound(worker')
  BY <1>1, <1>2, Fields, PublishedLastSound
     DEF Publish, Published, Step, Workers, Kinds, PublishedLast
<1>6. Heard(driver, worker', pipe')
  BY <1>1, <1>2, PipeTyped, Fields, PublishedLastHeard
     DEF Publish, Published, Step, Emit, Workers, Kinds, PublishedLast
<1> QED BY <1>1, <1>3, <1>4, <1>5, <1>6 DEF Kept

(* Finish keeps what a worker's action has to keep.                        *)
LEMMA FinishKept ==
  ASSUME Before, Finish
  PROVE  Kept
<1> USE DEF At
<1>1. /\ Sound(worker) /\ Heard(driver, worker, pipe) /\ (driver.scan <=> worker.kind = "scan")
      /\ worker \in Workers /\ Alive
  BY DEF Before, Sound, Finish, Signal, Step
<1>2. Polled \in Stops \cup {"none"} /\ Drained \in Seq(Stops \cup Answers) BY PollFinds DEF Before
<1>3. worker'.kind = worker.kind /\ worker'.exit # "terminated"
  BY <1>1 DEF Finish, Signal, Step, Workers, Alive
<1>4. decisions' \in Seq(Stops \cup Answers) BY <1>2 DEF Before, Finish, Signal, Step
<1>5. Sound(worker') /\ Heard(driver, worker', pipe')
  <2>0. \/ (worker.pc = "finish" /\ worker.kind = "scan")
        \/ (worker.pc = "finish" /\ worker.kind # "scan" /\ ~ worker.ok)
        \/ (worker.pc = "finish" /\ worker.kind # "scan" /\ worker.ok /\ worker.stop = "none")
        \/ (worker.pc = "finish" /\ worker.kind # "scan" /\ worker.ok /\ worker.stop = "cancel")
        \/ (worker.pc = "finish" /\ worker.kind # "scan" /\ worker.ok /\ worker.stop = "pause")
    BY <1>1, <1>2, PipeTyped, Fields, Paired DEF Finish, Signal, Step, Emit, Workers, Kinds, Stops
  <2>1. CASE worker.pc = "finish" /\ worker.kind = "scan"
    <3>1. Sound(Finished) BY <2>1, <1>1, <1>2, Fields, FinishedSound DEF Stops
    <3>2. Heard(driver, Finished, pipe \o <<Event("scan_finished", worker.ok)>>)
      BY <2>1, <1>1, <1>2, Fields, FinishedScanHeard DEF Stops
    <3>3. worker' = Finished /\ pipe' = pipe \o <<Event("scan_finished", worker.ok)>>
      BY <2>1, Paired DEF Finish, Signal, Step, Emit, Finished
    <3> QED BY <3>1, <3>2, <3>3
  <2>2. CASE worker.pc = "finish" /\ worker.kind # "scan" /\ ~ worker.ok
    <3>1. Sound(Finished) BY <2>2, <1>1, <1>2, Fields, FinishedSound DEF Stops
    <3>2. Heard(driver, Finished, pipe \o <<Plain("error"), Event("finished", worker.ok)>>)
      BY <2>2, <1>1, <1>2, Fields, FinishedFailedHeard DEF Stops
    <3>3. worker' = Finished /\ pipe' = pipe \o <<Plain("error"), Event("finished", worker.ok)>>
      BY <2>2, Paired DEF Finish, Signal, Step, Emit, Finished
    <3> QED BY <3>1, <3>2, <3>3
  <2>3. CASE worker.pc = "finish" /\ worker.kind # "scan" /\ worker.ok /\ worker.stop = "none"
    <3>1. Sound(Finished) BY <2>3, <1>1, <1>2, Fields, FinishedSound DEF Stops
    <3>2. Heard(driver, Finished, pipe \o <<Event("finished", worker.ok)>>)
      BY <2>3, <1>1, <1>2, Fields, FinishedOkHeard DEF Stops
    <3>3. worker' = Finished /\ pipe' = pipe \o <<Event("finished", worker.ok)>>
      BY <2>3, Paired DEF Finish, Signal, Step, Emit, Finished
    <3> QED BY <3>1, <3>2, <3>3
  <2>4. CASE worker.pc = "finish" /\ worker.kind # "scan" /\ worker.ok /\ worker.stop = "cancel"
    <3>1. Sound(Finished) BY <2>4, <1>1, <1>2, Fields, FinishedSound DEF Stops
    <3>2. Heard(driver, Finished, pipe \o <<Plain("cancelled"), Event("finished", worker.ok)>>)
      BY <2>4, <1>1, <1>2, Fields, FinishedCancelledHeard DEF Stops
    <3>3. worker' = Finished /\ pipe' = pipe \o <<Plain("cancelled"), Event("finished", worker.ok)>>
      BY <2>4, Paired DEF Finish, Signal, Step, Emit, Finished
    <3> QED BY <3>1, <3>2, <3>3
  <2>5. CASE worker.pc = "finish" /\ worker.kind # "scan" /\ worker.ok /\ worker.stop = "pause"
    <3>1. Sound(Finished) BY <2>5, <1>1, <1>2, Fields, FinishedSound DEF Stops
    <3>2. Heard(driver, Finished, pipe \o <<Plain("paused"), Event("finished", worker.ok)>>)
      BY <2>5, <1>1, <1>2, Fields, FinishedPausedHeard DEF Stops
    <3>3. worker' = Finished /\ pipe' = pipe \o <<Plain("paused"), Event("finished", worker.ok)>>
      BY <2>5, Paired DEF Finish, Signal, Step, Emit, Finished
    <3> QED BY <3>1, <3>2, <3>3
  <2> QED BY <2>0, <2>1, <2>2, <2>3, <2>4, <2>5
<1> QED BY <1>1, <1>3, <1>4, <1>5 DEF Kept

(* Die keeps what a worker's action has to keep.                           *)
LEMMA DieKept ==
  ASSUME Before, Die
  PROVE  Kept
<1> USE DEF At
<1>1. /\ Sound(worker) /\ Heard(driver, worker, pipe) /\ (driver.scan <=> worker.kind = "scan")
      /\ worker \in Workers /\ Alive
  BY DEF Before, Sound, Die
<1>2. Polled \in Stops \cup {"none"} /\ Drained \in Seq(Stops \cup Answers) BY PollFinds DEF Before
<1>3. worker'.kind = worker.kind /\ worker'.exit # "terminated" BY <1>1 DEF Die, Workers, Alive
<1>4. decisions' \in Seq(Stops \cup Answers) BY <1>2 DEF Before, Die
<1>5. Sound(worker') /\ Heard(driver, worker', pipe')
  <2>0. worker.faults - 1 \in Nat /\ worker' = Died((worker.faults - 1), "killed") /\ pipe' = pipe
    BY <1>1, <1>2, PipeTyped, Fields DEF Die, Emit, Workers, Kinds, Stops, Died
  <2>1. CASE worker.faults - 1 \in Nat /\ worker' = Died((worker.faults - 1), "killed")
            /\ pipe' = pipe
    <3>1. Sound(Died((worker.faults - 1), "killed"))
      BY <2>1, <1>1, <1>2, Fields, DiedSound DEF Stops
    <3>2. Heard(driver, Died((worker.faults - 1), "killed"), pipe)
      BY <2>1, <1>1, <1>2, Fields, DiedHeard DEF Stops
    <3> QED BY <2>1, <3>1, <3>2
  <2> QED BY <2>0, <2>1
<1> QED BY <1>1, <1>3, <1>4, <1>5 DEF Kept

-----------------------------------------------------------------------------
(* The driver.                                                               *)

(* Every action of the worker keeps what it has to keep.                   *)
LEMMA WorkerKept ==
  ASSUME Before, WorkerNext
  PROVE  Kept
<1>1. CASE \E pc \in {"preflight", "erase", "refresh", "index", "plan", "admit0", "join", "copy",
                     "boundary", "publish"} : Fail(pc)
  BY <1>1, FailKept DEF Pcs
<1>2. CASE \/ Hello \/ Ask \/ Answered \/ Passed \/ Erase \/ Refresh \/ Index \/ Plan \/ PrepareArtwork
           \/ ScanAsks \/ Join \/ Finish \/ Die
  BY <1>2, HelloKept, AskKept, AnsweredKept, PassedKept, EraseKept, RefreshKept, IndexKept,
     PlanKept,
     PrepareArtworkKept, ScanAsksKept, JoinKept, FinishKept, DieKept
<1>3. CASE \/ Admit \/ Track \/ LastTrack \/ Remove \/ Metadata \/ Take \/ Copy \/ Boundary \/ Stopping
           \/ Publish
  BY <1>3, AdmitKept, TrackKept, LastTrackKept, RemoveKept, MetadataKept, TakeKept, CopyKept,
     BoundaryKept,
     StoppingKept, PublishKept
<1>4. CASE Pipeline BY <1>4, FeedKept, TranscodeKept, TranscodedKept DEF Pipeline
<1> QED
  BY <1>1, <1>2, <1>3, <1>4
     DEF WorkerNext, Staging, PreflightFails, EraseFails, RefreshFails, IndexFails, PlanFails,
         PrepareArtworkFails, SaveFails, CopyFails, BoundaryFails, PublishFails

(* An action of the worker keeps the invariant: it is alive, so its driver *)
(* runs and has told no outcome.                                           *)
LEMMA WorkerStep ==
  ASSUME IInv, WorkerNext, UNCHANGED driver
  PROVE  IInv'
<1>1. CASE Alive
  <2>1. Running /\ driver.result = "none" BY <1>1 DEF IInv, DriverInv, Steady, Running
  <2>2. Before BY <2>1 DEF Before, IInv, StreamInv, DriverInv
  <2>3. Kept BY <2>2, WorkerKept
  <2>4. Sound(worker') /\ (decisions \in Seq(Stops \cup Answers))' BY <2>3 DEF Kept
  <2>5. DriverInv' BY <2>1, <2>3 DEF Kept, IInv, DriverInv, Running, Steady, ShouldBail
  <2>6. StreamInv' BY <2>1, <2>3 DEF Kept, StreamInv, Heard, Sees
  <2>7. OutcomeTruthful' /\ StreamAccepted' BY <2>1 DEF OutcomeTruthful, StreamAccepted
  <2> QED BY <2>4, <2>5, <2>6, <2>7 DEF IInv
<1>2. ASSUME ~ Alive PROVE FALSE
  BY <1>2
     DEF WorkerNext, Staging, Pipeline, Hello, Ask, Answered, Passed, PreflightFails, Erase,
        EraseFails,
     Refresh, RefreshFails, Index, IndexFails, Plan, PlanFails, PrepareArtwork,
     PrepareArtworkFails, ScanAsks, SaveFails, Join, Finish, Die, Admit, Track, LastTrack, Remove,
     Metadata, Take, Copy, CopyFails, Boundary, BoundaryFails, Stopping, Publish, PublishFails,
     Feed, Transcode, Transcoded, InAlbum, Step, At, Poll, Fail, Joined
<1> QED BY <1>1, <1>2

-----------------------------------------------------------------------------
(* What an event changes is what it says, and a stop is written once.      *)
LEMMA ObservedSteady ==
  ASSUME NEW d, Steady(d), NEW v, Sees(d, v), NEW e \in Events, Legal(d.scan, v, e)
  PROVE  /\ Steady([Observed(d, e) EXCEPT !.life = Advance(d.scan, d.life, e)])
         /\ Sees([Observed(d, e) EXCEPT !.life = Advance(d.scan, d.life, e)], Consumed(d.scan, v, e))
         /\ LET x == [Observed(d, e) EXCEPT !.life = Advance(d.scan, d.life, e)] IN
            x.pc = d.pc /\ x.scan = d.scan
<1> DEFINE a == Advance(d.scan, d.life, e)
<1> DEFINE c == Consumed(d.scan, v, e)
<1>1. /\ d \in Drivers /\ d.stops \in Nat /\ d.total \in Nat /\ d.errored \in Nat
      /\ d.stops + 1 \in Nat /\ d.errored + 1 \in Nat
  BY DEF Steady, Drivers
<1>2. c \in Views /\ c.life = a /\ a \in Lives
  <2>1. c \in Views BY DEF Legal
  <2>2. c.life = a BY DEF Consumed, Sees
  <2> QED BY <2>1, <2>2, ViewFields
<1>3. c.total \in Nat /\ c.errored \in Nat BY <1>2, ViewFields
<1>4. /\ c.total = IF e.name = "summary" THEN e.arg ELSE d.total
      /\ c.errored = IF e.name = "skipped" THEN d.errored + 1 ELSE d.errored
      /\ c.cancelled <=> d.cancelled \/ e.name = "cancelled"
      /\ c.paused <=> d.paused \/ e.name = "paused"
      /\ c.finish = IF e.name \in {"finished", "scan_finished"}
                    THEN (IF e.arg THEN "ok" ELSE "failed") ELSE d.finish
      /\ c.marked => d.disposition # "none" \/ e.name = "finalizing"
  BY DEF Consumed, Sees
<1>5. (e.name = "summary" => d.errored = 0) /\ (e.name = "finalizing" => e.arg \in Stops)
  BY DEF Legal, Sees
<1>6. e.name \in Names BY DEF Events
<1> HIDE DEF a, c
<1> DEFINE x == [Observed(d, e) EXCEPT !.life = a]
<1>7. x \in Drivers /\ x.pc = d.pc /\ x.scan = d.scan /\ x.result = d.result
  <2>1. CASE e.name \in {"summary"}
    BY <2>1, <1>1, <1>2, <1>3, <1>4, <1>5 DEF Drivers, Observed, StopWith, Bails, Stops
  <2>2. CASE e.name \in {"skipped"}
    BY <2>2, <1>1, <1>2, <1>3, <1>4, <1>5 DEF Drivers, Observed, StopWith, Bails, Stops
  <2>3. CASE e.name \in {"finalizing"}
    BY <2>3, <1>1, <1>2, <1>3, <1>4, <1>5 DEF Drivers, Observed, StopWith, Bails, Stops
  <2>4. CASE e.name \in {"cancelled"}
    BY <2>4, <1>1, <1>2, <1>3, <1>4, <1>5 DEF Drivers, Observed, StopWith, Bails, Stops
  <2>5. CASE e.name \in {"paused"}
    BY <2>5, <1>1, <1>2, <1>3, <1>4, <1>5 DEF Drivers, Observed, StopWith, Bails, Stops
  <2>6. CASE e.name \in {"finished", "scan_finished"}
    BY <2>6, <1>1, <1>2, <1>3, <1>4, <1>5 DEF Drivers, Observed, StopWith, Bails, Stops
  <2>7. CASE e.name \in {"prompt"}
    BY <2>7, <1>1, <1>2, <1>3, <1>4, <1>5 DEF Drivers, Observed, StopWith, Bails, Stops
  <2>8. CASE e.name \in {"hello", "error", "progress", "done", "scan_started", "scan_progress"}
    BY <2>8, <1>1, <1>2, <1>3, <1>4, <1>5 DEF Drivers, Observed, StopWith, Bails, Stops
  <2> QED BY <1>6, <2>1, <2>2, <2>3, <2>4, <2>5, <2>6, <2>7, <2>8 DEF Names
<1>8. x.stops <= 1 /\ (x.disposition = "none" => x.stops = 0 /\ ~ ShouldBail(x))
  BY <1>1, <1>2, <1>3, <1>4, <1>5, <1>6
     DEF Steady, Drivers, Observed, StopWith, Bails, ShouldBail, Names, Stops
<1>9. /\ x.life = c.life /\ x.total = c.total /\ x.errored = c.errored /\ x.finish = c.finish
      /\ (x.cancelled <=> c.cancelled) /\ (x.paused <=> c.paused)
      /\ c.marked => x.disposition # "none"
  <2>1. CASE e.name \in {"summary"}
    BY <2>1, <1>1, <1>2, <1>3, <1>4, <1>5 DEF Drivers, Observed, StopWith, Bails, Stops
  <2>2. CASE e.name \in {"skipped"}
    BY <2>2, <1>1, <1>2, <1>3, <1>4, <1>5 DEF Drivers, Observed, StopWith, Bails, Stops
  <2>3. CASE e.name \in {"finalizing"}
    BY <2>3, <1>1, <1>2, <1>3, <1>4, <1>5 DEF Drivers, Observed, StopWith, Bails, Stops
  <2>4. CASE e.name \in {"cancelled"}
    BY <2>4, <1>1, <1>2, <1>3, <1>4, <1>5 DEF Drivers, Observed, StopWith, Bails, Stops
  <2>5. CASE e.name \in {"paused"}
    BY <2>5, <1>1, <1>2, <1>3, <1>4, <1>5 DEF Drivers, Observed, StopWith, Bails, Stops
  <2>6. CASE e.name \in {"finished", "scan_finished"}
    BY <2>6, <1>1, <1>2, <1>3, <1>4, <1>5 DEF Drivers, Observed, StopWith, Bails, Stops
  <2>7. CASE e.name \in {"prompt"}
    BY <2>7, <1>1, <1>2, <1>3, <1>4, <1>5 DEF Drivers, Observed, StopWith, Bails, Stops
  <2>8. CASE e.name \in {"hello", "error", "progress", "done", "scan_started", "scan_progress"}
    BY <2>8, <1>1, <1>2, <1>3, <1>4, <1>5 DEF Drivers, Observed, StopWith, Bails, Stops
  <2> QED BY <1>6, <2>1, <2>2, <2>3, <2>4, <2>5, <2>6, <2>7, <2>8 DEF Names
<1> HIDE DEF x
<1>10. Steady(x) BY <1>7, <1>8 DEF Steady
<1>11. Sees(x, c) BY <1>2, <1>9 DEF Sees
<1> QED BY <1>7, <1>10, <1>11 DEF x, a, c

(* A command is a decision.                                                *)
LEMMA WrittenTyped ==
  ASSUME NEW command \in Stops \cup Answers, decisions \in Seq(Stops \cup Answers),
         Written(command) \/ UNCHANGED decisions
  PROVE  decisions' \in Seq(Stops \cup Answers)
<1>1. Append(decisions, command) \in Seq(Stops \cup Answers) BY AppendProperties
<1> QED BY <1>1 DEF Written

(* An event that has been read.                                            *)
LEMMA ReceiveStep ==
  ASSUME IInv, Receive
  PROVE  IInv'
<1>1. Running /\ pipe # <<>> /\ driver.result = "none"
  BY DEF Receive, IInv, DriverInv, Steady, Running
<1>2. PICK v \in Views, u \in Views : Sees(driver, v) /\ Leads(driver.scan, v,
          pipe, u) /\ Reflects(worker, u)
  BY <1>1 DEF IInv, StreamInv, Heard
<1> DEFINE e == Head(pipe)
<1> DEFINE c == Consumed(driver.scan, v, e)
<1>3. Legal(driver.scan, v, e) /\ e \in Events /\ Leads(driver.scan, c, Tail(pipe), u)
  BY <1>1, <1>2, LeadsRead
<1>4. c \in Views BY <1>3 DEF Legal
<1>5. Advance(driver.scan, driver.life, e) # Illegal BY <1>2, <1>3 DEF Legal, Sees
<1>6. /\ pipe' = Tail(pipe) /\ UNCHANGED worker
      /\ driver' = [Observed(driver, e) EXCEPT !.life = Advance(driver.scan, driver.life, e)]
      /\ Written("cancel") \/ UNCHANGED decisions
  BY <1>5 DEF Receive
<1>7. Steady(driver) BY DEF IInv, DriverInv
<1> HIDE DEF e, c
<1>8. Steady(driver') /\ Sees(driver', c) /\ driver'.pc = driver.pc /\ driver'.scan = driver.scan
  BY <1>2, <1>3, <1>6, <1>7, ObservedSteady DEF c
<1>9. StreamInv' BY <1>1, <1>2, <1>3, <1>4, <1>6, <1>8 DEF StreamInv, Heard
<1>10. DriverInv' BY <1>1, <1>6, <1>8 DEF DriverInv, IInv, Running, Alive, Steady, ShouldBail
<1>11. driver'.result = "none" BY <1>1, <1>8 DEF Steady, Running
<1>12. OutcomeTruthful' /\ StreamAccepted' BY <1>11 DEF OutcomeTruthful, StreamAccepted
<1>13. decisions' \in Seq(Stops \cup Answers) BY <1>6, WrittenTyped DEF IInv, Stops
<1>14. Sound(worker') BY <1>6 DEF IInv
<1> QED BY <1>9, <1>10, <1>12, <1>13, <1>14 DEF IInv

(* A driver that changes none of what it has seen.                         *)
LEMMA StillHeard ==
  ASSUME NEW d, NEW x, NEW w, NEW p, Heard(d, w, p),
         x.life = d.life, x.total = d.total, x.errored = d.errored, x.cancelled = d.cancelled,
         x.paused = d.paused, x.finish = d.finish, x.scan = d.scan,
         d.disposition # "none" => x.disposition # "none"
  PROVE  Heard(x, w, p)
<1>1. PICK v \in Views, u \in Views : Sees(d, v) /\ Leads(d.scan, v, p, u) /\ Reflects(w, u)
  BY DEF Heard
<1>2. Sees(x, v) BY <1>1 DEF Sees
<1> QED BY <1>1, <1>2 DEF Heard

(* A command that arrives, or a channel that closes, or an answer: the     *)
(* session runs on.                                                        *)
LEMMA CommandStep ==
  ASSUME IInv, Running, UNCHANGED <<worker, pipe>>, decisions' \in Seq(Stops \cup Answers),
         Steady(driver'), driver'.pc = driver.pc,
         driver'.life = driver.life, driver'.total = driver.total, driver'.errored = driver.errored,
         driver'.cancelled = driver.cancelled, driver'.paused = driver.paused,
         driver'.finish = driver.finish, driver'.scan = driver.scan,
         driver.disposition # "none" => driver'.disposition # "none"
  PROVE  IInv'
<1>1. Heard(driver, worker, pipe) BY DEF IInv, StreamInv
<1>2. Heard(driver', worker', pipe') BY <1>1, StillHeard
<1>3. StreamInv' BY <1>2 DEF StreamInv
<1>4. DriverInv' BY DEF DriverInv, IInv, Running, Alive
<1>5. driver'.result = "none" BY DEF Steady, Running
<1>6. OutcomeTruthful' /\ StreamAccepted' BY <1>5 DEF OutcomeTruthful, StreamAccepted
<1>7. Sound(worker') BY DEF IInv
<1> QED BY <1>3, <1>4, <1>6, <1>7 DEF IInv

(* A driver that ends with a failure, or a scan's, and kills its worker.   *)
LEMMA KillStep ==
  ASSUME IInv, Running, NEW result \in Results, NEW d, Steady(d), d.pc = "running",
         d.scan = driver.scan, driver' = End(d, result), worker' = Killed(worker),
         UNCHANGED decisions,
         \/ result \in Reasons \ {"worker_protocol_error"}
         \/ driver.scan /\ result \notin {"completed", "worker_protocol_error"}
  PROVE  IInv'
<1>1. Sound(worker) /\ worker \in Workers /\ worker.faults \in Nat BY Fields DEF IInv, Sound
<1>2. Sound(worker')
  <2>1. CASE Alive
    <3>1. worker' = Died(worker.faults, "terminated")
      BY <1>1, <2>1 DEF Killed, Alive, Workers, Died
    <3> QED BY <1>1, <2>1, <3>1, DiedSound
  <2>2. CASE ~ Alive BY <1>1, <2>2 DEF Killed, Alive
  <2> QED BY <2>1, <2>2
<1>3. worker'.exit # "none" /\ worker'.kind = worker.kind BY <1>1 DEF Killed, Workers
<1>4. d \in Drivers BY DEF Steady
<1>5. driver'.pc = "ended" /\ driver'.result = result /\ driver'.scan = driver.scan
  BY <1>4 DEF End, Drivers
<1>6. driver' \in Drivers BY <1>4 DEF End, Drivers
<1>7. Steady(driver')
  BY <1>4, <1>5, <1>6 DEF Steady, End, Drivers, ShouldBail, Results, Reasons
<1>8. DriverInv' BY <1>3, <1>5, <1>7 DEF DriverInv, IInv, Running, Alive
<1>9. StreamInv' BY <1>5 DEF StreamInv, Running
<1>10. OutcomeTruthful' BY <1>5 DEF OutcomeTruthful, Reasons
<1>11. StreamAccepted' BY <1>5 DEF StreamAccepted, Reasons
<1>12. (decisions \in Seq(Stops \cup Answers))' BY DEF IInv
<1> QED BY <1>2, <1>8, <1>9, <1>10, <1>11, <1>12 DEF IInv

(* A client's stop.                                                        *)
LEMMA ControlStep ==
  ASSUME IInv, NEW stop \in Stops, Control(stop)
  PROVE  IInv'
<1> DEFINE d == [driver EXCEPT !.open = @ \ {stop}]
<1>1. Running /\ Steady(driver) /\ driver \in Drivers /\ driver.pc = "running"
  BY DEF IInv, DriverInv, Steady, Control, Running
<1>2. d \in Drivers /\ Steady(d) /\ d.pc = "running" /\ d.scan = driver.scan
  BY <1>1 DEF Steady, Drivers, ShouldBail
<1>3. CASE ~ Honoured(driver)
  <2>1. driver' = d /\ UNCHANGED <<worker, decisions, pipe>> BY <1>3 DEF Control
  <2>2. decisions' \in Seq(Stops \cup Answers) BY <2>1 DEF IInv
  <2> QED BY <1>1, <1>2, <2>1, <2>2, CommandStep DEF Drivers
<1>4. CASE Honoured(driver) /\ driver.scan
  <2>1. driver' = End(d, Outcome(stop)) /\ worker' = Killed(worker) /\ UNCHANGED decisions
    BY <1>4 DEF Control
  <2>2. Outcome(stop) \in Results /\ Outcome(stop) \notin {"completed", "worker_protocol_error"}
    BY DEF Outcome, Results
  <2> HIDE DEF d
  <2> QED BY <1>1, <1>2, <1>4, <2>1, <2>2, KillStep
<1>5. CASE Honoured(driver) /\ ~ driver.scan
  <2>1. driver' = StopWith(d, stop) /\ Written(stop) /\ UNCHANGED <<worker, pipe>>
    BY <1>5 DEF Control
  <2>2. decisions' \in Seq(Stops \cup Answers) BY <2>1, WrittenTyped DEF IInv
  <2>3. driver' \in Drivers /\ driver'.pc = "running"
    <3>1. driver.stops + 1 \in Nat BY <1>1 DEF Drivers
    <3> QED BY <1>1, <2>1, <3>1 DEF Drivers, StopWith
  <2>4. Steady(driver') BY <1>1, <1>5, <2>1, <2>3 DEF Steady, Drivers, StopWith, Honoured, Stops
  <2>5. driver'.disposition # "none" BY <1>1, <2>1 DEF Drivers, StopWith, Stops
  <2> QED BY <1>1, <2>1, <2>2, <2>3, <2>4, <2>5, CommandStep DEF Drivers, StopWith
<1> QED BY <1>3, <1>4, <1>5

(* A channel that closes, and an answer.                                   *)
LEMMA QuietStep ==
  ASSUME IInv, (\E stop \in Stops : Closed(stop)) \/ \E answer \in Answers : Relay(answer)
  PROVE  IInv'
<1>1. Steady(driver) /\ driver \in Drivers /\ decisions \in Seq(Stops \cup Answers)
  BY DEF IInv, DriverInv, Steady
<1>2. ASSUME NEW stop \in Stops, Closed(stop) PROVE IInv'
  <2>1. Running /\ driver' = [driver EXCEPT !.open = @ \ {stop}] /\ UNCHANGED <<worker,
            pipe, decisions>>
    BY <1>2 DEF Closed, workerVars
  <2>2. Steady(driver') BY <1>1, <2>1 DEF Steady, Drivers, ShouldBail
  <2> QED BY <1>1, <2>1, <2>2, CommandStep DEF Drivers
<1>3. ASSUME NEW answer \in Answers, Relay(answer) PROVE IInv'
  <2>1. Running /\ driver' = [driver EXCEPT !.prompted = FALSE] /\ UNCHANGED <<worker,
            pipe>> /\ Written(answer)
    BY <1>3 DEF Relay
  <2>2. Steady(driver') BY <1>1, <2>1 DEF Steady, Drivers, ShouldBail
  <2>3. decisions' \in Seq(Stops \cup Answers) BY <1>1, <2>1, WrittenTyped
  <2> QED BY <1>1, <2>1, <2>2, <2>3, CommandStep DEF Drivers
<1> QED BY <1>2, <1>3

(* The watchdog.                                                           *)
LEMMA ExpireStep ==
  ASSUME IInv, Expire
  PROVE  IInv'
<1>1. /\ Running /\ driver' = End(driver, "finalization_stalled") /\ worker' = Killed(worker)
      /\ UNCHANGED decisions
  BY DEF Expire, Kill
<1>2. Steady(driver) /\ driver.pc = "running" BY <1>1 DEF IInv, DriverInv, Running
<1> QED BY <1>1, <1>2, KillStep DEF Results, Reasons

-----------------------------------------------------------------------------
(* A set of tracks that was skipped, doubled.                              *)
LEMMA NotTooMany ==
  ASSUME NEW d \in Drivers, NEW w \in Workers, ~ ShouldBail(d), Cardinality(w.skipped) <= d.errored,
         w.skipped # {} => d.total = Cardinality(Tracks)
  PROVE  2 * Cardinality(w.skipped) <= Cardinality(Tracks)
<1> DEFINE k == Cardinality(w.skipped)
<1> DEFINE n == Cardinality(Tracks)
<1>1. k \in Nat /\ n \in Nat BY SkippedCounted, TracksFinite
<1>2. d.total \in Nat /\ d.errored \in Nat BY DEF Drivers
<1>3. CASE w.skipped = {}
  <2>1. k = 0 BY <1>3, FS_EmptySet
  <2> HIDE DEF k, n
  <2>2. 2 * k <= n BY <1>1, <2>1
  <2> QED BY <2>2 DEF k, n
<1>4. CASE w.skipped # {}
  <2>1. IsFiniteSet(w.skipped) BY Fields, TracksFinite, FS_Subset
  <2>2. k # 0 BY <1>4, <2>1, FS_EmptySet
  <2>3. d.total = n /\ k <= d.errored BY <1>4
  <2>4. k <= n BY Fields, TracksFinite, FS_Subset
  <2> HIDE DEF k, n
  <2>5. n > 0 /\ d.errored > 0 BY <1>1, <1>2, <2>2, <2>3, <2>4
  <2>6. ~ (d.errored * 2 > n) BY <2>3, <2>5 DEF ShouldBail
  <2>7. 2 * k <= n BY <1>1, <1>2, <2>3, <2>6
  <2> QED BY <2>7 DEF k, n
<1> QED BY <1>3, <1>4

(* The end of the stream: what the driver has read is all the worker said, *)
(* and the outcome it tells is the one it had.                             *)
LEMMA EofStep ==
  ASSUME IInv, Eof
  PROVE  IInv'
<1>1. /\ Running /\ pipe = <<>> /\ ~ Alive /\ UNCHANGED <<worker, pipe, decisions>>
      /\ driver' = End(driver, IF driver.life.state # "finished" THEN "worker_protocol_error"
                               ELSE Classified(driver, worker.exit))
  BY DEF Eof, workerVars
<1>2. PICK v \in Views, u \in Views : Sees(driver, v) /\ Leads(driver.scan, v,
          pipe, u) /\ Reflects(worker, u)
  BY <1>1 DEF IInv, StreamInv, Heard
<1>3. v = u BY <1>1, <1>2, LeadsEmpty
<1>4. /\ Steady(driver) /\ driver \in Drivers /\ Sound(worker) /\ worker \in Workers
      /\ (driver.scan <=> worker.kind = "scan") /\ worker.exit # "terminated"
  BY <1>1 DEF IInv, DriverInv, Steady, Sound
<1> DEFINE r == driver'.result
<1>5. /\ driver'.pc = "ended" /\ driver'.scan = driver.scan
      /\ r = IF driver.life.state # "finished" THEN "worker_protocol_error" ELSE Classified(driver, worker.exit)
  BY <1>1, <1>4 DEF End, Drivers
<1>6. r \in Results BY <1>5 DEF Classified, Results, Reasons
<1>7. Steady(driver')
  <2>1. driver' \in Drivers BY <1>1, <1>4, <1>5, <1>6 DEF End, Drivers
  <2>2. r # "none" BY <1>6 DEF Results, Reasons
  <2> HIDE DEF r
  <2>3. /\ driver'.stops = driver.stops /\ driver'.disposition = driver.disposition
        /\ driver'.total = driver.total /\ driver'.errored = driver.errored
    BY <1>1, <1>4 DEF End, Drivers
  <2> QED BY <1>4, <1>5, <2>1, <2>2, <2>3 DEF Steady, ShouldBail, r
<1>8. DriverInv' BY <1>1, <1>4, <1>5, <1>7 DEF DriverInv, Running, Alive
<1>9. StreamInv' BY <1>5 DEF StreamInv, Running
<1>10. worker.exit \in {"success", "failure", "killed"} BY <1>1, <1>4, Fields DEF Alive, Exits
<1>11. driver.life = u.life /\ driver.finish = u.finish /\ driver.total = u.total
       /\ driver.errored = u.errored /\ (driver.cancelled <=> u.cancelled)
                 /\ (driver.paused <=> u.paused)
       /\ (u.marked => driver.disposition # "none")
  BY <1>2, <1>3 DEF Sees
<1>12. StreamAccepted'
  <2>1. SUFFICES ASSUME r = "worker_protocol_error"
                 PROVE  worker.exit = "killed" \/ (driver.scan /\ worker.exit = "failure")
    BY <1>1, <1>5 DEF StreamAccepted
  <2>2. driver.life.state # "finished" BY <1>5, <2>1 DEF Classified
  <2>3. worker.pc # "done" BY <1>2, <1>11, <2>2 DEF Reflects
  <2> QED BY <1>4, <1>10, <2>3 DEF Sound, Ended
<1>13. OutcomeTruthful'
  <2>1. ASSUME r = "completed"
        PROVE  /\ worker.ok /\ worker.exit = "success" /\ worker.stop = "none"
                  /\ worker.journal = {}
               /\ worker.planned > 0 => worker.live \cup worker.skipped = Tracks
               /\ 2 * Cardinality(worker.skipped) <= Cardinality(Tracks)
    <3>1. driver.disposition = "none" /\ driver.finish = "ok" /\ worker.exit = "success"
      BY <1>5, <2>1 DEF Classified
    <3>2. worker.pc = "done" /\ worker.ok BY <1>4, <3>1, Fields DEF Sound, Ended
    <3>3. worker.stop = "none" BY <1>2, <1>11, <3>1, <3>2 DEF Reflects
    <3>4. worker.journal = {} BY <1>4, <3>2 DEF Sound, Landed
    <3>5. worker.planned > 0 => worker.live \cup worker.skipped = Tracks
      BY <1>4, <3>2, <3>3, <3>4, Fields DEF Sound, Covered, Handled
    <3>6. ~ ShouldBail(driver) BY <1>4, <3>1 DEF Steady
    <3>7. Cardinality(worker.skipped) <= driver.errored
          /\ (worker.skipped # {} => driver.total = Cardinality(Tracks))
      BY <1>2, <1>11 DEF Reflects
    <3>8. 2 * Cardinality(worker.skipped) <= Cardinality(Tracks) BY <1>4, <3>6, <3>7, NotTooMany
    <3> QED BY <3>1, <3>2, <3>3, <3>4, <3>5, <3>8
  <2>2. ASSUME r \in {"cancelled", "paused"}
        PROVE  /\ Outcome(worker.stop) = r
               /\ worker.ok /\ worker.exit = "success" /\ worker.journal = {}
    <3>1. \/ r = "cancelled" /\ u.cancelled
          \/ r = "paused" /\ u.paused
      BY <1>5, <1>11, <2>2 DEF Classified
    <3>2. worker.exit = "success" /\ Outcome(worker.stop) = r
      BY <1>2, <3>1 DEF Reflects, Outcome
    <3>3. worker.pc = "done" /\ worker.ok BY <1>4, <3>2, Fields DEF Sound, Ended
    <3>4. worker.journal = {} BY <1>4, <3>3 DEF Sound, Landed
    <3> QED BY <3>2, <3>3, <3>4
  <2> QED BY <2>1, <2>2, <1>1, <1>5 DEF OutcomeTruthful
<1>14. Sound(worker') /\ (decisions \in Seq(Stops \cup Answers))' BY <1>1 DEF IInv
<1> QED BY <1>8, <1>9, <1>12, <1>13, <1>14 DEF IInv

-----------------------------------------------------------------------------
(* A new worker has done nothing and its driver has heard nothing.         *)
LEMMA InitInv == Init => IInv
<1> SUFFICES ASSUME Init PROVE IInv
  OBVIOUS
<1>1. PICK kind \in Kinds, trouble \in Trouble : worker = NewWorker(kind, trouble)
  BY DEF Init, WorkerInit
<1>2. pipe = <<>> /\ decisions = <<>> /\ driver = NewDriver(worker.kind) BY DEF Init, WorkerInit
<1>3. trouble.prompts \in Nat /\ trouble.faults \in Nat BY WorkerAssumption
<1>4. worker \in Workers BY <1>1, <1>3 DEF NewWorker, Workers, Pcs, Exits
<1>5. Sound(worker)
  <2>1. Permitted(worker)
    <3>1. {} \ {} = {} OBVIOUS
    <3> QED BY <1>1, <3>1, FS_EmptySet, WorkerAssumption DEF Permitted, NewWorker
  <2>2. Placed(worker) /\ Ended(worker) /\ Covered(worker)
    BY <1>1, TrackShape DEF NewWorker, Placed, Ended, Covered, Early, Inside, Acting, Kinds
  <2>3. Landed(worker) BY <1>1 DEF NewWorker, Landed
  <2> QED BY <1>4, <2>1, <2>2, <2>3 DEF Sound
<1> DEFINE l == Life("hello", "none", FALSE)
<1>6. l \in Lives BY DEF Lives, Life
<1>7. driver \in Drivers /\ driver.pc = "running" /\ driver.disposition = "none" /\ driver.stops = 0
      /\ driver.total = 0 /\ driver.errored = 0 /\ ~ driver.cancelled /\ ~ driver.paused
      /\ driver.finish = "none" /\ driver.result = "none" /\ driver.life = l
      /\ (driver.scan <=> (worker.kind = "scan"))
  BY <1>2, <1>6 DEF NewDriver, Drivers
<1>8. Steady(driver) BY <1>7 DEF Steady, ShouldBail
<1>9. DriverInv BY <1>1, <1>7, <1>8 DEF DriverInv, Running, NewWorker
<1> DEFINE v == [life |-> l, total |-> 0, errored |-> 0, cancelled |-> FALSE, paused |-> FALSE,
                 finish |-> "none", marked |-> FALSE]
<1>10. v \in Views BY <1>6 DEF Views
<1>11. Sees(driver, v) BY <1>7, <1>10 DEF Sees
<1>12. Leads(driver.scan, v, pipe, v) BY <1>2, <1>10, LeadsEmpty
<1>13. Reflects(worker, v)
  <2>1. worker.skipped = {} /\ worker.pc = "hello" BY <1>1 DEF NewWorker
  <2>2. Cardinality(worker.skipped) = 0 BY <2>1, FS_EmptySet
  <2> QED BY <2>1, <2>2 DEF Reflects, Reading, Scanning, Early, Working, Inside, Acting, Life
<1> HIDE DEF v
<1>14. StreamInv BY <1>10, <1>11, <1>12, <1>13 DEF StreamInv, Heard
<1>15. decisions \in Seq(Stops \cup Answers) BY <1>2
<1>16. OutcomeTruthful /\ StreamAccepted BY <1>7 DEF OutcomeTruthful, StreamAccepted
<1> QED BY <1>5, <1>9, <1>14, <1>15, <1>16 DEF IInv

(* Every step of the daemon or its worker keeps the invariant.             *)
LEMMA NextInv == IInv /\ [Next]_vars => IInv'
<1> SUFFICES ASSUME IInv, [Next]_vars PROVE IInv'
  OBVIOUS
<1>1. CASE UNCHANGED vars
  BY <1>1
     DEF vars, workerVars, IInv, DriverInv, StreamInv, Heard, Running, Alive, OutcomeTruthful,
        StreamAccepted
<1>2. CASE Drive
  BY <1>2, ReceiveStep, ExpireStep, EofStep, ControlStep, QuietStep DEF Drive
<1>3. CASE WorkerNext /\ UNCHANGED driver BY <1>3, WorkerStep
<1> QED BY <1>1, <1>2, <1>3 DEF Next

(* What the daemon knows of its worker is what the worker did: the         *)
(* inductive invariant, for every plan, window, number of threads, pipe    *)
(* and mix of faults and prompts.                                          *)
THEOREM SessionInvariant == Spec => []IInv
<1>1. Init => IInv BY InitInv
<1>2. IInv /\ [Next]_vars => IInv' BY NextInv
<1> QED BY <1>1, <1>2, PTL DEF Spec

(* Every variable has its type, the window bounds what is transcoded ahead *)
(* of the committer, and one stop command at most is written.              *)
THEOREM TypesHold == Spec => []TypeOK
<1>1. IInv => TypeOK
  <2> SUFFICES ASSUME IInv PROVE TypeOK
    OBVIOUS
  <2>1. worker \in Workers /\ Permitted(worker) BY DEF IInv, Sound
  <2>2. Steady(driver) /\ driver \in Drivers BY DEF IInv, DriverInv, Steady
  <2>3. worker.kind \in Kinds
            /\ worker.exit \in {"none", "success", "failure", "killed", "terminated"}
        /\ worker.stop \in Stops \cup {"none"} /\ worker.ok \in BOOLEAN
        /\ worker.journal \cup worker.files \cup worker.live \cup worker.skipped \subseteq Tracks
    BY <2>1, Fields DEF Exits
  <2>4. worker.running \cup worker.ready \cup worker.taken \subseteq worker.fed
        /\ Cardinality(worker.fed \ worker.taken) <= Window
    BY <2>1 DEF Permitted
  <2>5. driver.disposition \in Stops \cup {"none", "bail"} /\ driver.stops <= 1
        /\ driver.result \in Results \cup {"none"} /\ (driver.result = "none" <=> Running)
    BY <2>2 DEF Steady, Drivers, Running
  <2>6. decisions \in Seq(Stops \cup Answers) BY DEF IInv
  <2> QED BY <2>3, <2>4, <2>5, <2>6 DEF TypeOK
<1> QED BY <1>1, SessionInvariant, PTL

(* What the daemon records of a session is true: completed did all of it,  *)
(* and cancelled and paused are said of a drained worker only.             *)
THEOREM OutcomeSafe == Spec => []OutcomeTruthful
<1>1. IInv => OutcomeTruthful BY DEF IInv
<1> QED BY <1>1, SessionInvariant, PTL

(* What is published has landed, whatever is stopped or fails.             *)
THEOREM PublishedSafe == Spec => []PublishedLanded
<1>1. IInv => PublishedLanded BY DEF IInv, Sound, Landed, PublishedLanded
<1> QED BY <1>1, SessionInvariant, PTL

(* The decoder accepts everything a living worker writes.                  *)
THEOREM StreamSafe == Spec => []StreamAccepted
<1>1. IInv => StreamAccepted BY DEF IInv
<1> QED BY <1>1, SessionInvariant, PTL
=============================================================================
