--------------------------- MODULE RuntimeProofs ---------------------------
(***************************************************************************)
(* The safety properties of the daemon's loop for any devices, requests,   *)
(* locations and budgets.  First the transformers of the loop's record:    *)
(* each one keeps Coherent, and what waits when it begins is answered or   *)
(* still waits when it ends.  Then one lemma per arm of the select loop:   *)
(* it keeps IInv, answers what leaves the queue, and is a step of the      *)
(* session ledger or none (Kept).  The theorems follow.                    *)
(***************************************************************************)
EXTENDS RuntimeInvariant, TLAPS, FiniteSetTheorems

(***************************************************************************)
(* Sequences as sets                                                       *)
(***************************************************************************)
(* The members of a sequence of requests. *)
LEMMA RangeOfRequests ==
  ASSUME NEW s \in Seq(Requests)
  PROVE  Range(s) \subseteq Requests
BY DEF Range

(* Appending adds one member. *)
LEMMA RangeOfAppend ==
  ASSUME NEW S, NEW s \in Seq(S), NEW x \in S
  PROVE  Range(Append(s, x)) = Range(s) \cup {x}
<1>1. ASSUME NEW y \in Range(Append(s, x)) PROVE y \in Range(s) \cup {x}
  <2>1. PICK i \in 1..Len(s) + 1 : y = Append(s, x)[i] BY <1>1 DEF Range
  <2>2. CASE i = Len(s) + 1 BY <2>1, <2>2
  <2>3. CASE i # Len(s) + 1
    <3>1. i \in 1..Len(s) BY <2>1, <2>3
    <3>2. y = s[i] BY <2>1, <3>1
    <3> QED BY <3>1, <3>2 DEF Range
  <2> QED BY <2>2, <2>3
<1>2. ASSUME NEW y \in Range(s) PROVE y \in Range(Append(s, x))
  <2>1. PICK i \in 1..Len(s) : y = s[i] BY <1>2 DEF Range
  <2>2. i \in DOMAIN Append(s, x) /\ Append(s, x)[i] = y BY <2>1
  <2> QED BY <2>2 DEF Range
<1>3. x \in Range(Append(s, x))
  <2>1. Len(s) + 1 \in DOMAIN Append(s, x) /\ Append(s, x)[Len(s) + 1] = x OBVIOUS
  <2> QED BY <2>1 DEF Range
<1> QED BY <1>1, <1>2, <1>3

(* The empty sequence has none. *)
LEMMA RangeOfEmpty == Range(<<>>) = {}
BY DEF Range

(***************************************************************************)
(* Transformers                                                            *)
(***************************************************************************)
(* An answer to requests nobody else waits with leaves the loop coherent   *)
(* and touches only the answers.                                           *)
LEMMA AnswerCoherent ==
  ASSUME NEW l, NEW from, NEW unasked, NEW requests \in SUBSET Requests, NEW kind \in Replies,
         Coherent(l, from, unasked),
         \A r \in requests : Fresh(l, r) /\ r \notin unasked
  PROVE  /\ Coherent(Answer(l, requests, kind), from, unasked)
         /\ OnlyAnswers(l, Answer(l, requests, kind))
         /\ \A r \in requests : Answered(Answer(l, requests, kind), r)
<1> DEFINE m == Answer(l, requests, kind)
<1>1. l \in Loops BY DEF Coherent
<1>2. m \in Loops
  <2>1. [r \in Requests |-> IF r \in requests THEN Append(l.answers[r], kind) ELSE l.answers[r]]
          \in [Requests -> Seq(Replies)]
    <3>1. l.answers \in [Requests -> Seq(Replies)] BY <1>1 DEF Loops
    <3>2. ASSUME NEW r \in Requests PROVE Append(l.answers[r], kind) \in Seq(Replies)
      <4>1. l.answers[r] \in Seq(Replies) BY <3>1
      <4> QED BY <4>1
    <3> QED BY <3>1, <3>2
  <2> QED BY <1>1, <2>1 DEF Answer, Loops
<1>3. /\ m.recovery = l.recovery /\ m.session = l.session /\ m.lastId = l.lastId
      /\ m.unscanned = l.unscanned /\ m.workers = l.workers /\ m.attempts = l.attempts
      /\ m.controls = l.controls
  BY <1>1 DEF Answer, Loops
<1>4. \A r \in Requests :
        m.answers[r] = IF r \in requests THEN Append(l.answers[r], kind) ELSE l.answers[r]
  BY <1>1 DEF Answer, Loops
<1>5. ASSUME NEW r \in Requests, r \in requests
      PROVE  Answered(m, r) /\ Len(m.answers[r]) = 1
  <2>1. l.answers[r] = <<>> BY <1>5 DEF Fresh, Answered
  <2>2. m.answers[r] = Append(<<>>, kind) BY <1>4, <1>5, <2>1
  <2> QED BY <2>2 DEF Answered
<1>6. Admission(m) /\ Attempting(m, from)
  BY <1>3 DEF Coherent, Admission, Attempting
<1>7. Answering(m, unasked)
  <2>1. \A r \in Requests : Waits(m, r) <=> Waits(l, r) BY <1>3 DEF Waits, Queues
  <2>2. \A r \in Requests : Queues(m, r) <=> Queues(l, r) BY <1>3 DEF Queues
  <2> SUFFICES ASSUME NEW r \in Requests
               PROVE  /\ Len(m.answers[r]) <= 1
                      /\ Waits(m, r) => ~ Answered(m, r)
                      /\ r \in unasked => Fresh(m, r)
                      /\ ~ (m.recovery.sync.req = r /\ m.recovery.deferred.req = r)
                      /\ ~ (Queues(m, r) /\ r \in Range(m.recovery.retries))
    BY DEF Answering
  <2>3. /\ Len(l.answers[r]) <= 1
        /\ Waits(l, r) => ~ Answered(l, r)
        /\ r \in unasked => Fresh(l, r)
        /\ ~ (l.recovery.sync.req = r /\ l.recovery.deferred.req = r)
        /\ ~ (Queues(l, r) /\ r \in Range(l.recovery.retries))
    BY DEF Coherent, Answering
  <2>4. CASE r \in requests
    <3>1. Fresh(l, r) /\ r \notin unasked BY <2>4
    <3>2. Len(m.answers[r]) = 1 BY <1>5, <2>4
    <3>3. Len(m.answers[r]) <= 1 BY <3>2
    <3> QED BY <1>3, <2>1, <2>2, <2>3, <3>1, <3>3 DEF Fresh
  <2>5. CASE r \notin requests
    <3>1. m.answers[r] = l.answers[r] BY <1>4, <2>5
    <3> QED BY <1>3, <2>1, <2>2, <2>3, <3>1 DEF Fresh, Answered
  <2> QED BY <2>4, <2>5
<1>8. OnlyAnswers(l, m)
  BY <1>3, <1>4, <1>5 DEF OnlyAnswers, Remembers, Answered
<1> QED BY <1>2, <1>5, <1>6, <1>7, <1>8 DEF Coherent

(* A published state answers every retry that waits. *)
LEMMA PublishCoherent ==
  ASSUME NEW l, NEW from, NEW unasked, NEW state \in States, NEW root \in Nat,
         Coherent(l, from, unasked),
         state = "available" => l.recovery.attempt = 0 /\ (from # 0 => root = from)
  PROVE  /\ Coherent(Publish(l, state, root), from, unasked)
         /\ SameWork(l, Publish(l, state, root))
         /\ Publish(l, state, root).recovery.retries = <<>>
         /\ Publish(l, state, root).recovery.state = state
         /\ Publish(l, state, root).recovery.attempt = l.recovery.attempt
<1> DEFINE m == [l EXCEPT !.recovery.escalate = FALSE, !.recovery.state = state,
                          !.recovery.root = root, !.recovery.retries = <<>>]
           p == Publish(l, state, root)
<1>1. l \in Loops /\ l.recovery \in Recoveries BY DEF Coherent, Loops
<1>2. m \in Loops
  <2>1. /\ Range(l.recovery.retries) = Range(l.recovery.retries)
        /\ <<>> \in Seq(Requests)
    OBVIOUS
  <2>2. [l.recovery EXCEPT !.escalate = FALSE, !.state = state, !.root = root, !.retries = <<>>]
          \in Recoveries
    BY <1>1, <2>1 DEF Recoveries
  <2>3. m = [l EXCEPT !.recovery = [l.recovery EXCEPT !.escalate = FALSE, !.state = state,
                                                     !.root = root, !.retries = <<>>]]
    BY <1>1 DEF Loops, Recoveries
  <2> QED BY <1>1, <2>2, <2>3 DEF Loops
<1>3. /\ m.session = l.session /\ m.lastId = l.lastId /\ m.unscanned = l.unscanned
      /\ m.workers = l.workers /\ m.attempts = l.attempts /\ m.answers = l.answers
  BY <1>1 DEF Loops
<1>4. /\ m.recovery.scan = l.recovery.scan /\ m.recovery.sync = l.recovery.sync
      /\ m.recovery.deferred = l.recovery.deferred /\ m.recovery.attempt = l.recovery.attempt
      /\ m.recovery.next = l.recovery.next /\ m.recovery.state = state
      /\ m.recovery.root = root /\ m.recovery.retries = <<>>
  BY <1>1 DEF Loops, Recoveries
<1> HIDE DEF m
<1>5. Coherent(m, from, unasked)
  <2>1. Admission(m) BY <1>3 DEF Coherent, Admission
  <2>2. Attempting(m, from) BY <1>3, <1>4 DEF Coherent, Attempting
  <2>3. Answering(m, unasked)
    BY <1>3, <1>4, RangeOfEmpty DEF Coherent, Answering, Waits, Queues, Fresh, Answered
  <2> QED BY <1>2, <2>1, <2>2, <2>3 DEF Coherent
<1>6. Range(l.recovery.retries) \in SUBSET Requests
  BY <1>1, RangeOfRequests DEF Recoveries
<1>7. \A r \in Range(l.recovery.retries) : Fresh(m, r) /\ r \notin unasked
  BY <1>3, <1>4, <1>6, RangeOfEmpty DEF Coherent, Answering, Waits, Queues, Fresh, Answered
<1>8. p = Answer(m, Range(l.recovery.retries), "acknowledged") BY DEF Publish, m
<1> HIDE DEF p
<1>9. Coherent(p, from, unasked) /\ OnlyAnswers(m, p)
  <2>1. "acknowledged" \in Replies BY DEF Replies
  <2> QED BY <1>5, <1>6, <1>7, <1>8, <2>1, AnswerCoherent
<1>10. /\ SameWork(l, p) /\ p.recovery.retries = <<>> /\ p.recovery.state = state
       /\ p.recovery.attempt = l.recovery.attempt
  BY <1>3, <1>4, <1>9 DEF OnlyAnswers, SameWork, Remembers, Answered
<1> QED BY <1>9, <1>10 DEF p

(* A started mount attempt has a number of its own and the location that   *)
(* is configured.                                                          *)
LEMMA StartAttemptCoherent ==
  ASSUME NEW l, NEW unasked, NEW ui \in BOOLEAN, source \in Nat,
         Coherent(l, source, unasked)
  PROVE  /\ Coherent(StartAttempt(l, ui), source, unasked)
         /\ SameWork(l, StartAttempt(l, ui))
         /\ StartAttempt(l, ui).recovery.attempt # 0
         /\ StartAttempt(l, ui).recovery.state = "remounting"
<1> DEFINE n == l.recovery.next
           m == StartAttempt(l, ui)
           rec == [l.recovery EXCEPT !.attempt = n, !.next = n + 1, !.ui = ui,
                                     !.state = "remounting", !.root = 0]
           tries == l.attempts \cup {[id |-> n, root |-> source]}
<1>1. l \in Loops /\ l.recovery \in Recoveries /\ n \in Nat
  BY DEF Coherent, Loops, Recoveries
<1>2. rec \in Recoveries
  <2>1. "remounting" \in States /\ n + 1 \in Nat BY <1>1 DEF States
  <2> QED BY <1>1, <2>1 DEF Recoveries
<1>3. tries \in SUBSET Attempts BY <1>1 DEF Loops, Attempts
<1>4. m = [l EXCEPT !.recovery = rec, !.attempts = tries]
  BY <1>1 DEF StartAttempt, Loops, Recoveries
<1>5. /\ rec.attempt = n /\ rec.next = n + 1 /\ rec.state = "remounting"
      /\ rec.scan = l.recovery.scan /\ rec.sync = l.recovery.sync
      /\ rec.deferred = l.recovery.deferred /\ rec.retries = l.recovery.retries
  BY <1>1 DEF Recoveries
<1> HIDE DEF m, rec
<1>6. /\ m \in Loops /\ m.recovery = rec /\ m.attempts = tries
      /\ m.session = l.session /\ m.lastId = l.lastId /\ m.unscanned = l.unscanned
      /\ m.workers = l.workers /\ m.answers = l.answers
  BY <1>1, <1>2, <1>3, <1>4 DEF Loops
<1>7. n # 0
  BY <1>1 DEF Coherent, Attempting, Recoveries
<1>8. Admission(m) BY <1>6 DEF Coherent, Admission
<1>9. Attempting(m, source)
  <2>1. \A a \in m.attempts : a.id # 0 /\ a.id < m.recovery.next
    <3> SUFFICES ASSUME NEW a \in tries PROVE a.id # 0 /\ a.id < n + 1
      BY <1>5, <1>6
    <3>1. CASE a \in l.attempts
      <4>1. a.id \in Nat BY <1>1, <3>1 DEF Loops, Attempts
      <4>2. a.id # 0 /\ a.id < n BY <3>1 DEF Coherent, Attempting
      <4> QED BY <1>1, <4>1, <4>2
    <3>2. CASE a = [id |-> n, root |-> source] BY <1>1, <1>7, <3>2
    <3> QED BY <3>1, <3>2
  <2>2. \A a \in m.attempts : a.id = m.recovery.attempt => a.root = source
    <3> SUFFICES ASSUME NEW a \in tries, a.id = n PROVE a.root = source
      BY <1>5, <1>6
    <3>1. CASE a \in l.attempts
      <4>1. a.id \in Nat BY <1>1, <3>1 DEF Loops, Attempts
      <4>2. a.id < n BY <3>1 DEF Coherent, Attempting
      <4> QED BY <1>1, <4>1, <4>2
    <3> QED BY <3>1
  <2>3. m.recovery.attempt < m.recovery.next BY <1>1, <1>5, <1>6
  <2> QED BY <1>5, <1>6, <2>1, <2>2, <2>3 DEF Coherent, Attempting
<1>10. Answering(m, unasked)
  BY <1>5, <1>6 DEF Coherent, Answering, Waits, Queues, Fresh, Answered
<1>11. SameWork(l, m) /\ m.recovery.attempt # 0 /\ m.recovery.state = "remounting"
  BY <1>5, <1>6, <1>7 DEF SameWork, Remembers, Answered
<1> QED BY <1>6, <1>8, <1>9, <1>10, <1>11 DEF Coherent, m

(* The source is not taken for available while a request for it is being   *)
(* resolved; without a location a queued sync and a scan are given up.     *)
LEMMA ResolveCoherent ==
  ASSUME NEW l, NEW unasked, NEW ui \in BOOLEAN, source \in Nat,
         Coherent(l, source, unasked),
         l.recovery.deferred # NoSync => l.session.kind = "scan"
  PROVE  /\ Coherent(Resolve(l, ui), source, unasked)
         /\ Steady(Resolve(l, ui))
         /\ Resolve(l, ui).recovery.state # "available"
         /\ source # 0 => SameWork(l, Resolve(l, ui))
         /\ Resolve(l, ui).session = l.session
         /\ Resolve(l, ui).lastId = l.lastId
         /\ Remembers(l, Resolve(l, ui))
<1> DEFINE R == Resolve(l, ui)
<1>1. CASE source = 0
  <2> DEFINE rec == [l.recovery EXCEPT !.scan = FALSE, !.sync = NoSync]
             m == [l EXCEPT !.recovery = rec]
  <2>1. l \in Loops /\ l.recovery \in Recoveries BY DEF Coherent, Loops
  <2>2. NoSync \in Syncs BY DEF NoSync, Syncs
  <2>3. rec \in Recoveries BY <2>1, <2>2 DEF Recoveries
  <2>4. [l EXCEPT !.recovery.scan = FALSE, !.recovery.sync = NoSync] = m
    BY <2>1 DEF Loops, Recoveries
  <2>5. R = Publish(m, "unavailable", 0) BY <1>1, <2>4 DEF Resolve
  <2>6. /\ rec.sync = NoSync /\ rec.deferred = l.recovery.deferred
        /\ rec.attempt = l.recovery.attempt /\ rec.next = l.recovery.next
        /\ rec.state = l.recovery.state /\ rec.root = l.recovery.root
        /\ rec.retries = l.recovery.retries
    BY <2>1 DEF Recoveries
  <2> HIDE DEF rec
  <2>7. /\ m \in Loops /\ m.recovery = rec /\ m.attempts = l.attempts
        /\ m.session = l.session /\ m.lastId = l.lastId
        /\ m.workers = l.workers /\ m.answers = l.answers
    BY <2>1, <2>3 DEF Loops
  <2> HIDE DEF m
  <2>8. Admission(m) BY <2>7 DEF Coherent, Admission
  <2>9. Attempting(m, source)
    BY <2>6, <2>7 DEF Coherent, Attempting, SyncNamed
  <2>10. \A r \in Requests : ~ (m.recovery.sync.req = r)
    BY <2>6, <2>7, RuntimeAssumption DEF NoSync
  <2>11. Answering(m, unasked)
    BY <2>6, <2>7, <2>10 DEF Coherent, Answering, Waits, Queues, Fresh, Answered
  <2>12. Coherent(m, source, unasked) BY <2>7, <2>8, <2>9, <2>11 DEF Coherent
  <2>13. "unavailable" \in States /\ "unavailable" # "available" /\ 0 \in Nat
    BY DEF States
  <2>14. /\ Coherent(R, source, unasked) /\ SameWork(m, R)
         /\ R.recovery.retries = <<>> /\ R.recovery.state = "unavailable"
    BY <2>5, <2>12, <2>13, PublishCoherent
  <2> HIDE DEF R
  <2>15. R.session = l.session /\ R.lastId = l.lastId /\ Remembers(l, R)
    BY <2>7, <2>14 DEF SameWork, Remembers, Answered
  <2>16. Steady(R)
    BY <2>6, <2>7, <2>14 DEF Steady, SameWork
  <2> QED BY <1>1, <2>14, <2>15, <2>16 DEF R
<1>2. CASE source # 0 /\ l.recovery.attempt # 0
  <2>1. R = l BY <1>2 DEF Resolve
  <2>2. l.recovery.state # "available" BY <1>2 DEF Coherent, Attempting
  <2> QED BY <1>2, <2>1, <2>2 DEF Steady, SameWork, Remembers
<1>3. CASE source # 0 /\ l.recovery.attempt = 0
  <2>1. R = StartAttempt(l, ui) BY <1>3 DEF Resolve
  <2>2. /\ Coherent(R, source, unasked) /\ SameWork(l, R)
        /\ R.recovery.attempt # 0 /\ R.recovery.state = "remounting"
    BY <2>1, StartAttemptCoherent
  <2> HIDE DEF R
  <2>3. Steady(R) BY <2>2 DEF Steady, SameWork
  <2> QED BY <2>2, <2>3 DEF SameWork, R
<1> QED BY <1>1, <1>2, <1>3

(* The request a command takes from its client is in nobody's hands yet.   *)
LEMMA TakeRequest ==
  ASSUME NEW l, NEW from, NEW unasked, NEW request \in Requests, request \in unasked,
         Coherent(l, from, unasked)
  PROVE  /\ Coherent(l, from, unasked \ {request})
         /\ Fresh(l, request) /\ request \notin unasked \ {request}
BY DEF Coherent, Answering

(* A queued scan keeps the change that was noticed.                        *)
LEMMA RequestScanAdvances ==
  ASSUME NEW l, NEW unasked, source \in Nat,
         Coherent(l, source, unasked),
         l.recovery.deferred # NoSync => l.session.kind = "scan"
  PROVE  /\ Coherent(RequestScan(l), source, unasked)
         /\ Steady(RequestScan(l))
         /\ Advances(l, RequestScan(l), source)
         /\ source # 0 => RequestScan(l).recovery.scan
<1> DEFINE rec == [l.recovery EXCEPT !.scan = TRUE]
           m == [l EXCEPT !.recovery = rec]
           R == RequestScan(l)
<1>1. l \in Loops /\ l.recovery \in Recoveries BY DEF Coherent, Loops
<1>2. rec \in Recoveries BY <1>1 DEF Recoveries
<1>3. [l EXCEPT !.recovery.scan = TRUE] = m BY <1>1 DEF Loops
<1>4. R = Resolve(m, FALSE) BY <1>3 DEF RequestScan
<1>5. /\ rec.scan = TRUE /\ rec.sync = l.recovery.sync /\ rec.deferred = l.recovery.deferred
      /\ rec.attempt = l.recovery.attempt /\ rec.next = l.recovery.next
      /\ rec.state = l.recovery.state /\ rec.root = l.recovery.root
      /\ rec.retries = l.recovery.retries
  BY <1>1 DEF Recoveries
<1> HIDE DEF rec
<1>6. /\ m \in Loops /\ m.recovery = rec /\ m.attempts = l.attempts
      /\ m.session = l.session /\ m.lastId = l.lastId /\ m.unscanned = l.unscanned
      /\ m.workers = l.workers /\ m.answers = l.answers
  BY <1>1, <1>2 DEF Loops
<1> HIDE DEF m
<1>7. Coherent(m, source, unasked)
  <2>1. Admission(m) BY <1>6 DEF Coherent, Admission
  <2>2. Attempting(m, source) BY <1>5, <1>6 DEF Coherent, Attempting
  <2>3. Answering(m, unasked)
    BY <1>5, <1>6 DEF Coherent, Answering, Waits, Queues, Fresh, Answered
  <2> QED BY <1>6, <2>1, <2>2, <2>3 DEF Coherent
<1>8. /\ Coherent(R, source, unasked) /\ Steady(R)
      /\ source # 0 => SameWork(m, R)
      /\ R.session = m.session /\ R.lastId = m.lastId /\ Remembers(m, R)
  BY <1>4, <1>5, <1>6, <1>7, ResolveCoherent
<1> HIDE DEF R
<1>9. source # 0 => R.recovery.scan BY <1>5, <1>6, <1>8 DEF SameWork
<1>10. Advances(l, R, source)
  <2>1. Remembers(l, R) BY <1>6, <1>8 DEF Remembers, Answered
  <2>2. source # 0 => \A r \in Requests : Queues(l, r) => Queues(R, r)
    BY <1>5, <1>6, <1>8 DEF SameWork, Queues
  <2>3. source # 0 => R.unscanned = l.unscanned BY <1>6, <1>8 DEF SameWork
  <2> QED BY <1>6, <1>8, <1>9, <2>1, <2>2, <2>3 DEF Advances
<1> QED BY <1>8, <1>9, <1>10 DEF R

(* The queue takes a sync nobody else waits with when it is empty.         *)
LEMMA QueueSyncCoherent ==
  ASSUME NEW l, NEW from, NEW unasked, NEW sync \in Syncs,
         Coherent(l, from, unasked),
         sync.dev \in Devices, l.recovery.deferred = NoSync,
         sync.req \in Requests => Fresh(l, sync.req) /\ sync.req \notin unasked
  PROVE  /\ Coherent(QueueSync(l, sync), from, unasked)
         /\ QueueSync(l, sync).recovery.deferred = NoSync
         /\ Advances(l, QueueSync(l, sync), from)
         /\ QueueSync(l, sync).session = l.session
         /\ QueueSync(l, sync).recovery.scan = l.recovery.scan
         /\ QueueSync(l, sync).unscanned = l.unscanned
<1>1. CASE l.recovery.sync # NoSync
  <2>1. QueueSync(l, sync) = l BY <1>1 DEF QueueSync
  <2> QED BY <2>1 DEF Advances, Remembers
<1>2. CASE l.recovery.sync = NoSync
  <2> DEFINE rec == [l.recovery EXCEPT !.sync = sync]
             m == [l EXCEPT !.recovery = rec]
  <2>1. l \in Loops /\ l.recovery \in Recoveries BY DEF Coherent, Loops
  <2>2. rec \in Recoveries BY <2>1 DEF Recoveries
  <2>3. QueueSync(l, sync) = m BY <1>2, <2>1 DEF QueueSync, Loops
  <2>4. /\ rec.sync = sync /\ rec.deferred = NoSync /\ rec.scan = l.recovery.scan
        /\ rec.attempt = l.recovery.attempt /\ rec.next = l.recovery.next
        /\ rec.state = l.recovery.state /\ rec.root = l.recovery.root
        /\ rec.retries = l.recovery.retries
    BY <2>1 DEF Recoveries
  <2> HIDE DEF rec
  <2>5. /\ m \in Loops /\ m.recovery = rec /\ m.attempts = l.attempts
        /\ m.session = l.session /\ m.lastId = l.lastId /\ m.unscanned = l.unscanned
        /\ m.workers = l.workers /\ m.answers = l.answers
    BY <2>1, <2>2 DEF Loops
  <2> HIDE DEF m
  <2>6. Admission(m) BY <2>5 DEF Coherent, Admission
  <2>7. Attempting(m, from)
    BY <2>4, <2>5 DEF Coherent, Attempting, SyncNamed
  <2>8. \A r \in Requests : ~ Queues(l, r)
    BY <1>2, RuntimeAssumption DEF Queues, NoSync
  <2>9. \A r \in Requests : r # NoSync.req BY RuntimeAssumption DEF NoSync
  <2>10. \A r \in Requests : (Queues(m, r) <=> r = sync.req) /\ ~ (m.recovery.deferred.req = r)
    BY <2>4, <2>5, <2>9 DEF Queues
  <2>11. Answering(m, unasked)
    <3> SUFFICES ASSUME NEW r \in Requests
                 PROVE  /\ Len(m.answers[r]) <= 1
                        /\ Waits(m, r) => ~ Answered(m, r)
                        /\ r \in unasked => Fresh(m, r)
                        /\ ~ (Queues(m, r) /\ r \in Range(m.recovery.retries))
      BY <2>10 DEF Answering
    <3>1. CASE r = sync.req
      BY <2>4, <2>5, <2>10, <3>1 DEF Coherent, Answering, Waits, Fresh, Answered
    <3>2. CASE r # sync.req
      BY <2>4, <2>5, <2>8, <2>10, <3>2 DEF Coherent, Answering, Waits, Fresh, Answered
    <3> QED BY <3>1, <3>2
  <2>12. Coherent(m, from, unasked) BY <2>5, <2>6, <2>7, <2>11 DEF Coherent
  <2>13. Advances(l, m, from) BY <2>4, <2>5, <2>8 DEF Advances, Remembers, Answered
  <2> QED BY <2>3, <2>4, <2>5, <2>12, <2>13
<1> QED BY <1>1, <1>2

(* A sync is queued only by a loop that defers none.                       *)
LEMMA RequestSyncAdvances ==
  ASSUME NEW l, NEW unasked, NEW sync \in Syncs, source \in Nat,
         Coherent(l, source, unasked),
         sync.dev \in Devices, l.recovery.deferred = NoSync,
         sync.req \in Requests => Fresh(l, sync.req) /\ sync.req \notin unasked
  PROVE  /\ Coherent(RequestSync(l, sync), source, unasked)
         /\ Steady(RequestSync(l, sync))
         /\ Advances(l, RequestSync(l, sync), source)
<1> DEFINE m == QueueSync(l, sync)
           R == RequestSync(l, sync)
<1>1. /\ Coherent(m, source, unasked) /\ m.recovery.deferred = NoSync
      /\ Advances(l, m, source) /\ m.session = l.session
      /\ m.recovery.scan = l.recovery.scan /\ m.unscanned = l.unscanned
  BY QueueSyncCoherent
<1>2. R = Resolve(m, FALSE) BY DEF RequestSync
<1> HIDE DEF m
<1>3. /\ Coherent(R, source, unasked) /\ Steady(R)
      /\ source # 0 => SameWork(m, R)
      /\ R.session = m.session /\ R.lastId = m.lastId /\ Remembers(m, R)
  BY <1>1, <1>2, ResolveCoherent
<1> HIDE DEF R
<1>4. m.lastId = l.lastId BY <1>1 DEF Advances, Launches, Idle
<1>5. source # 0 => \A r \in Requests : Queues(m, r) <=> Queues(R, r)
  BY <1>3 DEF SameWork, Queues
<1>6. Advances(l, R, source)
  BY <1>1, <1>3, <1>4, <1>5 DEF Advances, Remembers, SameWork
<1> QED BY <1>3, <1>6 DEF R

(* A retry is noted and waits for an attempt.                              *)
LEMMA RequestRetryAdvances ==
  ASSUME NEW l, NEW unasked, NEW request \in Requests, NEW ui \in BOOLEAN, source \in Nat,
         Coherent(l, source, unasked),
         l.recovery.deferred # NoSync => l.session.kind = "scan",
         Fresh(l, request), request \notin unasked
  PROVE  /\ Coherent(RequestRetry(l, request, ui), source, unasked)
         /\ Steady(RequestRetry(l, request, ui))
         /\ Advances(l, RequestRetry(l, request, ui), source)
<1> DEFINE more == Append(l.recovery.retries, request)
           esc == l.recovery.escalate \/ (ui /\ l.recovery.attempt # 0 /\ ~ l.recovery.ui)
           rec == [l.recovery EXCEPT !.retries = more, !.escalate = esc]
           m == [l EXCEPT !.recovery = rec]
           R == RequestRetry(l, request, ui)
<1>1. l \in Loops /\ l.recovery \in Recoveries BY DEF Coherent, Loops
<1>2. l.recovery.retries \in Seq(Requests) BY <1>1 DEF Recoveries
<1>3. more \in Seq(Requests) /\ Range(more) = Range(l.recovery.retries) \cup {request}
  BY <1>2, RangeOfAppend
<1>4. esc \in BOOLEAN OBVIOUS
<1>5. R = Resolve([l EXCEPT !.recovery.retries = more, !.recovery.escalate = esc], ui)
  BY <1>1 DEF RequestRetry, Loops, Recoveries
<1> HIDE DEF more, esc
<1>6. [l EXCEPT !.recovery.retries = more, !.recovery.escalate = esc] = m
  BY <1>1 DEF Loops, Recoveries
<1>7. rec \in Recoveries BY <1>1, <1>3, <1>4 DEF Recoveries
<1>8. /\ rec.sync = l.recovery.sync /\ rec.deferred = l.recovery.deferred
      /\ rec.attempt = l.recovery.attempt /\ rec.next = l.recovery.next
      /\ rec.state = l.recovery.state /\ rec.root = l.recovery.root
      /\ rec.retries = more /\ rec.scan = l.recovery.scan
  BY <1>1 DEF Recoveries
<1> HIDE DEF rec
<1>9. /\ m \in Loops /\ m.recovery = rec /\ m.attempts = l.attempts
      /\ m.session = l.session /\ m.lastId = l.lastId /\ m.unscanned = l.unscanned
      /\ m.workers = l.workers /\ m.answers = l.answers
  BY <1>1, <1>7 DEF Loops
<1> HIDE DEF m
<1>10. Coherent(m, source, unasked)
  <2>1. Admission(m) BY <1>9 DEF Coherent, Admission
  <2>2. Attempting(m, source) BY <1>8, <1>9 DEF Coherent, Attempting
  <2>3. Answering(m, unasked)
    BY <1>3, <1>8, <1>9 DEF Coherent, Answering, Waits, Queues, Fresh, Answered
  <2> QED BY <1>9, <2>1, <2>2, <2>3 DEF Coherent
<1> HIDE DEF R
<1>11. /\ Coherent(R, source, unasked) /\ Steady(R)
       /\ source # 0 => SameWork(m, R)
       /\ R.session = m.session /\ R.lastId = m.lastId /\ Remembers(m, R)
  <2>1. R = Resolve(m, ui) BY <1>5, <1>6
  <2>2. m.recovery.deferred # NoSync => m.session.kind = "scan" BY <1>8, <1>9
  <2> QED BY <1>10, <2>1, <2>2, ResolveCoherent
<1>12. Advances(l, R, source)
  <2>1. Remembers(l, R) BY <1>9, <1>11 DEF Remembers, Answered
  <2>2. source # 0 => \A r \in Requests : Queues(l, r) => Queues(R, r)
    BY <1>8, <1>9, <1>11 DEF SameWork, Queues
  <2>3. source # 0 => R.unscanned = l.unscanned /\ R.recovery.scan = l.recovery.scan
    BY <1>8, <1>9, <1>11 DEF SameWork
  <2> QED BY <1>9, <1>11, <2>1, <2>2, <2>3 DEF Advances
<1> QED BY <1>11, <1>12 DEF R

(* A launch takes the next identifier and starts its only worker.          *)
LEMMA LaunchCoherent ==
  ASSUME NEW l, NEW from, NEW unasked, NEW kind \in {"sync", "scan"},
         NEW dev \in Devices \cup {NoDevice}, NEW gen \in Nat,
         Coherent(l, from, unasked), Idle(l),
         kind = "sync" => dev \in Devices
  PROVE  /\ Coherent(Launch(l, kind, dev, gen), from, unasked)
         /\ Starts(l, Launch(l, kind, dev, gen))
         /\ Launches(l, Launch(l, kind, dev, gen))
         /\ Launch(l, kind, dev, gen).session.kind = kind
<1> DEFINE n == l.lastId + 1
           new == [id |-> n, kind |-> kind, dev |-> dev, gen |-> gen]
           m == Launch(l, kind, dev, gen)
<1>1. l \in Loops /\ l.lastId \in Nat BY DEF Coherent, Loops
<1>2. l.workers = {} BY DEF Coherent, Admission, Idle, NoSession
<1>3. new \in Sessions /\ n \in Nat /\ n # 0 BY <1>1 DEF Sessions
<1>4. new.kind = kind /\ new.id = n /\ new.dev = dev OBVIOUS
<1>5. new # NoSession BY <1>3, <1>4 DEF NoSession
<1> HIDE DEF new
<1>6. m = [l EXCEPT !.session = new, !.lastId = n, !.controls = Controls,
                    !.workers = @ \cup {n}]
  BY DEF Launch, new
<1> HIDE DEF m
<1>7. /\ m \in Loops /\ m.session = new /\ m.lastId = n /\ m.workers = {n}
      /\ m.recovery = l.recovery /\ m.attempts = l.attempts /\ m.answers = l.answers
      /\ m.unscanned = l.unscanned
  BY <1>1, <1>2, <1>3, <1>6 DEF Loops
<1>8. Admission(m) BY <1>3, <1>4, <1>7 DEF Admission
<1>9. Attempting(m, from) BY <1>7 DEF Coherent, Attempting
<1>10. Answering(m, unasked)
  BY <1>7 DEF Coherent, Answering, Waits, Queues, Fresh, Answered
<1>11. Launches(l, m) BY <1>4, <1>5, <1>7 DEF Launches, Idle
<1>12. Starts(l, m) BY <1>7, <1>11 DEF Starts, Remembers, Answered
<1> QED BY <1>4, <1>7, <1>8, <1>9, <1>10, <1>11, <1>12 DEF Coherent, m

(* A sync is answered whether it is admitted or not.                       *)
LEMMA StartSyncCoherent ==
  ASSUME NEW l, NEW from, NEW unasked, NEW sync \in Syncs, NEW reconciled \in BOOLEAN,
         Coherent(l, from, unasked), sync.dev \in Devices,
         sync.req \in Requests => Fresh(l, sync.req) /\ sync.req \notin unasked
  PROVE  /\ Coherent(StartSync(l, sync, reconciled), from, unasked)
         /\ Starts(l, StartSync(l, sync, reconciled))
         /\ sync.req \in Requests => Answered(StartSync(l, sync, reconciled), sync.req)
<1> DEFINE asked == {sync.req} \ {NoRequest}
           m == StartSync(l, sync, reconciled)
<1>1. asked \in SUBSET Requests BY DEF Syncs
<1>2. sync.req \in Requests => sync.req \in asked BY RuntimeAssumption
<1>3. \A r \in asked : Fresh(l, r) /\ r \notin unasked BY <1>1
<1>4. "rejected" \in Replies /\ "accepted" \in Replies BY DEF Replies
<1> DEFINE refused == Answer(l, asked, "rejected")
           admitted == Answer(l, asked, "accepted")
<1>5. m = IF hostPending # "none" \/ ~ reconciled \/ ~ Idle(l) THEN refused
          ELSE Launch(admitted, "sync", sync.dev, sync.gen)
  BY DEF StartSync
<1> HIDE DEF asked, m
<1>6. /\ Coherent(refused, from, unasked) /\ OnlyAnswers(l, refused)
      /\ \A r \in asked : Answered(refused, r)
  BY <1>1, <1>3, <1>4, AnswerCoherent
<1>7. /\ Coherent(admitted, from, unasked) /\ OnlyAnswers(l, admitted)
      /\ \A r \in asked : Answered(admitted, r)
  BY <1>1, <1>3, <1>4, AnswerCoherent
<1> HIDE DEF refused, admitted
<1>8. CASE hostPending # "none" \/ ~ reconciled \/ ~ Idle(l)
  <2>1. m = refused BY <1>5, <1>8
  <2> QED BY <1>2, <1>6, <2>1 DEF Starts, OnlyAnswers, m
<1>9. CASE hostPending = "none" /\ reconciled /\ Idle(l)
  <2>1. m = Launch(admitted, "sync", sync.dev, sync.gen) BY <1>5, <1>9
  <2>2. Idle(admitted) BY <1>7, <1>9 DEF Idle, OnlyAnswers
  <2>3. sync.gen \in Nat /\ sync.dev \in Devices \cup {NoDevice} BY DEF Syncs
  <2>4. Coherent(m, from, unasked) /\ Starts(admitted, m) /\ Launches(admitted, m)
    BY <1>7, <2>1, <2>2, <2>3, LaunchCoherent
  <2>5. Launches(l, m) BY <1>7, <2>4 DEF Launches, OnlyAnswers, Idle
  <2>6. Starts(l, m) BY <1>7, <2>4, <2>5 DEF Starts, OnlyAnswers, Remembers
  <2>7. sync.req \in Requests => Answered(m, sync.req)
    BY <1>2, <1>7, <2>4 DEF Starts, Remembers
  <2> QED BY <2>4, <2>6, <2>7 DEF m
<1> QED BY <1>8, <1>9

(* The available source starts a scan, behind which the sync is deferred,  *)
(* or the sync; afterwards nothing waits for it that could run.            *)
LEMMA StartAvailableAdvances ==
  ASSUME NEW l, NEW unasked, NEW reconciled \in BOOLEAN, source \in Nat,
         Coherent(l, source, unasked),
         l.recovery.deferred # NoSync => l.session.kind = "scan",
         l.recovery.attempt = 0 => l.recovery.retries = <<>>
  PROVE  /\ Coherent(StartAvailable(l, reconciled), source, unasked)
         /\ Steady(StartAvailable(l, reconciled))
         /\ Advances(l, StartAvailable(l, reconciled), source)
<1> DEFINE A == StartAvailable(l, reconciled)
<1>1. l \in Loops /\ l.recovery \in Recoveries BY DEF Coherent, Loops
<1>2. CASE ~ Idle(l)
  <2>1. A = l BY <1>2 DEF StartAvailable
  <2> QED BY <1>2, <2>1 DEF Steady, Advances, Remembers
<1>3. CASE Idle(l) /\ ~ l.recovery.scan /\ l.recovery.sync = NoSync
  <2>1. A = l BY <1>3 DEF StartAvailable
  <2> QED BY <1>3, <2>1 DEF Steady, Advances, Remembers
<1>4. CASE Idle(l) /\ l.recovery.scan
  <2>1. l.recovery.deferred = NoSync BY <1>4 DEF Idle, NoSession
  <2> DEFINE rec == [l.recovery EXCEPT !.scan = FALSE, !.sync = NoSync,
                                       !.deferred = l.recovery.sync]
             m == [l EXCEPT !.recovery = rec]
             s == Launch(m, "scan", NoDevice, 0)
  <2>2. NoSync \in Syncs /\ l.recovery.sync \in Syncs BY <1>1 DEF NoSync, Syncs, Recoveries
  <2>3. rec \in Recoveries BY <1>1, <2>2 DEF Recoveries
  <2>4. [l EXCEPT !.recovery.scan = FALSE, !.recovery.sync = NoSync,
                  !.recovery.deferred = l.recovery.sync] = m
    BY <1>1 DEF Loops, Recoveries
  <2>5. /\ rec.sync = NoSync /\ rec.deferred = l.recovery.sync
        /\ rec.attempt = l.recovery.attempt /\ rec.next = l.recovery.next
        /\ rec.state = l.recovery.state /\ rec.root = l.recovery.root
        /\ rec.retries = l.recovery.retries
    BY <1>1 DEF Recoveries
  <2> HIDE DEF rec
  <2>6. /\ m \in Loops /\ m.recovery = rec /\ m.attempts = l.attempts
        /\ m.session = l.session /\ m.lastId = l.lastId /\ m.unscanned = l.unscanned
        /\ m.workers = l.workers /\ m.answers = l.answers
    BY <1>1, <2>3 DEF Loops
  <2>7. Idle(m) BY <1>4, <2>6 DEF Idle
  <2>8. A = [s EXCEPT !.unscanned = FALSE]
    BY <1>4, <2>1, <2>4, <2>7 DEF StartAvailable, StartScan
  <2> HIDE DEF m
  <2>9. \A r \in Requests : r # NoSync.req BY RuntimeAssumption DEF NoSync
  <2>10. \A r \in Requests : Queues(m, r) <=> Queues(l, r)
    BY <2>1, <2>5, <2>6, <2>9 DEF Queues
  <2>11. Coherent(m, source, unasked)
    <3>1. Admission(m) BY <2>6 DEF Coherent, Admission
    <3>2. Attempting(m, source) BY <2>5, <2>6 DEF Coherent, Attempting, SyncNamed
    <3>3. Answering(m, unasked)
      BY <2>5, <2>6, <2>9, <2>10 DEF Coherent, Answering, Waits, Fresh, Answered
    <3> QED BY <2>6, <3>1, <3>2, <3>3 DEF Coherent
  <2>12. Coherent(s, source, unasked) /\ Starts(m, s) /\ Launches(m, s) /\ s.session.kind = "scan"
    <3>1. "scan" \in {"sync", "scan"} /\ NoDevice \in Devices \cup {NoDevice} /\ 0 \in Nat
          /\ "scan" # "sync"
      OBVIOUS
    <3> QED BY <2>7, <2>11, <3>1, LaunchCoherent
  <2> HIDE DEF s
  <2>13. s \in Loops BY <2>12 DEF Coherent
  <2> HIDE DEF A
  <2>14. /\ A \in Loops /\ A.recovery = s.recovery /\ A.attempts = s.attempts
         /\ A.session = s.session /\ A.lastId = s.lastId /\ A.unscanned = FALSE
         /\ A.workers = s.workers /\ A.answers = s.answers
    BY <2>8, <2>13 DEF Loops
  <2>15. Coherent(A, source, unasked)
    <3>1. Admission(A) BY <2>12, <2>14 DEF Coherent, Admission
    <3>2. Attempting(A, source) BY <2>12, <2>14 DEF Coherent, Attempting
    <3>3. Answering(A, unasked)
      BY <2>12, <2>14 DEF Coherent, Answering, Waits, Queues, Fresh, Answered
    <3> QED BY <2>14, <3>1, <3>2, <3>3 DEF Coherent
  <2>16. A.recovery = rec BY <2>6, <2>12, <2>14 DEF Starts
  <2>17. Steady(A)
    BY <2>5, <2>12, <2>14, <2>16 DEF Steady, Launches, Idle
  <2>18. Advances(l, A, source)
    <3>1. Launches(l, A) BY <1>4, <2>6, <2>12, <2>14 DEF Launches, Idle
    <3>2. Remembers(l, A) BY <2>6, <2>12, <2>14 DEF Remembers, Answered, Starts
    <3>3. \A r \in Requests : Queues(l, r) => Queues(A, r)
      BY <2>6, <2>10, <2>16 DEF Queues
    <3> QED BY <2>14, <3>1, <3>2, <3>3 DEF Advances
  <2> QED BY <2>15, <2>17, <2>18 DEF A
<1>5. CASE Idle(l) /\ ~ l.recovery.scan /\ l.recovery.sync # NoSync
  <2>1. l.recovery.deferred = NoSync BY <1>5 DEF Idle, NoSession
  <2> DEFINE sync == l.recovery.sync
             rec == [l.recovery EXCEPT !.sync = NoSync]
             m == [l EXCEPT !.recovery = rec]
  <2>2. NoSync \in Syncs /\ sync \in Syncs BY <1>1 DEF NoSync, Syncs, Recoveries
  <2>3. rec \in Recoveries BY <1>1, <2>2 DEF Recoveries
  <2>4. [l EXCEPT !.recovery.sync = NoSync] = m BY <1>1 DEF Loops, Recoveries
  <2>5. A = StartSync(m, sync, reconciled) BY <1>5, <2>4 DEF StartAvailable
  <2>6. /\ rec.sync = NoSync /\ rec.deferred = NoSync /\ ~ rec.scan
        /\ rec.attempt = l.recovery.attempt /\ rec.next = l.recovery.next
        /\ rec.state = l.recovery.state /\ rec.root = l.recovery.root
        /\ rec.retries = l.recovery.retries /\ rec.scan = l.recovery.scan
    BY <1>1, <1>5, <2>1 DEF Recoveries
  <2> HIDE DEF rec
  <2>7. /\ m \in Loops /\ m.recovery = rec /\ m.attempts = l.attempts
        /\ m.session = l.session /\ m.lastId = l.lastId /\ m.unscanned = l.unscanned
        /\ m.workers = l.workers /\ m.answers = l.answers
    BY <1>1, <2>3 DEF Loops
  <2> HIDE DEF m
  <2>8. \A r \in Requests : r # NoSync.req BY RuntimeAssumption DEF NoSync
  <2>9. \A r \in Requests : (Queues(l, r) <=> r = sync.req) /\ ~ Queues(m, r)
    BY <2>1, <2>6, <2>7, <2>8 DEF Queues
  <2>10. Coherent(m, source, unasked)
    <3>1. Admission(m) BY <2>7 DEF Coherent, Admission
    <3>2. Attempting(m, source) BY <2>6, <2>7 DEF Coherent, Attempting, SyncNamed
    <3>3. Answering(m, unasked)
      BY <2>6, <2>7, <2>8, <2>9 DEF Coherent, Answering, Waits, Fresh, Answered
    <3> QED BY <2>7, <3>1, <3>2, <3>3 DEF Coherent
  <2>11. sync.dev \in Devices BY <1>5 DEF Coherent, Attempting, SyncNamed
  <2>12. sync.req \in Requests => Fresh(m, sync.req) /\ sync.req \notin unasked
    BY <2>6, <2>7, <2>9 DEF Coherent, Answering, Waits, Queues, Fresh, Answered
  <2> HIDE DEF sync, A
  <2>13. /\ Coherent(A, source, unasked) /\ Starts(m, A)
         /\ sync.req \in Requests => Answered(A, sync.req)
    BY <2>2, <2>5, <2>10, <2>11, <2>12, StartSyncCoherent
  <2>14. Steady(A)
    BY <2>6, <2>7, <2>13 DEF Steady, Starts
  <2>15. Advances(l, A, source)
    <3>1. (A.session = l.session /\ A.lastId = l.lastId) \/ Launches(l, A)
      BY <2>7, <2>13 DEF Starts, Launches, Idle
    <3>2. Remembers(l, A) BY <2>7, <2>13 DEF Starts, Remembers, Answered
    <3>3. \A r \in Requests : Queues(l, r) => Answered(A, r) BY <2>9, <2>13
    <3>4. A.unscanned = l.unscanned /\ A.recovery.scan = l.recovery.scan
      BY <2>6, <2>7, <2>13 DEF Starts
    <3> QED BY <3>1, <3>2, <3>3, <3>4 DEF Advances
  <2> QED BY <2>13, <2>14, <2>15 DEF A
<1> QED BY <1>2, <1>3, <1>4, <1>5

(* What waits for the source starts only while it is available.            *)
LEMMA ContinueAdvances ==
  ASSUME NEW l, NEW unasked, NEW reconciled \in BOOLEAN, source \in Nat,
         Coherent(l, source, unasked),
         l.recovery.deferred # NoSync => l.session.kind = "scan",
         l.recovery.attempt = 0 => l.recovery.retries = <<>>
  PROVE  /\ Coherent(Continue(l, reconciled), source, unasked)
         /\ Steady(Continue(l, reconciled))
         /\ Advances(l, Continue(l, reconciled), source)
<1>1. CASE l.recovery.state = "available"
  <2>1. Continue(l, reconciled) = StartAvailable(l, reconciled) BY <1>1 DEF Continue
  <2> QED BY <2>1, StartAvailableAdvances
<1>2. CASE l.recovery.state # "available"
  <2>1. Continue(l, reconciled) = l BY <1>2 DEF Continue
  <2> QED BY <1>2, <2>1 DEF Steady, Advances, Remembers
<1> QED BY <1>1, <1>2

(* A report ends the session and frees its worker.                         *)
LEMMA FinishCoherent ==
  ASSUME NEW l, NEW from, NEW unasked,
         Coherent(l, from, unasked), ~ Idle(l)
  PROVE  /\ Coherent(Finish(l), from, unasked)
         /\ Idle(Finish(l))
         /\ Finish(l).lastId = l.lastId
         /\ Finish(l).recovery = l.recovery
         /\ Finish(l).unscanned = l.unscanned
         /\ Finish(l).answers = l.answers
<1> DEFINE m == Finish(l)
<1>1. l \in Loops BY DEF Coherent
<1>2. l.workers \ {l.session.id} = {} BY DEF Coherent, Admission, Idle
<1>3. NoSession \in Sessions BY DEF NoSession, Sessions
<1>4. /\ m \in Loops /\ m.session = NoSession /\ m.lastId = l.lastId /\ m.workers = {}
      /\ m.recovery = l.recovery /\ m.attempts = l.attempts /\ m.answers = l.answers
      /\ m.unscanned = l.unscanned
  BY <1>1, <1>2, <1>3 DEF Finish, Loops
<1> HIDE DEF m
<1>5. Admission(m) BY <1>4 DEF Admission
<1>6. Attempting(m, from) BY <1>4 DEF Coherent, Attempting
<1>7. Answering(m, unasked)
  BY <1>4 DEF Coherent, Answering, Waits, Queues, Fresh, Answered
<1>8. Idle(m) BY <1>4 DEF Idle
<1> QED BY <1>4, <1>5, <1>6, <1>7, <1>8 DEF Coherent, m

(* The deferred sync is queued again: it finds the queue empty.            *)
LEMMA ResumedCoherent ==
  ASSUME NEW l, NEW from, NEW unasked, Coherent(l, from, unasked)
  PROVE  /\ Coherent(Resumed(l), from, unasked)
         /\ Resumed(l).session = l.session
         /\ Resumed(l).lastId = l.lastId
         /\ Resumed(l).unscanned = l.unscanned
         /\ Resumed(l).recovery.scan = l.recovery.scan
         /\ Resumed(l).recovery.deferred = NoSync
         /\ Resumed(l).recovery.attempt = l.recovery.attempt
         /\ Resumed(l).recovery.retries = l.recovery.retries
         /\ Remembers(l, Resumed(l))
         /\ \A r \in Requests : Queues(l, r) <=> Queues(Resumed(l), r)
<1> DEFINE sync == IF l.recovery.sync = NoSync THEN l.recovery.deferred ELSE l.recovery.sync
           rec == [l.recovery EXCEPT !.sync = sync, !.deferred = NoSync]
           m == [l EXCEPT !.recovery = rec]
<1>1. l \in Loops /\ l.recovery \in Recoveries BY DEF Coherent, Loops
<1>2. NoSync \in Syncs /\ sync \in Syncs BY <1>1 DEF NoSync, Syncs, Recoveries
<1>3. l.recovery.deferred # NoSync => l.recovery.sync = NoSync
  BY DEF Coherent, Attempting
<1> HIDE DEF sync
<1>4. rec \in Recoveries BY <1>1, <1>2 DEF Recoveries
<1>5. Resumed(l) = m
  <2>1. CASE l.recovery.sync = NoSync
    BY <1>1, <2>1 DEF Resumed, QueueSync, Loops, Recoveries, sync
  <2>2. CASE l.recovery.sync # NoSync
    <3>1. Resumed(l) = [l EXCEPT !.recovery.deferred = NoSync] BY <2>2 DEF Resumed, QueueSync
    <3>2. rec = [l.recovery EXCEPT !.deferred = NoSync] BY <1>1, <2>2 DEF Recoveries, sync
    <3> QED BY <1>1, <3>1, <3>2 DEF Loops, Recoveries
  <2> QED BY <2>1, <2>2
<1>6. /\ rec.sync = sync /\ rec.deferred = NoSync /\ rec.scan = l.recovery.scan
      /\ rec.attempt = l.recovery.attempt /\ rec.next = l.recovery.next
      /\ rec.state = l.recovery.state /\ rec.root = l.recovery.root
      /\ rec.retries = l.recovery.retries
  BY <1>1 DEF Recoveries
<1> HIDE DEF rec
<1>7. /\ m \in Loops /\ m.recovery = rec /\ m.attempts = l.attempts
      /\ m.session = l.session /\ m.lastId = l.lastId /\ m.unscanned = l.unscanned
      /\ m.workers = l.workers /\ m.answers = l.answers
  BY <1>1, <1>4 DEF Loops
<1> HIDE DEF m
<1>8. \A r \in Requests : r # NoSync.req BY RuntimeAssumption DEF NoSync
<1>9. \A r \in Requests : Queues(m, r) <=> Queues(l, r)
  BY <1>3, <1>6, <1>7, <1>8 DEF Queues, sync
<1>10. Admission(m) BY <1>7 DEF Coherent, Admission
<1>11. Attempting(m, from)
  BY <1>6, <1>7 DEF Coherent, Attempting, SyncNamed, sync
<1>12. Answering(m, unasked)
  BY <1>6, <1>7, <1>8, <1>9 DEF Coherent, Answering, Waits, Fresh, Answered
<1>13. Remembers(l, m) BY <1>7 DEF Remembers, Answered
<1> QED BY <1>5, <1>6, <1>7, <1>9, <1>10, <1>11, <1>12, <1>13 DEF Coherent

(* After a change of the location the loop is coherent with the new one:   *)
(* the attempt that runs is no longer the current one.                     *)
LEMMA InvalidateCoherent ==
  ASSUME NEW l, NEW from, NEW to, NEW unasked, Coherent(l, from, unasked)
  PROVE  /\ Coherent(Invalidate(l), to, unasked)
         /\ Invalidate(l).recovery.retries = <<>>
         /\ Invalidate(l).recovery.state = "unavailable"
         /\ Invalidate(l).recovery.sync = l.recovery.sync
         /\ Invalidate(l).recovery.deferred = l.recovery.deferred
         /\ Invalidate(l).session = l.session
         /\ Invalidate(l).lastId = l.lastId
         /\ ~ Invalidate(l).unscanned
         /\ Remembers(l, Invalidate(l))
<1> DEFINE rec == [l.recovery EXCEPT !.attempt = 0, !.ui = FALSE]
           m == [l EXCEPT !.recovery = rec, !.unscanned = FALSE]
           I == Invalidate(l)
<1>1. l \in Loops /\ l.recovery \in Recoveries BY DEF Coherent, Loops
<1>2. rec \in Recoveries BY <1>1 DEF Recoveries
<1>3. [l EXCEPT !.recovery.attempt = 0, !.recovery.ui = FALSE, !.unscanned = FALSE] = m
  BY <1>1 DEF Loops, Recoveries
<1>4. I = Publish(m, "unavailable", 0) BY <1>3 DEF Invalidate
<1>5. /\ rec.sync = l.recovery.sync /\ rec.deferred = l.recovery.deferred
      /\ rec.attempt = 0 /\ rec.next = l.recovery.next
      /\ rec.state = l.recovery.state /\ rec.root = l.recovery.root
      /\ rec.retries = l.recovery.retries
  BY <1>1 DEF Recoveries
<1> HIDE DEF rec
<1>6. /\ m \in Loops /\ m.recovery = rec /\ m.attempts = l.attempts
      /\ m.session = l.session /\ m.lastId = l.lastId /\ m.unscanned = FALSE
      /\ m.workers = l.workers /\ m.answers = l.answers
  BY <1>1, <1>2 DEF Loops
<1> HIDE DEF m
<1>7. Coherent(m, from, unasked)
  <2>1. Admission(m) BY <1>6 DEF Coherent, Admission
  <2>2. l.recovery.next \in Nat /\ l.recovery.attempt \in Nat
    BY <1>1 DEF Recoveries
  <2>3. m.recovery.attempt < m.recovery.next
    BY <1>5, <1>6, <2>2 DEF Coherent, Attempting
  <2>4. Attempting(m, from) BY <1>5, <1>6, <2>3 DEF Coherent, Attempting
  <2>5. Answering(m, unasked)
    BY <1>5, <1>6 DEF Coherent, Answering, Waits, Queues, Fresh, Answered
  <2> QED BY <1>6, <2>1, <2>4, <2>5 DEF Coherent
<1>8. "unavailable" \in States /\ "unavailable" # "available" /\ 0 \in Nat BY DEF States
<1> HIDE DEF I
<1>9. /\ Coherent(I, from, unasked) /\ SameWork(m, I)
      /\ I.recovery.retries = <<>> /\ I.recovery.state = "unavailable"
      /\ I.recovery.attempt = m.recovery.attempt
  BY <1>4, <1>7, <1>8, PublishCoherent
<1>10. Coherent(I, to, unasked)
  <2>1. Attempting(I, to) BY <1>5, <1>6, <1>9 DEF Coherent, Attempting
  <2> QED BY <1>9, <2>1 DEF Coherent
<1>11. Remembers(l, I) BY <1>6, <1>9 DEF SameWork, Remembers, Answered
<1> QED BY <1>5, <1>6, <1>9, <1>10, <1>11 DEF SameWork, I

(***************************************************************************)
(* Steps                                                                   *)
(***************************************************************************)
(* The ledger moves only when a device session starts, while no entry is   *)
(* written: a scan takes an identifier, a sync one and the ledger's place. *)
LEMMA LaunchInLedger ==
  ASSUME IInv, phase = "running", phase' = phase, terminal' = terminal,
         Admission(loop'),
         (loop'.session = loop.session /\ loop'.lastId = loop.lastId) \/ Launches(loop, loop')
  PROVE  LedgerStep
<1>1. Open /\ Open' BY DEF Open
<1>2. Ended' = Ended BY DEF Ended
<1>3. CASE loop'.session = loop.session /\ loop'.lastId = loop.lastId
  BY <1>1, <1>2, <1>3 DEF LedgerStep, Live
<1>4. CASE Launches(loop, loop')
  <2>1. Live = 0 BY <1>4 DEF Live, Launches, Idle, NoSession
  <2>2. loop'.lastId = loop.lastId + 1 /\ loop'.session.id = loop'.lastId
    BY <1>4 DEF Launches
  <2>3. loop'.session.kind \in {"sync", "scan"}
    BY <1>4 DEF Launches, Admission, Idle
  <2>4. CASE loop'.session.kind = "sync"
    <3>1. Live' = loop'.lastId BY <1>1, <2>2, <2>4 DEF Live
    <3>2. Ledger!Begin
      BY <1>1, <1>2, <2>1, <2>2, <3>1 DEF Ledger!Begin, Open, Live, Ended
    <3> QED BY <3>2 DEF LedgerStep, Ledger!Next
  <2>5. CASE loop'.session.kind = "scan"
    <3>1. Live' = 0 BY <2>5 DEF Live
    <3>2. Ledger!Skip
      BY <1>1, <1>2, <2>1, <2>2, <3>1 DEF Ledger!Skip, Open, Live, Ended
    <3> QED BY <3>2 DEF LedgerStep, Ledger!Next
  <2> QED BY <2>3, <2>4, <2>5
<1> QED BY <1>3, <1>4

(* A session that stays or starts leaves the intent of a detach with the   *)
(* session it is about.                                                    *)
LEMMA SettlingStays ==
  ASSUME IInv, phase # "panicked", UNCHANGED history,
         Coherent(loop', source', left'.requests),
         (loop'.session = loop.session /\ loop'.lastId = loop.lastId) \/ Launches(loop, loop')
  PROVE  Settling'
<1>0. UNCHANGED <<detached, terminal, saved>> BY DEF history
<1>1. Settling BY DEF IInv
<1>2. loop \in Loops /\ loop.lastId \in Nat BY DEF IInv, Coherent, Loops
<1>3. CASE loop'.session = loop.session /\ loop'.lastId = loop.lastId
  BY <1>0, <1>1, <1>3 DEF Settling, Entry, Idle
<1>4. CASE Launches(loop, loop')
  <2>1. Idle(loop) /\ loop'.lastId = loop.lastId + 1 /\ loop'.session.id = loop'.lastId
    BY <1>4 DEF Launches
  <2>2. detached.id = 0 BY <1>1, <2>1 DEF Settling, Idle, NoSession
  <2>3. \A e \in terminal : e.id \in Nat BY DEF IInv, Typed
  <2>4. \A e \in terminal : e.id # 0 /\ e.id <= loop.lastId BY <1>1 DEF Settling
  <2>5. \A e \in terminal : e.id <= loop'.lastId /\ e.id # loop'.session.id
    BY <1>2, <2>1, <2>3, <2>4
  <2> QED BY <1>0, <1>1, <2>2, <2>4, <2>5 DEF Settling
<1> QED BY <1>3, <1>4

(* An arm that leaves the history and the source alone and moves the loop  *)
(* by the transformers keeps the invariant.                                *)
LEMMA LoopStep ==
  ASSUME IInv, phase = "running", phase' = phase, UNCHANGED history, UNCHANGED library,
         Typed', Naming',
         Coherent(loop', source, left'.requests), Steady(loop'),
         Advances(loop, loop', source)
  PROVE  Kept
<1>1. /\ detached' = detached /\ terminal' = terminal /\ saved' = saved /\ retained' = retained
      /\ source' = source /\ watched' = watched /\ deadline' = deadline
  BY DEF history, library
<1>2. (loop'.session = loop.session /\ loop'.lastId = loop.lastId) \/ Launches(loop, loop')
  BY DEF Advances
<1>3. Coherent(loop', source', left'.requests) BY <1>1
<1>4. Settling' BY <1>2, <1>3, SettlingStays
<1>5. HistoryKept' BY <1>1 DEF IInv, HistoryKept
<1>6. ChangeNotLost' BY <1>1 DEF IInv, ChangeNotLost, Advances
<1>7. Admission(loop') BY DEF Coherent
<1>8. LedgerStep BY <1>1, <1>2, <1>7, LaunchInLedger
<1>9. QueueAnswered BY <1>1 DEF QueueAnswered, Advances
<1> QED BY <1>3, <1>4, <1>5, <1>6, <1>8, <1>9 DEF Kept, IInv

(* The budgets stay in their types. *)
LEMMA SpendingTyped ==
  ASSUME IInv
  PROVE  /\ \A request \in Requests : [left EXCEPT !.requests = @ \ {request}] \in Spendings
         /\ left.requests \subseteq Requests
         /\ \A failed \in BOOLEAN : (failed => left.faults > 0) => Remaining(failed) \in Nat
         /\ \A ok \in Writes : ok \in BOOLEAN /\ (~ ok => left.faults > 0)
         /\ \A sync : \A ok \in Reconciles(sync) : ok \in BOOLEAN /\ (~ ok => left.faults > 0)
<1>1. left \in Spendings BY DEF IInv, Typed
<1>2. left.faults \in Nat BY <1>1 DEF Spendings
<1>3. \A request \in Requests : [left EXCEPT !.requests = @ \ {request}] \in Spendings
  BY <1>1 DEF Spendings
<1>4. \A failed \in BOOLEAN : (failed => left.faults > 0) => Remaining(failed) \in Nat
  BY <1>2 DEF Remaining
<1>5. \A ok \in Writes : ok \in BOOLEAN /\ (~ ok => left.faults > 0)
  BY DEF Writes
<1>6. \A sync : \A ok \in Reconciles(sync) : ok \in BOOLEAN /\ (~ ok => left.faults > 0)
  BY DEF Reconciles
<1>7. left.requests \subseteq Requests BY <1>1 DEF Spendings
<1> QED BY <1>3, <1>4, <1>5, <1>6, <1>7

(* A command takes its request from those not asked yet.                   *)
LEMMA TakenFromLoop ==
  ASSUME IInv, NEW request \in Requests, request \in left.requests
  PROVE  /\ Coherent(loop, source, left.requests \ {request})
         /\ Fresh(loop, request) /\ request \notin left.requests \ {request}
         /\ Steady(loop) /\ source \in Nat /\ loop \in Loops
BY TakeRequest DEF IInv, Coherent, Typed

(* A refusal, like every other answer on the spot, moves nothing.          *)
LEMMA AnswerAdvances ==
  ASSUME IInv, NEW request \in Requests, request \in left.requests, NEW kind \in Replies
  PROVE  LET m == Answer(loop, {request}, kind) IN
         /\ Coherent(m, source, left.requests \ {request})
         /\ Steady(m)
         /\ Advances(loop, m, source)
         /\ OnlyAnswers(loop, m)
<1> DEFINE m == Answer(loop, {request}, kind)
<1>1. /\ Coherent(loop, source, left.requests \ {request})
      /\ Fresh(loop, request) /\ request \notin left.requests \ {request} /\ Steady(loop)
  BY TakenFromLoop
<1>2. {request} \in SUBSET Requests
      /\ \A r \in {request} : Fresh(loop, r) /\ r \notin left.requests \ {request}
  BY <1>1
<1>3. Coherent(m, source, left.requests \ {request}) /\ OnlyAnswers(loop, m)
  BY <1>1, <1>2, AnswerCoherent
<1> HIDE DEF m
<1>4. Steady(m) BY <1>1, <1>3 DEF Steady, OnlyAnswers, Idle
<1>5. Advances(loop, m, source) BY <1>3 DEF Advances, OnlyAnswers, Queues
<1> QED BY <1>3, <1>4, <1>5 DEF m

(* A command that only moves the loop keeps the types and the names.       *)
LEMMA OtherTypes ==
  ASSUME IInv, left' \in Spendings, UNCHANGED <<history, devices, library, phase>>,
         hostPending' \in {"none", hostPending}
  PROVE  Typed' /\ Naming'
BY DEF IInv, Typed, Naming, history, devices, library

(* A sync a client asks for is queued, or refused with a reason.           *)
LEMMA TriggerSyncKept ==
  ASSUME IInv, NEW request \in Requests, NEW dev \in Devices, TriggerSync(request, dev)
  PROVE  Kept
<1> DEFINE sync == [dev |-> dev, gen |-> connection[dev].gen, req |-> request]
<1>1. /\ phase = "running" /\ request \in left.requests
      /\ left' = [left EXCEPT !.requests = @ \ {request}]
      /\ UNCHANGED <<history, devices, library, hostPending, phase>>
  BY DEF TriggerSync, Command
<1>2. left' \in Spendings /\ left'.requests = left.requests \ {request}
  BY <1>1, SpendingTyped DEF IInv, Typed, Spendings
<1>3. Typed' /\ Naming' BY <1>1, <1>2, OtherTypes
<1>4. /\ Coherent(loop', source, left'.requests) /\ Steady(loop')
      /\ Advances(loop, loop', source)
  <2>1. "rejected" \in Replies /\ "failed" \in Replies BY DEF Replies
  <2>2. CASE loop' = Answer(loop, {request}, "rejected")
    BY <1>1, <1>2, <2>1, <2>2, AnswerAdvances
  <2>3. CASE loop' = Answer(loop, {request}, "failed")
    BY <1>1, <1>2, <2>1, <2>3, AnswerAdvances
  <2>4. CASE ~ Rejected(dev) /\ loop' = RequestSync(loop, sync)
    <3>1. /\ Coherent(loop, source, left.requests \ {request}) /\ Steady(loop)
          /\ Fresh(loop, request) /\ request \notin left.requests \ {request} /\ source \in Nat
      BY <1>1, TakenFromLoop
    <3>2. sync \in Syncs /\ sync.dev \in Devices /\ sync.req = request
      BY DEF IInv, Typed, Syncs
    <3>3. loop.recovery.deferred = NoSync
      BY <2>4, <3>1 DEF Rejected, Steady, Idle, NoSession
    <3> HIDE DEF sync
    <3> QED BY <1>2, <2>4, <3>1, <3>2, <3>3, RequestSyncAdvances
  <2> QED BY <2>2, <2>3, <2>4 DEF TriggerSync, Refuse
<1> QED BY <1>1, <1>3, <1>4, LoopStep

(* A worker that is started directly takes its request with it.            *)
LEMMA StartDirectKept ==
  ASSUME IInv, NEW request \in Requests, NEW dev \in Devices, StartDirect(request, dev)
  PROVE  Kept
<1> DEFINE sync == [dev |-> dev, gen |-> connection[dev].gen, req |-> request]
<1>1. PICK reconciled \in Reconciles(sync) :
        /\ CASE Rejected(dev) -> Refuse(request, "rejected")
             [] ~ Rejected(dev) /\ hostPending # "none" -> Refuse(request, "failed")
             [] OTHER -> loop' = StartSync(loop, sync, reconciled)
        /\ left' = [left EXCEPT !.requests = @ \ {request}, !.faults = Remaining(~ reconciled)]
  BY DEF StartDirect
<1>2. /\ phase = "running" /\ request \in left.requests
      /\ UNCHANGED <<history, devices, library, hostPending, phase>>
  BY DEF StartDirect
<1>3. reconciled \in BOOLEAN /\ Remaining(~ reconciled) \in Nat
  BY SpendingTyped
<1>4. left' \in Spendings /\ left'.requests = left.requests \ {request}
  BY <1>1, <1>3 DEF IInv, Typed, Spendings
<1>5. Typed' /\ Naming' BY <1>2, <1>4, OtherTypes
<1>6. /\ Coherent(loop', source, left'.requests) /\ Steady(loop')
      /\ Advances(loop, loop', source)
  <2>1. "rejected" \in Replies /\ "failed" \in Replies BY DEF Replies
  <2>2. CASE loop' = Answer(loop, {request}, "rejected")
    BY <1>2, <1>4, <2>1, <2>2, AnswerAdvances
  <2>3. CASE loop' = Answer(loop, {request}, "failed")
    BY <1>2, <1>4, <2>1, <2>3, AnswerAdvances
  <2>4. CASE ~ Rejected(dev) /\ loop' = StartSync(loop, sync, reconciled)
    <3>1. /\ Coherent(loop, source, left'.requests) /\ Steady(loop)
          /\ Fresh(loop, request) /\ request \notin left'.requests /\ source \in Nat
      BY <1>2, <1>4, TakenFromLoop
    <3>2. sync \in Syncs /\ sync.dev \in Devices /\ sync.req = request
      BY DEF IInv, Typed, Syncs
    <3> HIDE DEF sync
    <3>3. Coherent(loop', source, left'.requests) /\ Starts(loop, loop')
      BY <1>3, <2>4, <3>1, <3>2, StartSyncCoherent
    <3>4. loop.recovery.deferred = NoSync
      BY <2>4, <3>1 DEF Rejected, Steady, Idle, NoSession
    <3>5. Steady(loop') BY <3>1, <3>3, <3>4, <2>4 DEF Steady, Starts, Rejected, Idle, Launches
    <3>6. Advances(loop, loop', source) BY <3>3 DEF Advances, Starts, Queues
    <3> QED BY <3>3, <3>5, <3>6
  <2> QED BY <1>1, <2>2, <2>3, <2>4 DEF Refuse
<1> QED BY <1>2, <1>5, <1>6, LoopStep

(* A dropped selection may start its sync at once.                         *)
LEMMA AddSelectionKept ==
  ASSUME IInv, NEW request \in Requests, NEW dev \in Devices, AddSelection(request, dev)
  PROVE  Kept
<1>1. /\ phase = "running" /\ request \in left.requests
      /\ left' = [left EXCEPT !.requests = @ \ {request}]
      /\ UNCHANGED <<history, devices, library, phase>>
      /\ hostPending' \in {"none", hostPending}
  BY DEF AddSelection, Command
<1>2. left' \in Spendings /\ left'.requests = left.requests \ {request}
  BY <1>1, SpendingTyped DEF IInv, Typed, Spendings
<1>3. Typed' /\ Naming' BY <1>1, <1>2, OtherTypes
<1>4. /\ Coherent(loop', source, left'.requests) /\ Steady(loop')
      /\ Advances(loop, loop', source)
  <2> DEFINE told == Answer(loop, {request}, "accepted")
             go == Launch(told, "sync", dev, connection[dev].gen)
  <2>1. "accepted" \in Replies /\ "failed" \in Replies BY DEF Replies
  <2>2. CASE loop' = Answer(loop, {request}, "failed")
    BY <1>1, <1>2, <2>1, <2>2, AnswerAdvances
  <2>3. CASE loop' = told
    BY <1>1, <1>2, <2>1, <2>3, AnswerAdvances
  <2>4. CASE Idle(loop) /\ loop' = go
    <3>1. /\ Coherent(told, source, left'.requests) /\ Steady(told)
          /\ OnlyAnswers(loop, told)
      BY <1>1, <1>2, <2>1, AnswerAdvances
    <3> HIDE DEF told
    <3>2. Idle(told) BY <2>4, <3>1 DEF Idle, OnlyAnswers
    <3>3. connection[dev].gen \in Nat /\ dev \in Devices \cup {NoDevice} /\ "sync" \in {"sync", "scan"}
      BY DEF IInv, Typed
    <3>4. /\ Coherent(loop', source, left'.requests) /\ Starts(told, loop')
          /\ Launches(told, loop')
      BY <2>4, <3>1, <3>2, <3>3, LaunchCoherent
    <3>5. loop.recovery.deferred = NoSync
      BY <2>4 DEF IInv, Steady, Idle, NoSession
    <3>6. Steady(loop') BY <3>1, <3>4, <3>5 DEF Steady, Starts, OnlyAnswers, Launches
    <3>7. Launches(loop, loop') BY <2>4, <3>1, <3>4 DEF Launches, OnlyAnswers
    <3>8. Advances(loop, loop', source)
      BY <3>1, <3>4, <3>7 DEF Advances, OnlyAnswers, Starts, Remembers, Queues
    <3> QED BY <3>4, <3>6, <3>8
  <2> QED BY <2>2, <2>3, <2>4 DEF AddSelection, Refuse
<1> QED BY <1>1, <1>3, <1>4, LoopStep

(* A stop uses up its signal; the session stays. *)
LEMMA StopKept ==
  ASSUME IInv, NEW request \in Requests, NEW id, NEW control \in Controls,
         Stop(request, id, control)
  PROVE  Kept
<1>1. /\ phase = "running" /\ request \in left.requests
      /\ left' = [left EXCEPT !.requests = @ \ {request}]
      /\ UNCHANGED <<history, devices, library, hostPending, phase>>
  BY DEF Stop, Command
<1>2. left' \in Spendings /\ left'.requests = left.requests \ {request}
  BY <1>1, SpendingTyped DEF IInv, Typed, Spendings
<1>3. Typed' /\ Naming' BY <1>1, <1>2, OtherTypes
<1>4. /\ Coherent(loop', source, left'.requests) /\ Steady(loop')
      /\ Advances(loop, loop', source)
  <2> DEFINE told == Answer(loop, {request}, "acknowledged")
  <2>1. "acknowledged" \in Replies /\ "failed" \in Replies BY DEF Replies
  <2>2. CASE loop' = Answer(loop, {request}, "failed")
    BY <1>1, <1>2, <2>1, <2>2, AnswerAdvances
  <2>3. CASE loop' = [told EXCEPT !.controls = @ \ {control}]
    <3>1. /\ Coherent(told, source, left'.requests) /\ Steady(told)
          /\ Advances(loop, told, source)
      BY <1>1, <1>2, <2>1, AnswerAdvances
    <3> HIDE DEF told
    <3>2. told \in Loops BY <3>1 DEF Coherent
    <3>3. /\ loop' \in Loops /\ loop'.session = told.session /\ loop'.lastId = told.lastId
          /\ loop'.workers = told.workers /\ loop'.recovery = told.recovery
          /\ loop'.attempts = told.attempts /\ loop'.answers = told.answers
          /\ loop'.unscanned = told.unscanned
      BY <2>3, <3>2 DEF Loops
    <3>4. Coherent(loop', source, left'.requests)
      BY <3>1, <3>3 DEF Coherent, Admission, Attempting, Answering, Waits, Queues, Fresh, Answered
    <3>5. Steady(loop') BY <3>1, <3>3 DEF Steady, Idle
    <3>6. Advances(loop, loop', source)
      BY <3>1, <3>3 DEF Advances, Launches, Idle, Remembers, Answered, Queues
    <3> QED BY <3>4, <3>5, <3>6
  <2> QED BY <2>2, <2>3 DEF Stop
<1> QED BY <1>1, <1>3, <1>4, LoopStep

(* Commands that write the registry leave the loop to its answer, or to    *)
(* none when the registry cannot be written.                               *)
LEMMA RegistryKept ==
  ASSUME IInv, NEW request \in Requests, NEW dev \in Devices,
         ForgetIpod(request, dev) \/ AdoptDevice(request, dev)
  PROVE  Kept
<1>1. PICK ok \in Writes : WriteCommand(request, ok) BY DEF ForgetIpod, AdoptDevice
<1>2. /\ UNCHANGED <<history, connection, known, remembered, readers, generation, library>>
      /\ UNCHANGED <<hostPending, phase>>
      /\ configured' \in {configured, configured \ {dev}, configured \cup {dev}}
  BY DEF ForgetIpod, AdoptDevice
<1>3. ok \in BOOLEAN /\ Remaining(~ ok) \in Nat BY SpendingTyped
<1>4. phase = "running" /\ request \in left.requests BY <1>1 DEF WriteCommand
<1>5. left' \in Spendings /\ left'.requests = left.requests \ {request}
  BY <1>1, <1>3 DEF IInv, Typed, Spendings, WriteCommand
<1>6. Typed' /\ Naming'
  BY <1>2, <1>5 DEF IInv, Typed, Naming, history, library
<1>7. /\ Coherent(loop', source, left'.requests) /\ Steady(loop')
      /\ Advances(loop, loop', source)
  <2>1. "rejected" \in Replies /\ "failed" \in Replies /\ "acknowledged" \in Replies
    BY DEF Replies
  <2>2. CASE loop' = Answer(loop, {request}, "rejected")
    BY <1>4, <1>5, <2>1, <2>2, AnswerAdvances
  <2>3. CASE loop' = Answer(loop, {request}, "failed")
    BY <1>4, <1>5, <2>1, <2>3, AnswerAdvances
  <2>4. CASE loop' = Answer(loop, {request}, "acknowledged")
    BY <1>4, <1>5, <2>1, <2>4, AnswerAdvances
  <2>5. CASE loop' = loop
    <3>1. Coherent(loop, source, left'.requests) /\ Steady(loop)
      BY <1>4, <1>5, TakenFromLoop
    <3> QED BY <2>5, <3>1 DEF Advances, Remembers
  <2> QED BY <2>2, <2>3, <2>4, <2>5 DEF ForgetIpod, AdoptDevice, Refuse
<1> QED BY <1>2, <1>4, <1>6, <1>7, LoopStep

(* A retry or a scan asked for by a client is noted and waits.             *)
LEMMA SourceCommandKept ==
  ASSUME IInv, NEW request \in Requests,
         (\E ui \in BOOLEAN : RetrySourceMount(request, ui)) \/ ScanLibrary(request)
  PROVE  Kept
<1>1. /\ phase = "running" /\ request \in left.requests
      /\ left' = [left EXCEPT !.requests = @ \ {request}]
      /\ UNCHANGED <<history, devices, library, hostPending, phase>>
  BY DEF RetrySourceMount, ScanLibrary, Command
<1>2. left' \in Spendings /\ left'.requests = left.requests \ {request}
  BY <1>1, SpendingTyped DEF IInv, Typed, Spendings
<1>3. Typed' /\ Naming' BY <1>1, <1>2, OtherTypes
<1>4. /\ Coherent(loop, source, left'.requests) /\ Steady(loop)
      /\ Fresh(loop, request) /\ request \notin left'.requests /\ source \in Nat
  BY <1>1, <1>2, TakenFromLoop
<1>5. loop.recovery.deferred # NoSync => loop.session.kind = "scan" BY <1>4 DEF Steady
<1>6. /\ Coherent(loop', source, left'.requests) /\ Steady(loop')
      /\ Advances(loop, loop', source)
  <2>1. ASSUME NEW ui \in BOOLEAN, RetrySourceMount(request, ui)
        PROVE  /\ Coherent(loop', source, left'.requests) /\ Steady(loop')
               /\ Advances(loop, loop', source)
    <3>1. loop' = RequestRetry(loop, request, ui) BY <2>1 DEF RetrySourceMount
    <3> QED BY <1>4, <1>5, <3>1, RequestRetryAdvances
  <2>2. CASE loop' = RequestScan(loop)
    BY <1>4, <1>5, <2>2, RequestScanAdvances
  <2>3. CASE loop' = loop BY <1>4, <2>3 DEF Advances, Remembers
  <2> QED BY <2>1, <2>2, <2>3 DEF ScanLibrary
<1> QED BY <1>1, <1>3, <1>6, LoopStep

(* A host journal that is left behind concerns no session.                 *)
LEMMA LeaveHostJournalKept ==
  ASSUME IInv, NEW kind \in {"library", "other"}, LeaveHostJournal(kind)
  PROVE  Kept
<1>1. /\ phase = "running" /\ left.faults > 0 /\ left' = [left EXCEPT !.faults = @ - 1]
      /\ UNCHANGED <<loop, history, devices, library, phase>> /\ hostPending' = kind
  BY DEF LeaveHostJournal
<1>2. left' \in Spendings /\ left'.requests = left.requests
  <2>1. left \in Spendings BY DEF IInv, Typed
  <2>2. left.faults \in Nat BY <2>1 DEF Spendings
  <2>3. left.faults - 1 \in Nat BY <1>1, <2>2
  <2> QED BY <1>1, <2>1, <2>3 DEF Spendings
<1>3. Typed' /\ Naming'
  BY <1>1, <1>2 DEF IInv, Typed, Naming, history, devices, library
<1>4. /\ Coherent(loop', source, left'.requests) /\ Steady(loop')
      /\ Advances(loop, loop', source)
  BY <1>1, <1>2 DEF IInv, Advances, Remembers
<1> QED BY <1>1, <1>3, <1>4, LoopStep

(* The scheduler asks for a sync nobody waits for. *)
LEMMA SchedulerTickKept ==
  ASSUME IInv, NEW dev \in Devices, SchedulerTick(dev)
  PROVE  Kept
<1> DEFINE sync == [dev |-> dev, gen |-> connection[dev].gen, req |-> NoRequest]
<1>1. /\ phase = "running" /\ left.ticks > 0 /\ left' = [left EXCEPT !.ticks = @ - 1]
      /\ UNCHANGED <<history, devices, library, hostPending, phase>>
      /\ Idle(loop) /\ loop' = RequestSync(loop, sync)
  BY DEF SchedulerTick, Tick
<1>2. left' \in Spendings /\ left'.requests = left.requests
  <2>1. left \in Spendings BY DEF IInv, Typed
  <2>2. left.ticks \in Nat BY <2>1 DEF Spendings
  <2>3. left.ticks - 1 \in Nat BY <1>1, <2>2
  <2> QED BY <1>1, <2>1, <2>3 DEF Spendings
<1>3. Typed' /\ Naming' BY <1>1, <1>2, OtherTypes
<1>4. sync \in Syncs /\ sync.dev \in Devices /\ sync.req \notin Requests
  BY RuntimeAssumption DEF IInv, Typed, Syncs
<1>5. /\ Coherent(loop, source, left'.requests) /\ Steady(loop) /\ source \in Nat
  BY <1>2 DEF IInv, Typed
<1>6. loop.recovery.deferred = NoSync BY <1>1, <1>5 DEF Steady, Idle, NoSession
<1> HIDE DEF sync
<1>7. /\ Coherent(loop', source, left'.requests) /\ Steady(loop')
      /\ Advances(loop, loop', source)
  BY <1>1, <1>4, <1>5, <1>6, RequestSyncAdvances
<1> QED BY <1>1, <1>3, <1>7, LoopStep

(* An arm that moves the source or what is noticed about it.               *)
LEMMA SourceStep ==
  ASSUME IInv, phase = "running", phase' = phase, UNCHANGED history,
         Typed', Naming',
         Coherent(loop', source', left'.requests), Steady(loop'),
         (loop'.session = loop.session /\ loop'.lastId = loop.lastId) \/ Launches(loop, loop'),
         QueueAnswered, ChangeNotLost'
  PROVE  Kept
<1>1. /\ detached' = detached /\ terminal' = terminal /\ saved' = saved /\ retained' = retained
  BY DEF history
<1>2. Settling' BY SettlingStays
<1>3. HistoryKept' BY <1>1 DEF IInv, HistoryKept
<1>4. Admission(loop') BY DEF Coherent
<1>5. LedgerStep BY <1>1, <1>4, LaunchInLedger
<1> QED BY <1>2, <1>3, <1>5 DEF Kept, IInv

(* What was queued and noticed before a transformer is so before the step. *)
LEMMA AdvancesAfter ==
  ASSUME NEW l, NEW m, NEW n, NEW from,
         m.session = l.session, m.lastId = l.lastId, Remembers(l, m),
         \A r \in Requests : Queues(l, r) => Queues(m, r),
         m.unscanned = l.unscanned, l.recovery.scan => m.recovery.scan,
         Advances(m, n, from)
  PROVE  Advances(l, n, from)
<1>1. (n.session = l.session /\ n.lastId = l.lastId) \/ Launches(l, n)
  BY DEF Advances, Launches, Idle
<1>2. Remembers(l, n) BY DEF Advances, Remembers
<1> QED BY <1>1, <1>2 DEF Advances

(* A new location is served from scratch; no session is touched.           *)
LEMMA SetSourceKept ==
  ASSUME IInv, NEW request \in Requests, NEW location \in 0..MaxSources,
         SetSource(request, location)
  PROVE  Kept
<1> DEFINE yes == Answer(loop, {request}, "acknowledged")
           no == Answer(loop, {request}, "failed")
<1>1. PICK ok \in Writes :
        /\ WriteCommand(request, ok)
        /\ source' = IF ok THEN location ELSE source
        /\ loop' =
             LET told == Answer(loop, {request}, IF ok THEN "acknowledged" ELSE "failed") IN
             IF ~ ok \/ location = 0 \/ location = source THEN told
             ELSE Invalidate(told)
  BY DEF SetSource
<1>2. UNCHANGED <<history, devices, watched, deadline, hostPending, phase>>
  BY DEF SetSource
<1>3. ok \in BOOLEAN /\ Remaining(~ ok) \in Nat BY SpendingTyped
<1>4. phase = "running" /\ request \in left.requests BY <1>1 DEF WriteCommand
<1>5. left' \in Spendings /\ left'.requests = left.requests \ {request}
  BY <1>1, <1>3 DEF IInv, Typed, Spendings, WriteCommand
<1>6. source' \in Nat
  <2>1. source \in Nat BY DEF IInv, Typed
  <2>2. location \in Nat BY RuntimeAssumption
  <2> QED BY <1>1, <2>1, <2>2
<1>7. Typed' /\ Naming'
  BY <1>2, <1>5, <1>6 DEF IInv, Typed, Naming, history, devices
<1>8. "failed" \in Replies /\ "acknowledged" \in Replies BY DEF Replies
<1>9. /\ Coherent(yes, source, left'.requests) /\ Steady(yes)
      /\ Advances(loop, yes, source) /\ OnlyAnswers(loop, yes)
  BY <1>4, <1>5, <1>8, AnswerAdvances
<1>10. /\ Coherent(no, source, left'.requests) /\ Steady(no)
       /\ Advances(loop, no, source)
  BY <1>4, <1>5, <1>8, AnswerAdvances
<1>11. CASE ~ ok
  <2>1. loop' = no /\ UNCHANGED library BY <1>1, <1>2, <1>11 DEF library
  <2> QED BY <1>2, <1>4, <1>7, <1>10, <2>1, LoopStep
<1>12. CASE ok /\ location = source
  <2>1. loop' = yes /\ UNCHANGED library BY <1>1, <1>2, <1>12 DEF library
  <2> QED BY <1>2, <1>4, <1>7, <1>9, <2>1, LoopStep
<1>13. CASE ok /\ location = 0
  <2>1. loop' = yes /\ source' = 0 BY <1>1, <1>13
  <2>2. Coherent(loop', source', left'.requests)
    BY <1>9, <2>1 DEF Coherent, Attempting
  <2>3. loop'.session = loop.session /\ loop'.lastId = loop.lastId
    BY <1>9, <2>1 DEF OnlyAnswers
  <2>4. QueueAnswered /\ ChangeNotLost' BY <2>1 DEF QueueAnswered, ChangeNotLost
  <2> QED BY <1>2, <1>4, <1>7, <1>9, <2>1, <2>2, <2>3, <2>4, SourceStep
<1>14. CASE ok /\ location # 0 /\ location # source
  <2> HIDE DEF yes
  <2>1. loop' = Invalidate(yes) /\ source' = location BY <1>1, <1>14 DEF yes
  <2>2. /\ Coherent(Invalidate(yes), location, left'.requests)
        /\ Invalidate(yes).recovery.retries = <<>>
        /\ Invalidate(yes).recovery.state = "unavailable"
        /\ Invalidate(yes).recovery.sync = yes.recovery.sync
        /\ Invalidate(yes).recovery.deferred = yes.recovery.deferred
        /\ Invalidate(yes).session = yes.session
        /\ Invalidate(yes).lastId = yes.lastId
        /\ ~ Invalidate(yes).unscanned
        /\ Remembers(yes, Invalidate(yes))
    BY <1>9, InvalidateCoherent
  <2>3. Steady(loop') BY <1>9, <2>1, <2>2 DEF Steady
  <2>4. loop'.session = loop.session /\ loop'.lastId = loop.lastId
    BY <1>9, <2>1, <2>2 DEF OnlyAnswers
  <2>5. QueueAnswered BY <1>9, <2>1, <2>2 DEF QueueAnswered, Queues, OnlyAnswers
  <2>6. ChangeNotLost' BY <2>1, <2>2 DEF ChangeNotLost
  <2> QED BY <1>2, <1>4, <1>7, <2>1, <2>2, <2>3, <2>4, <2>5, <2>6, SourceStep
<1> QED BY <1>3, <1>11, <1>12, <1>13, <1>14

(* A change that is noticed arms the rescan. *)
LEMMA LibraryChangedKept ==
  ASSUME IInv, LibraryChanged
  PROVE  Kept
<1>1. /\ phase = "running" /\ left.ticks > 0 /\ left' = [left EXCEPT !.ticks = @ - 1]
      /\ deadline' = TRUE
      /\ loop' = [loop EXCEPT !.unscanned = loop.unscanned \/ watched = source]
      /\ UNCHANGED <<history, devices, source, watched, hostPending, phase>>
  BY DEF LibraryChanged, Tick
<1>2. left' \in Spendings /\ left'.requests = left.requests
  <2>1. left \in Spendings BY DEF IInv, Typed
  <2>2. left.ticks \in Nat BY <2>1 DEF Spendings
  <2>3. left.ticks - 1 \in Nat BY <1>1, <2>2
  <2> QED BY <1>1, <2>1, <2>3 DEF Spendings
<1>3. Typed' /\ Naming'
  BY <1>1, <1>2 DEF IInv, Typed, Naming, history, devices
<1>4. loop \in Loops BY DEF IInv, Coherent
<1>5. (loop.unscanned \/ watched = source) \in BOOLEAN OBVIOUS
<1>6. /\ loop' \in Loops /\ loop'.session = loop.session /\ loop'.lastId = loop.lastId
      /\ loop'.workers = loop.workers /\ loop'.recovery = loop.recovery
      /\ loop'.attempts = loop.attempts /\ loop'.answers = loop.answers
  BY <1>1, <1>4, <1>5 DEF Loops
<1>7. Coherent(loop', source', left'.requests)
  <2>1. Coherent(loop, source, left.requests) BY DEF IInv
  <2> QED BY <1>1, <1>2, <1>6, <2>1
        DEF Coherent, Admission, Attempting, Answering, Waits, Queues, Fresh, Answered
<1>8. Steady(loop') BY <1>6 DEF IInv, Steady, Idle
<1>9. QueueAnswered BY <1>6 DEF QueueAnswered, Queues
<1>10. ChangeNotLost' BY <1>1 DEF ChangeNotLost
<1> QED BY <1>1, <1>3, <1>6, <1>7, <1>8, <1>9, <1>10, SourceStep

(* The rescan that was armed is queued. *)
LEMMA DeadlineReachedKept ==
  ASSUME IInv, DeadlineReached
  PROVE  Kept
<1>1. /\ phase = "running" /\ deadline' = FALSE
      /\ UNCHANGED <<history, devices, source, watched, hostPending, phase, left>>
  BY DEF DeadlineReached
<1>2. Typed' /\ Naming' BY <1>1 DEF IInv, Typed, Naming, history, devices
<1>3. Coherent(loop, source, left'.requests) /\ Steady(loop) /\ source \in Nat
  BY <1>1 DEF IInv, Typed
<1>4. CASE source = 0
  <2>1. loop' = loop BY <1>4 DEF DeadlineReached
  <2>2. QueueAnswered /\ ChangeNotLost' BY <1>1, <1>4, <2>1 DEF QueueAnswered, ChangeNotLost
  <2> QED BY <1>1, <1>2, <1>3, <2>1, <2>2, SourceStep
<1>5. CASE source # 0
  <2>1. loop' = RequestScan(loop) BY <1>5 DEF DeadlineReached
  <2>2. /\ Coherent(loop', source, left'.requests) /\ Steady(loop')
        /\ Advances(loop, loop', source) /\ loop'.recovery.scan
    BY <1>3, <1>5, <2>1, RequestScanAdvances DEF Steady
  <2>3. QueueAnswered /\ ChangeNotLost'
    BY <1>1, <2>2 DEF QueueAnswered, ChangeNotLost, Advances
  <2>4. (loop'.session = loop.session /\ loop'.lastId = loop.lastId) \/ Launches(loop, loop')
    BY <2>2 DEF Advances
  <2> QED BY <1>1, <1>2, <2>2, <2>3, <2>4, SourceStep
<1> QED BY <1>4, <1>5

(* A device that appears gets a later generation than every name read.     *)
LEMMA ConnectKept ==
  ASSUME IInv, NEW dev \in Devices, Connect(dev)
  PROVE  Kept
<1> DEFINE gen == generation + 1
           sync == [dev |-> dev, gen |-> gen, req |-> NoRequest]
<1>1. PICK observed \in Writes, auto \in BOOLEAN,
           ready \in Reconciles(NoSync) \cup (IF left.faults > 0 THEN {FALSE} ELSE {}) :
        /\ generation' = gen
        /\ left' = [left EXCEPT !.mounts = @ - 1, !.faults = Remaining(~ observed \/ ~ ready)]
        /\ IF ~ observed
           THEN UNCHANGED <<loop, connection, known, readers>>
           ELSE /\ known' = known \cup {dev}
                /\ connection' = [connection EXCEPT ![dev] =
                                    [gen |-> gen, name |-> remembered[dev]]]
                /\ readers' = readers \cup {[dev |-> dev, gen |-> gen]}
                /\ loop' = IF dev \in configured /\ ready /\ Idle(loop) /\ auto
                           THEN RequestSync(loop, sync) ELSE loop
  BY DEF Connect
<1>2. /\ phase = "running" /\ left.mounts > 0
      /\ UNCHANGED <<history, remembered, configured, library, hostPending, phase>>
  BY DEF Connect
<1>3. left' \in Spendings /\ left'.requests = left.requests
  <2>1. left \in Spendings BY DEF IInv, Typed
  <2>2. left.mounts \in Nat BY <2>1 DEF Spendings
  <2>3. left.mounts - 1 \in Nat BY <1>2, <2>2
  <2>4. /\ observed \in BOOLEAN /\ ready \in BOOLEAN
        /\ ~ observed \/ ~ ready => left.faults > 0
    BY SpendingTyped DEF Reconciles
  <2>5. (~ observed \/ ~ ready) \in BOOLEAN OBVIOUS
  <2>6. Remaining(~ observed \/ ~ ready) \in Nat BY <2>4, <2>5, SpendingTyped
  <2> QED BY <1>1, <2>1, <2>3, <2>6 DEF Spendings
<1>4. gen \in Nat /\ gen # 0 /\ generation \in Nat BY DEF IInv, Typed
<1>5. Typed /\ Naming BY DEF IInv
<1>6. Typed'
  <2>1. connection' \in [Devices -> [gen : Nat, name : Nat]]
    <3>1. remembered[dev] \in Nat BY <1>5 DEF Typed
    <3>2. [gen |-> gen, name |-> remembered[dev]] \in [gen : Nat, name : Nat]
      BY <1>4, <3>1
    <3> QED BY <1>1, <1>5, <3>2 DEF Typed
  <2>2. readers' \subseteq [dev : Devices, gen : Nat]
    <3>1. [dev |-> dev, gen |-> gen] \in [dev : Devices, gen : Nat] BY <1>4
    <3> QED BY <1>1, <1>5, <3>1 DEF Typed
  <2>3. known' \subseteq Devices BY <1>1, <1>5 DEF Typed
  <2>4. generation' \in Nat BY <1>1, <1>4
  <2> QED BY <1>2, <1>3, <1>5, <2>1, <2>2, <2>3, <2>4 DEF Typed, history, library
<1>7. Naming'
  <2>1. ASSUME NEW d \in Devices
        PROVE  /\ connection'[d].gen <= generation' /\ remembered'[d] <= generation'
               /\ connection'[d].gen # 0 => remembered'[d] <= connection'[d].gen
    <3>1. connection[d].gen \in Nat /\ remembered[d] \in Nat BY <1>5 DEF Typed
    <3>2. /\ connection[d].gen <= generation /\ remembered[d] <= generation
          /\ connection[d].gen # 0 => remembered[d] <= connection[d].gen
      BY <1>5 DEF Naming
    <3>3. connection'[d].gen = gen \/ connection'[d] = connection[d]
      BY <1>1, <1>5 DEF Typed
    <3> QED BY <1>1, <1>2, <1>4, <3>1, <3>2, <3>3
  <2>2. ASSUME NEW reader \in readers' PROVE reader.gen # 0 /\ reader.gen <= generation'
    <3>1. CASE reader \in readers
      <4>1. reader.gen \in Nat BY <1>5, <3>1 DEF Typed
      <4> QED BY <1>1, <1>4, <1>5, <3>1, <4>1 DEF Naming
    <3>2. CASE reader = [dev |-> dev, gen |-> gen] BY <1>1, <1>4, <3>2
    <3> QED BY <1>1, <2>2, <3>1, <3>2
  <2> QED BY <2>1, <2>2 DEF Naming
<1>8. /\ Coherent(loop, source, left'.requests) /\ Steady(loop) /\ source \in Nat
  BY <1>3 DEF IInv, Typed
<1>9. /\ Coherent(loop', source, left'.requests) /\ Steady(loop')
      /\ Advances(loop, loop', source)
  <2>1. CASE loop' = loop BY <1>8, <2>1 DEF Advances, Remembers
  <2>2. CASE Idle(loop) /\ loop' = RequestSync(loop, sync)
    <3>1. sync \in Syncs /\ sync.dev \in Devices /\ sync.req \notin Requests
      BY <1>4, RuntimeAssumption DEF Syncs
    <3>2. loop.recovery.deferred = NoSync BY <1>8, <2>2 DEF Steady, Idle, NoSession
    <3> HIDE DEF sync
    <3> QED BY <1>8, <2>2, <3>1, <3>2, RequestSyncAdvances
  <2> QED BY <1>1, <2>1, <2>2
<1> QED BY <1>2, <1>6, <1>7, <1>9, LoopStep

(* A name that was found is taken for the connection it was read in.       *)
LEMMA NameResolvedKept ==
  ASSUME IInv, NEW reader \in readers, NEW found, NameResolved(reader, found)
  PROVE  Kept
<1>1. /\ phase = "running" /\ readers' = readers \ {reader}
      /\ loop' = Continue(loop, TRUE)
      /\ UNCHANGED <<history, known, configured, generation, library, hostPending, phase>>
  BY DEF NameResolved
<1>2. Typed /\ Naming BY DEF IInv
<1>3. \/ UNCHANGED <<connection, remembered, left>>
      \/ /\ connection[reader.dev].gen = reader.gen
         /\ \E ok \in Writes :
              /\ connection' = [connection EXCEPT ![reader.dev].name = reader.gen]
              /\ remembered' \in {remembered, [remembered EXCEPT ![reader.dev] = reader.gen]}
              /\ left' = [left EXCEPT !.faults = Remaining(~ ok)]
  BY DEF NameResolved, Current
<1>4. reader.dev \in Devices /\ reader.gen \in Nat BY <1>2 DEF Typed
<1>5. reader.gen # 0 /\ reader.gen <= generation BY <1>2 DEF Naming
<1>6. left' \in Spendings /\ left'.requests = left.requests
  <2>1. left \in Spendings BY <1>2 DEF Typed
  <2>2. ASSUME NEW ok \in Writes, left' = [left EXCEPT !.faults = Remaining(~ ok)]
        PROVE  left' \in Spendings /\ left'.requests = left.requests
    <3>1. ok \in BOOLEAN /\ (~ ok) \in BOOLEAN /\ (~ ok => left.faults > 0) BY SpendingTyped
    <3>2. Remaining(~ ok) \in Nat BY <3>1, SpendingTyped
    <3> QED BY <2>1, <2>2, <3>2 DEF Spendings
  <2> QED BY <1>3, <2>1, <2>2
<1>7. /\ connection' \in [Devices -> [gen : Nat, name : Nat]]
      /\ remembered' \in [Devices -> Nat]
      /\ \A d \in Devices : connection'[d].gen = connection[d].gen
      /\ \A d \in Devices : remembered'[d] = remembered[d]
           \/ (d = reader.dev /\ remembered'[d] = reader.gen /\ connection[d].gen = reader.gen)
  <2>1. /\ connection \in [Devices -> [gen : Nat, name : Nat]]
        /\ remembered \in [Devices -> Nat]
    BY <1>2 DEF Typed
  <2>2. CASE UNCHANGED <<connection, remembered>> BY <2>1, <2>2
  <2>3. CASE /\ connection[reader.dev].gen = reader.gen
             /\ connection' = [connection EXCEPT ![reader.dev].name = reader.gen]
             /\ remembered' \in {remembered, [remembered EXCEPT ![reader.dev] = reader.gen]}
    <3> DEFINE new == [connection[reader.dev] EXCEPT !.name = reader.gen]
    <3>1. new \in [gen : Nat, name : Nat] /\ new.gen = connection[reader.dev].gen
      BY <1>4, <2>1
    <3>2. connection' = [connection EXCEPT ![reader.dev] = new] BY <1>4, <2>1, <2>3
    <3> HIDE DEF new
    <3>3. /\ connection' \in [Devices -> [gen : Nat, name : Nat]]
          /\ \A d \in Devices : connection'[d].gen = connection[d].gen
      BY <1>4, <2>1, <3>1, <3>2
    <3>4. CASE remembered' = remembered BY <2>1, <3>3, <3>4
    <3>5. CASE remembered' = [remembered EXCEPT ![reader.dev] = reader.gen]
      BY <1>4, <2>1, <2>3, <3>3, <3>5
    <3> QED BY <2>3, <3>4, <3>5
  <2> QED BY <1>3, <2>2, <2>3
<1>8. Typed'
  <2>1. readers' \subseteq [dev : Devices, gen : Nat] BY <1>1, <1>2 DEF Typed
  <2> QED BY <1>1, <1>2, <1>6, <1>7, <2>1 DEF Typed, history, library
<1>9. Naming'
  <2>1. ASSUME NEW d \in Devices
        PROVE  /\ connection'[d].gen <= generation' /\ remembered'[d] <= generation'
               /\ connection'[d].gen # 0 => remembered'[d] <= connection'[d].gen
    <3>1. /\ connection[d].gen <= generation /\ remembered[d] <= generation
          /\ connection[d].gen # 0 => remembered[d] <= connection[d].gen
      BY <1>2 DEF Naming
    <3>2. generation' = generation /\ connection'[d].gen = connection[d].gen BY <1>1, <1>7
    <3>3. CASE remembered'[d] = remembered[d] BY <3>1, <3>2, <3>3
    <3>4. CASE remembered'[d] = reader.gen /\ connection[d].gen = reader.gen
      BY <1>4, <1>5, <3>2, <3>4
    <3> QED BY <1>7, <3>3, <3>4
  <2>2. \A other \in readers' : other.gen # 0 /\ other.gen <= generation'
    BY <1>1, <1>2 DEF Naming
  <2> QED BY <2>1, <2>2 DEF Naming
<1>10. Coherent(loop, source, left'.requests) /\ Steady(loop) /\ source \in Nat
  BY <1>6 DEF IInv, Typed
<1>11. /\ Coherent(loop', source, left'.requests) /\ Steady(loop')
       /\ Advances(loop, loop', source)
  BY <1>1, <1>10, ContinueAdvances DEF Steady
<1> QED BY <1>1, <1>8, <1>9, <1>11, LoopStep

(* A report of a mount attempt is heard only from the current one; what it *)
(* makes available is the configured location.                             *)
LEMMA AttemptFinishedKept ==
  ASSUME IInv, NEW attempt \in loop.attempts,
         NEW result \in {"present", "remounted", "auth_required", "unreachable"},
         AttemptFinished(attempt, result)
  PROVE  Kept
<1> DEFINE heard == [loop EXCEPT !.attempts = loop.attempts \ {attempt}]
           done == [heard EXCEPT !.recovery.attempt = 0, !.recovery.ui = FALSE]
           wanted == [done EXCEPT !.recovery.scan =
                        @ \/ result = "remounted" \/ loop.recovery.retries # <<>>]
           plain == [done EXCEPT !.recovery.escalate = FALSE]
           opened(ok, reconciled) ==
             /\ left' = [left EXCEPT !.faults = Remaining(~ ok \/ ~ reconciled)]
             /\ IF ~ ok
                THEN loop' = Publish(done, "unavailable", 0) /\ UNCHANGED <<watched, deadline>>
                ELSE /\ loop' = StartAvailable(Publish(wanted, "available", attempt.root),
                                               reconciled)
                     /\ watched' = IF result = "remounted" THEN source ELSE watched
                     /\ deadline' = (deadline /\ result # "remounted")
<1>0. \/ loop' = heard /\ UNCHANGED <<watched, deadline, left>>
      \/ /\ loop.recovery.attempt = attempt.id /\ result = "auth_required"
         /\ loop' = IF loop.recovery.escalate /\ ~ loop.recovery.ui /\ source # 0
                    THEN StartAttempt(plain, TRUE)
                    ELSE Publish(done, IF loop.recovery.escalate /\ ~ loop.recovery.ui
                                       THEN "unavailable" ELSE "auth_required", 0)
         /\ UNCHANGED <<watched, deadline, left>>
      \/ loop' = Publish(done, "unavailable", 0) /\ UNCHANGED <<watched, deadline, left>>
      \/ /\ loop.recovery.attempt = attempt.id
         /\ \E ok \in (IF result = "remounted" THEN Writes ELSE {TRUE}),
               reconciled \in Reconciles(loop.recovery.sync) : opened(ok, reconciled)
  BY Zenon DEF AttemptFinished
<1>1. /\ phase = "running" /\ attempt \in loop.attempts
      /\ UNCHANGED <<history, devices, source, hostPending, phase>>
  BY DEF AttemptFinished
<1>2. /\ Typed /\ Naming /\ Coherent(loop, source, left.requests) /\ Steady(loop)
      /\ source \in Nat /\ loop \in Loops /\ loop.recovery \in Recoveries
  BY DEF IInv, Typed, Coherent, Loops
<1> DEFINE again == loop.recovery.scan \/ result = "remounted" \/ loop.recovery.retries # <<>>
           rec == [loop.recovery EXCEPT !.attempt = 0, !.ui = FALSE]
           recw == [rec EXCEPT !.scan = again]
           recp == [rec EXCEPT !.escalate = FALSE]
<1>3. /\ heard \in Loops /\ heard.recovery = loop.recovery
      /\ heard.attempts = loop.attempts \ {attempt}
      /\ heard.session = loop.session /\ heard.lastId = loop.lastId
      /\ heard.unscanned = loop.unscanned /\ heard.workers = loop.workers
      /\ heard.answers = loop.answers
  BY <1>2 DEF Loops
<1> HIDE DEF heard
<1>4. again \in BOOLEAN OBVIOUS
<1>5. rec \in Recoveries BY <1>2 DEF Recoveries
<1> HIDE DEF again
<1>6. recw \in Recoveries /\ recp \in Recoveries BY <1>4, <1>5 DEF Recoveries
<1>7. /\ done = [heard EXCEPT !.recovery = rec]
      /\ wanted = [heard EXCEPT !.recovery = recw]
      /\ plain = [heard EXCEPT !.recovery = recp]
  <2>1. done = [heard EXCEPT !.recovery = rec] BY <1>3 DEF Loops, Recoveries
  <2> HIDE DEF rec, done
  <2>2. done \in Loops /\ done.recovery = rec BY <1>3, <1>5, <2>1 DEF Loops
  <2>3. rec.scan = loop.recovery.scan BY <1>2 DEF rec, Recoveries
  <2>4. wanted = [done EXCEPT !.recovery.scan = again] BY <2>2, <2>3 DEF again
  <2>5. wanted = [heard EXCEPT !.recovery = recw]
    BY <1>3, <1>5, <2>1, <2>2, <2>4 DEF Loops, Recoveries
  <2>6. plain = [heard EXCEPT !.recovery = recp]
    BY <1>3, <1>5, <2>1, <2>2 DEF Loops, Recoveries
  <2> QED BY <2>1, <2>5, <2>6
<1>8. \A x \in {rec, recw, recp} :
        /\ x.sync = loop.recovery.sync /\ x.deferred = loop.recovery.deferred
        /\ x.attempt = 0 /\ x.next = loop.recovery.next /\ x.state = loop.recovery.state
        /\ x.root = loop.recovery.root /\ x.retries = loop.recovery.retries
  BY <1>2, <1>5 DEF Recoveries
<1>9. rec.scan = loop.recovery.scan /\ recp.scan = loop.recovery.scan /\ recw.scan = again
  BY <1>2, <1>5 DEF Recoveries
<1> HIDE DEF rec, recw, recp
<1>10. /\ done.recovery = rec /\ wanted.recovery = recw /\ plain.recovery = recp
       /\ \A m \in {done, wanted, plain} :
            /\ m \in Loops /\ m.attempts = loop.attempts \ {attempt}
            /\ m.session = loop.session /\ m.lastId = loop.lastId
            /\ m.unscanned = loop.unscanned /\ m.workers = loop.workers
            /\ m.answers = loop.answers
  <2>1. ASSUME NEW x \in Recoveries, NEW m, m = [heard EXCEPT !.recovery = x]
        PROVE  /\ m.recovery = x
               /\ m \in Loops /\ m.attempts = loop.attempts \ {attempt}
               /\ m.session = loop.session /\ m.lastId = loop.lastId
               /\ m.unscanned = loop.unscanned /\ m.workers = loop.workers
               /\ m.answers = loop.answers
    BY <1>3, <2>1 DEF Loops
  <2> HIDE DEF done, wanted, plain
  <2> DEFINE Sane(m, x) ==
        /\ m.recovery = x
        /\ m \in Loops /\ m.attempts = loop.attempts \ {attempt}
        /\ m.session = loop.session /\ m.lastId = loop.lastId
        /\ m.unscanned = loop.unscanned /\ m.workers = loop.workers
        /\ m.answers = loop.answers
  <2>2. Sane(done, rec) BY <1>5, <1>7, <2>1
  <2>3. Sane(wanted, recw) BY <1>6, <1>7, <2>1
  <2>4. Sane(plain, recp) BY <1>6, <1>7, <2>1
  <2> QED BY <2>2, <2>3, <2>4
<1> HIDE DEF done, wanted, plain
<1>11. left'.requests = left.requests /\ left' \in Spendings
  <2>1. left \in Spendings BY <1>2 DEF Typed
  <2>2. ASSUME NEW ok \in BOOLEAN, NEW rc \in BOOLEAN, ~ ok \/ ~ rc => left.faults > 0,
               left' = [left EXCEPT !.faults = Remaining(~ ok \/ ~ rc)]
        PROVE  left'.requests = left.requests /\ left' \in Spendings
    <3>1. (~ ok \/ ~ rc) \in BOOLEAN OBVIOUS
    <3>2. Remaining(~ ok \/ ~ rc) \in Nat BY <2>2, <3>1, SpendingTyped
    <3> QED BY <2>1, <2>2, <3>2 DEF Spendings
  <2>3. UNCHANGED left
        \/ \E ok \in Writes \cup {TRUE}, rc \in Reconciles(loop.recovery.sync) :
             left' = [left EXCEPT !.faults = Remaining(~ ok \/ ~ rc)]
    <3>1. CASE \E ok \in (IF result = "remounted" THEN Writes ELSE {TRUE}),
                  reconciled \in Reconciles(loop.recovery.sync) : opened(ok, reconciled)
      <4>1. PICK ok \in (IF result = "remounted" THEN Writes ELSE {TRUE}),
                 reconciled \in Reconciles(loop.recovery.sync) : opened(ok, reconciled)
        BY <3>1
      <4>2. ok \in Writes \cup {TRUE} OBVIOUS
      <4>3. left' = [left EXCEPT !.faults = Remaining(~ ok \/ ~ reconciled)] BY <4>1
      <4> QED BY <4>2, <4>3
    <3> HIDE DEF opened
    <3> QED BY <1>0, <3>1
  <2>4. CASE UNCHANGED left BY <2>1, <2>4
  <2>5. CASE \E ok \in Writes \cup {TRUE}, rc \in Reconciles(loop.recovery.sync) :
               left' = [left EXCEPT !.faults = Remaining(~ ok \/ ~ rc)]
    <3>1. PICK ok \in Writes \cup {TRUE}, rc \in Reconciles(loop.recovery.sync) :
            left' = [left EXCEPT !.faults = Remaining(~ ok \/ ~ rc)]
      BY <2>5
    <3>2. ok \in BOOLEAN /\ rc \in BOOLEAN /\ (~ ok \/ ~ rc => left.faults > 0)
      BY SpendingTyped
    <3> QED BY <2>2, <3>1, <3>2
  <2> QED BY <2>3, <2>4, <2>5
<1>12. Coherent(heard, source, left'.requests) /\ Steady(heard)
  BY <1>2, <1>3, <1>11
     DEF Coherent, Admission, Attempting, Answering, Waits, Queues, Fresh, Answered, Steady, Idle
<1>13. ASSUME NEW x \in {rec, recw, recp}, NEW m \in {done, wanted, plain}, m.recovery = x
       PROVE  Coherent(m, source, left'.requests)
  <2>1. Admission(m) BY <1>2, <1>10 DEF Coherent, Admission
  <2>2. x.attempt < x.next
    <3>1. loop.recovery.attempt \in Nat /\ loop.recovery.next \in Nat BY <1>2 DEF Recoveries
    <3>2. loop.recovery.attempt < loop.recovery.next BY <1>2 DEF Coherent, Attempting
    <3> QED BY <1>8, <3>1, <3>2
  <2>3. Attempting(m, source)
    BY <1>2, <1>8, <1>10, <1>13, <2>2 DEF Coherent, Attempting
  <2>4. Answering(m, left'.requests)
    BY <1>2, <1>8, <1>10, <1>11, <1>13
       DEF Coherent, Answering, Waits, Queues, Fresh, Answered
  <2> QED BY <1>10, <2>1, <2>3, <2>4 DEF Coherent
<1>14. /\ Coherent(done, source, left'.requests)
       /\ Coherent(wanted, source, left'.requests)
       /\ Coherent(plain, source, left'.requests)
  BY <1>10, <1>13
<1>15. attempt.root \in Nat BY <1>2 DEF Loops, Attempts
<1>16. \A m \in {done, wanted, plain} :
         /\ Remembers(loop, m)
         /\ \A r \in Requests : Queues(loop, r) => Queues(m, r)
         /\ loop.recovery.scan => m.recovery.scan
  BY <1>8, <1>9, <1>10 DEF Remembers, Answered, Queues, again
<1>17. UNCHANGED <<watched, deadline>> => Typed' /\ Naming'
  BY <1>1, <1>2, <1>11 DEF Typed, Naming, history, devices
<1>18. ASSUME NEW m \in {done, wanted, plain}, UNCHANGED <<watched, deadline>>,
              Coherent(loop', source, left'.requests), Steady(loop'), SameWork(m, loop')
       PROVE  Kept
  <2>1. Advances(m, loop', source) BY <1>18 DEF Advances, SameWork, Queues
  <2>2. Advances(loop, loop', source) BY <1>10, <1>16, <2>1, AdvancesAfter
  <2>3. UNCHANGED library BY <1>1, <1>18 DEF library
  <2> QED BY <1>1, <1>17, <1>18, <2>2, <2>3, LoopStep
<1>19. ASSUME NEW state \in {"unavailable", "auth_required"}, UNCHANGED <<watched, deadline>>,
              loop' = Publish(done, state, 0)
       PROVE  Kept
  <2>1. state \in States /\ state # "available" BY DEF States
  <2>2. /\ Coherent(loop', source, left'.requests) /\ SameWork(done, loop')
        /\ loop'.recovery.retries = <<>> /\ loop'.recovery.state = state
    BY <1>14, <1>19, <2>1, PublishCoherent
  <2>3. Steady(loop')
    BY <1>2, <1>8, <1>10, <2>1, <2>2 DEF Steady, SameWork, Idle
  <2> QED BY <1>18, <1>19, <2>2, <2>3
<1>20. CASE loop' = heard /\ UNCHANGED <<watched, deadline>>
  <2>1. Advances(loop, loop', source)
    BY <1>3, <1>20 DEF Advances, Remembers, Answered, Queues
  <2>2. UNCHANGED library BY <1>1, <1>20 DEF library
  <2> QED BY <1>1, <1>12, <1>17, <1>20, <2>1, <2>2, LoopStep
<1>21. CASE loop' = StartAttempt(plain, TRUE) /\ UNCHANGED <<watched, deadline>>
  <2>1. /\ Coherent(loop', source, left'.requests) /\ SameWork(plain, loop')
        /\ loop'.recovery.attempt # 0 /\ loop'.recovery.state = "remounting"
    BY <1>2, <1>14, <1>21, StartAttemptCoherent
  <2>2. Steady(loop')
    BY <1>2, <1>8, <1>10, <2>1 DEF Steady, SameWork, Idle
  <2> QED BY <1>18, <1>21, <2>1, <2>2
<1>22. ASSUME NEW reconciled \in Reconciles(loop.recovery.sync),
              loop.recovery.attempt = attempt.id,
              loop' = StartAvailable(Publish(wanted, "available", attempt.root), reconciled),
              watched' = IF result = "remounted" THEN source ELSE watched,
              deadline' = (deadline /\ result # "remounted")
       PROVE  Kept
  <2> DEFINE p == Publish(wanted, "available", attempt.root)
  <2>1. "available" \in States BY DEF States
  <2>2. source # 0 => attempt.root = source BY <1>2, <1>22 DEF Coherent, Attempting
  <2>3. wanted.recovery.attempt = 0 BY <1>8, <1>10
  <2>4. /\ Coherent(p, source, left'.requests) /\ SameWork(wanted, p)
        /\ p.recovery.retries = <<>>
    BY <1>14, <1>15, <2>1, <2>2, <2>3, PublishCoherent
  <2> HIDE DEF p
  <2>5. reconciled \in BOOLEAN BY SpendingTyped
  <2>6. p.recovery.deferred # NoSync => p.session.kind = "scan"
    BY <1>2, <1>8, <1>10, <2>4 DEF Steady, SameWork
  <2>7. loop' = StartAvailable(p, reconciled) BY <1>22 DEF p
  <2>8. /\ Coherent(loop', source, left'.requests) /\ Steady(loop')
        /\ Advances(p, loop', source)
    BY <1>2, <2>4, <2>5, <2>6, <2>7, StartAvailableAdvances
  <2>9. Advances(loop, loop', source)
    <3>1. p.session = loop.session /\ p.lastId = loop.lastId /\ p.unscanned = loop.unscanned
      BY <1>10, <2>4 DEF SameWork
    <3>2. Remembers(loop, p) BY <1>16, <2>4 DEF Remembers, SameWork
    <3>3. \A r \in Requests : Queues(loop, r) => Queues(p, r)
      BY <1>16, <2>4 DEF SameWork, Queues
    <3>4. loop.recovery.scan => p.recovery.scan BY <1>16, <2>4 DEF SameWork
    <3> QED BY <2>8, <3>1, <3>2, <3>3, <3>4, AdvancesAfter
  <2>10. watched' \in Nat /\ deadline' \in BOOLEAN BY <1>2, <1>22 DEF Typed
  <2>11. Typed' /\ Naming'
    BY <1>1, <1>2, <1>11, <2>10 DEF Typed, Naming, history, devices
  <2>12. QueueAnswered BY <1>1, <2>9 DEF QueueAnswered, Advances
  <2>13. ChangeNotLost'
    <3>1. CASE result = "remounted"
      <4>1. p.recovery.scan BY <1>9, <1>10, <2>4, <3>1 DEF SameWork, again
      <4> QED BY <1>1, <2>8, <4>1 DEF ChangeNotLost, Advances
    <3>2. CASE result # "remounted"
      <4>1. watched' = watched /\ (deadline => deadline') BY <1>22, <3>2
      <4> QED BY <1>1, <2>9, <4>1 DEF IInv, ChangeNotLost, Advances
    <3> QED BY <3>1, <3>2
  <2>14. Coherent(loop', source', left'.requests) BY <1>1, <2>8
  <2>15. (loop'.session = loop.session /\ loop'.lastId = loop.lastId) \/ Launches(loop, loop')
    BY <2>9 DEF Advances
  <2> QED BY <1>1, <2>8, <2>11, <2>12, <2>13, <2>14, <2>15, SourceStep
<1>23. \/ loop' = heard /\ UNCHANGED <<watched, deadline>>
       \/ loop' = StartAttempt(plain, TRUE) /\ UNCHANGED <<watched, deadline>>
       \/ \E state \in {"unavailable", "auth_required"} :
            loop' = Publish(done, state, 0) /\ UNCHANGED <<watched, deadline>>
       \/ \E reconciled \in Reconciles(loop.recovery.sync) :
            /\ loop.recovery.attempt = attempt.id
            /\ loop' = StartAvailable(Publish(wanted, "available", attempt.root), reconciled)
            /\ watched' = IF result = "remounted" THEN source ELSE watched
            /\ deadline' = (deadline /\ result # "remounted")
  <2>1. CASE \E ok \in (IF result = "remounted" THEN Writes ELSE {TRUE}),
                reconciled \in Reconciles(loop.recovery.sync) : opened(ok, reconciled)
    <3>1. PICK ok \in (IF result = "remounted" THEN Writes ELSE {TRUE}),
               reconciled \in Reconciles(loop.recovery.sync) : opened(ok, reconciled)
      BY <2>1
    <3>2. CASE ok BY <1>0, <3>1, <3>2
    <3>3. CASE ~ ok BY <3>1, <3>3
    <3> QED BY <3>2, <3>3
  <2> QED BY <1>0, <2>1
<1> QED BY <1>19, <1>20, <1>21, <1>22, <1>23

(* An entry is recorded or retained under the last identifier, a second    *)
(* time only as the daemon ends; an entry it pushes out of the retained    *)
(* ones has a successor.                                                   *)
LEMMA PersistKeeps ==
  ASSUME IInv, phase # "panicked", NEW ok \in BOOLEAN,
         NEW entry \in [id : Nat, dev : Devices, outcome : Outcomes],
         Persist(entry, ok),
         \A e \in terminal : e.id <= entry.id /\ (e.id = entry.id => e = entry),
         entry.id \in Range(saved) => phase' = "panicked" /\ detached'.id = entry.id
  PROVE  /\ HistoryKept'
         /\ saved' \in Seq(Nat) /\ Range(saved') = Range(saved) \cup (IF ok THEN {entry.id} ELSE {})
         /\ terminal' = terminal \cup {entry} /\ retained' \in [Devices -> Nat]
         /\ \A i \in DOMAIN saved' : \E e \in terminal' : e.id = saved'[i]
<1>1. /\ terminal' = terminal \cup {entry}
      /\ saved' = IF ok THEN Append(saved, entry.id) ELSE saved
      /\ retained' = [retained EXCEPT ![entry.dev] = IF ok THEN 0 ELSE entry.id]
  BY DEF Persist
<1>2. /\ saved \in Seq(Nat) /\ retained \in [Devices -> Nat]
      /\ terminal \subseteq [id : Nat, dev : Devices, outcome : Outcomes]
  BY DEF IInv, Typed
<1>3. HistoryKept /\ Settling BY DEF IInv
<1>4. entry.id \in Nat /\ entry.dev \in Devices OBVIOUS
<1>5. saved' \in Seq(Nat) BY <1>1, <1>2, <1>4
<1>6. Range(saved') = Range(saved) \cup (IF ok THEN {entry.id} ELSE {})
  <2>1. CASE ok
    <3>1. Range(Append(saved, entry.id)) = Range(saved) \cup {entry.id}
      BY <1>2, <1>4, RangeOfAppend
    <3> QED BY <1>1, <2>1, <3>1
  <2>2. CASE ~ ok BY <1>1, <2>2
  <2> QED BY <2>1, <2>2
<1>7. retained' \in [Devices -> Nat] BY <1>1, <1>2, <1>4
<1>8. \A i \in DOMAIN saved' : \E e \in terminal' : e.id = saved'[i]
  <2> SUFFICES ASSUME NEW i \in DOMAIN saved' PROVE \E e \in terminal' : e.id = saved'[i]
    OBVIOUS
  <2>1. saved'[i] \in Range(saved') BY DEF Range
  <2>2. CASE saved'[i] = entry.id BY <1>1, <2>2
  <2>3. CASE saved'[i] \in Range(saved)
    <3>1. PICK j \in DOMAIN saved : saved[j] = saved'[i] BY <2>3 DEF Range
    <3> QED BY <1>1, <1>3, <3>1 DEF Settling
  <2> QED BY <1>6, <2>1, <2>2, <2>3
<1>9. /\ \A e, f \in terminal' : e.id = f.id => e = f
      /\ \A i, j \in DOMAIN saved' : i < j /\ saved'[i] = saved'[j] =>
           phase' = "panicked" /\ j = Len(saved') /\ saved'[j] = detached'.id
  <2>1. /\ \A e, f \in terminal : e.id = f.id => e = f
        /\ \A i, j \in DOMAIN saved : i < j => saved[i] # saved[j]
    BY <1>3 DEF HistoryKept
  <2>2. \A e, f \in terminal' : e.id = f.id => e = f BY <1>1, <2>1
  <2>3. ASSUME NEW i \in DOMAIN saved', NEW j \in DOMAIN saved', i < j, saved'[i] = saved'[j]
        PROVE  phase' = "panicked" /\ j = Len(saved') /\ saved'[j] = detached'.id
    <3>1. CASE ~ ok BY <1>1, <2>1, <2>3, <3>1
    <3>2. CASE ok
      <4>1. saved' = Append(saved, entry.id) BY <1>1, <3>2
      <4>2. /\ i \in 1..Len(saved) + 1 /\ j \in 1..Len(saved) + 1 /\ Len(saved) \in Nat
            /\ DOMAIN saved = 1..Len(saved) /\ Len(saved') = Len(saved) + 1
        BY <1>2, <1>4, <4>1
      <4>3. i \in DOMAIN saved /\ saved'[i] = saved[i] BY <1>2, <2>3, <4>1, <4>2
      <4>4. CASE j \in DOMAIN saved BY <1>2, <2>1, <2>3, <4>1, <4>3, <4>4
      <4>5. CASE j = Len(saved) + 1
        <5>1. saved'[j] = entry.id BY <1>2, <4>1, <4>5
        <5>2. entry.id \in Range(saved) BY <2>3, <4>3, <5>1 DEF Range
        <5> QED BY <4>2, <4>5, <5>1, <5>2
      <4> QED BY <4>2, <4>4, <4>5
    <3> QED BY <3>1, <3>2
  <2> QED BY <2>2, <2>3
<1>10. ASSUME NEW e \in terminal'
       PROVE  \/ e.id \in Range(saved')
              \/ retained'[e.dev] = e.id
              \/ \E f \in terminal' : f.dev = e.dev /\ f.id > e.id
  <2>1. CASE e = entry BY <1>1, <1>2, <1>4, <1>6, <2>1
  <2>2. CASE e # entry
    <3>1. e \in terminal /\ e.id \in Nat /\ e.dev \in Devices BY <1>1, <1>2, <2>2
    <3>2. e.id < entry.id BY <1>4, <2>2, <3>1
    <3>3. CASE e.id \in Range(saved) BY <1>6, <3>3
    <3>4. CASE retained[e.dev] = e.id
      <4>1. CASE e.dev = entry.dev BY <1>1, <1>4, <3>1, <3>2, <4>1
      <4>2. CASE e.dev # entry.dev BY <1>1, <1>2, <3>1, <3>4, <4>2
      <4> QED BY <4>1, <4>2
    <3>5. CASE \E f \in terminal : f.dev = e.dev /\ f.id > e.id BY <1>1, <3>5
    <3> QED BY <1>3, <3>1, <3>3, <3>4, <3>5 DEF HistoryKept
  <2> QED BY <2>1, <2>2
<1>11. HistoryKept' BY <1>9, <1>10 DEF HistoryKept
<1> QED BY <1>1, <1>5, <1>6, <1>7, <1>8, <1>11

(* The entry of the session that runs: its identifier is the last one, and *)
(* it is in the file only if the intent of its detach says so.             *)
LEMMA RunningEntry ==
  ASSUME IInv, phase # "panicked", loop.session.kind = "sync", NEW outcome \in Outcomes
  PROVE  LET entry == Entry(loop.session, outcome) IN
         /\ entry \in [id : Nat, dev : Devices, outcome : Outcomes]
         /\ entry.id = loop.lastId /\ entry.id # 0
         /\ ~ Idle(loop)
         /\ \A e \in terminal : e.id <= entry.id
         /\ \A e \in terminal : e.id = entry.id
              => detached.id = entry.id /\ e = Entry(loop.session, "device_detached")
         /\ entry.id \in Range(saved) => detached.id = entry.id /\ detached.saved
<1> DEFINE entry == Entry(loop.session, outcome)
<1>1. /\ loop \in Loops /\ loop.session \in Sessions /\ Admission(loop) /\ Settling
      /\ terminal \subseteq [id : Nat, dev : Devices, outcome : Outcomes]
      /\ detached \in [id : Nat, saved : BOOLEAN]
  BY DEF IInv, Coherent, Loops, Typed
<1>2. ~ Idle(loop) BY DEF Idle, NoSession
<1>3. /\ loop.session.id = loop.lastId /\ loop.lastId # 0 /\ loop.session.dev \in Devices
  BY <1>1, <1>2 DEF Admission, Idle
<1>4. entry \in [id : Nat, dev : Devices, outcome : Outcomes] /\ entry.id = loop.session.id
  BY <1>1, <1>3 DEF Entry, Sessions
<1>5. \A e \in terminal : e.id <= loop.lastId BY <1>1 DEF Settling
<1>6. \A e \in terminal : e.id = entry.id
        => detached.id = entry.id /\ e = Entry(loop.session, "device_detached")
  BY <1>1, <1>2, <1>4 DEF Settling
<1>7. entry.id \in Range(saved) => detached.id = entry.id /\ detached.saved
  <2> SUFFICES ASSUME entry.id \in Range(saved)
               PROVE  detached.id = entry.id /\ detached.saved
    OBVIOUS
  <2>1. PICK i \in DOMAIN saved : saved[i] = entry.id BY DEF Range
  <2>2. PICK e \in terminal : e.id = entry.id BY <1>1, <2>1 DEF Settling
  <2>3. detached.id = entry.id BY <1>6, <2>2
  <2>4. detached.id # 0 BY <1>3, <1>4, <2>3
  <2> QED BY <1>1, <2>3, <2>4 DEF Settling
<1> QED BY <1>2, <1>3, <1>4, <1>5, <1>6, <1>7

(* The outcome of a session whose device is gone is settled at once; a     *)
(* second time its entry is the same one, and the daemon ends.             *)
LEMMA DisconnectKept ==
  ASSUME IInv, NEW dev \in Devices, Disconnect(dev)
  PROVE  Kept
<1>1. /\ phase = "running"
      /\ connection' = [connection EXCEPT ![dev] = [gen |-> 0, name |-> 0]]
      /\ UNCHANGED <<known, remembered, configured, readers, generation, library, hostPending>>
  BY DEF Disconnect
<1>2. /\ Typed /\ Naming /\ Steady(loop) /\ Coherent(loop, source, left.requests)
      /\ loop \in Loops /\ left \in Spendings /\ Settling /\ ChangeNotLost
  BY <1>1 DEF IInv, Typed, Coherent
<1>3. connection' \in [Devices -> [gen : Nat, name : Nat]]
  <2>1. [gen |-> 0, name |-> 0] \in [gen : Nat, name : Nat] OBVIOUS
  <2> QED BY <1>1, <1>2, <2>1 DEF Typed
<1>4. Naming'
  <2>1. \A d \in Devices : connection'[d].gen \in {0, connection[d].gen}
    BY <1>1, <1>2 DEF Typed
  <2>2. generation \in Nat BY <1>2 DEF Typed
  <2>3. /\ \A d \in Devices : connection'[d].gen <= generation' /\ remembered'[d] <= generation'
        /\ \A d \in Devices : connection'[d].gen # 0 => remembered'[d] <= connection'[d].gen
    BY <1>1, <1>2, <2>1, <2>2 DEF Naming
  <2> QED BY <1>1, <1>2, <2>3 DEF Naming
<1>5. CASE ~ ActiveFor(dev)
  <2>1. UNCHANGED <<loop, history, phase, left>> BY <1>5 DEF Disconnect
  <2>2. Typed' BY <1>1, <1>2, <1>3, <2>1 DEF Typed, history, library
  <2>3. Advances(loop, loop', source) BY <2>1 DEF Advances, Remembers
  <2> QED BY <1>1, <1>2, <1>4, <2>1, <2>2, <2>3, LoopStep
<1>6. CASE ActiveFor(dev)
  <2> DEFINE entry == Entry(loop.session, "device_detached")
  <2>1. PICK ok \in Writes :
          /\ loop' = [loop EXCEPT !.controls = @ \ {"cancel"}]
          /\ Persist(entry, ok)
          /\ left' = [left EXCEPT !.faults = Remaining(~ ok)]
          /\ detached' = [id |-> loop.session.id, saved |-> ok]
          /\ phase' = IF detached.id = loop.session.id THEN "panicked" ELSE phase
    BY <1>6 DEF Disconnect
  <2>2. loop.session.kind = "sync" BY <1>6 DEF ActiveFor
  <2>3. "device_detached" \in Outcomes BY DEF Outcomes
  <2>4. /\ entry \in [id : Nat, dev : Devices, outcome : Outcomes]
        /\ entry.id = loop.lastId /\ entry.id # 0 /\ ~ Idle(loop)
        /\ \A e \in terminal : e.id <= entry.id
        /\ \A e \in terminal : e.id = entry.id => detached.id = entry.id /\ e = entry
        /\ entry.id \in Range(saved) => detached.id = entry.id /\ detached.saved
    BY <1>1, <2>2, <2>3, RunningEntry
  <2>5. entry.id = loop.session.id BY DEF Entry
  <2>6. ok \in BOOLEAN /\ Remaining(~ ok) \in Nat
    <3>1. ok \in BOOLEAN /\ (~ ok) \in BOOLEAN /\ (~ ok => left.faults > 0) BY SpendingTyped
    <3> QED BY <3>1, SpendingTyped
  <2>7. /\ phase' # "panicked" => detached.id # entry.id
        /\ entry.id \in Range(saved) => phase' = "panicked" /\ detached'.id = entry.id
    BY <1>1, <2>1, <2>4, <2>5
  <2> HIDE DEF entry
  <2>8. /\ HistoryKept'
        /\ saved' \in Seq(Nat)
        /\ Range(saved') = Range(saved) \cup (IF ok THEN {entry.id} ELSE {})
        /\ terminal' = terminal \cup {entry} /\ retained' \in [Devices -> Nat]
        /\ \A i \in DOMAIN saved' : \E e \in terminal' : e.id = saved'[i]
    BY <1>1, <2>1, <2>4, <2>6, <2>7, PersistKeeps
  <2>9. left' \in Spendings /\ left'.requests = left.requests
    BY <1>2, <2>1, <2>6 DEF Spendings
  <2>10. /\ loop' \in Loops /\ loop'.session = loop.session /\ loop'.lastId = loop.lastId
         /\ loop'.workers = loop.workers /\ loop'.recovery = loop.recovery
         /\ loop'.attempts = loop.attempts /\ loop'.answers = loop.answers
         /\ loop'.unscanned = loop.unscanned
    BY <1>2, <2>1 DEF Loops
  <2>11. Coherent(loop', source', left'.requests)
    <3>1. source' = source BY <1>1 DEF library
    <3> QED BY <1>2, <2>9, <2>10, <3>1
        DEF Coherent, Admission, Attempting, Answering, Waits, Queues, Fresh, Answered
  <2>12. Steady(loop') BY <1>2, <2>10 DEF Steady, Idle
  <2>13. ChangeNotLost' BY <1>1, <1>2, <2>10 DEF ChangeNotLost, library
  <2>14. Typed'
    <3>1. detached' \in [id : Nat, saved : BOOLEAN] BY <2>1, <2>4, <2>5, <2>6
    <3>2. terminal' \subseteq [id : Nat, dev : Devices, outcome : Outcomes]
      BY <1>2, <2>4, <2>8 DEF Typed
    <3>3. phase' \in {"running", "draining", "stopped", "panicked"} BY <1>1, <2>1
    <3> QED BY <1>1, <1>2, <1>3, <2>8, <2>9, <3>1, <3>2, <3>3 DEF Typed, library
  <2>15. phase' # "panicked" => Settling'
    <3> SUFFICES ASSUME phase' # "panicked" PROVE Settling'
      OBVIOUS
    <3>1. entry.id \notin Range(saved) BY <2>4, <2>7
    <3>2. detached'.id = entry.id /\ detached'.saved = ok /\ loop'.session.kind = "sync"
      BY <2>1, <2>2, <2>5, <2>10
    <3>3. entry = Entry(loop.session, "device_detached") BY DEF entry
    <3>4. /\ detached'.id = loop'.session.id /\ Entry(loop'.session, "device_detached") = entry
          /\ entry \in terminal'
      BY <2>5, <2>8, <2>10, <3>2, <3>3
    <3>5. detached'.saved <=> detached'.id \in Range(saved')
      BY <2>6, <2>8, <3>1, <3>2
    <3>6. \A e \in terminal' : e.id # 0 /\ e.id <= loop'.lastId
      <4>1. \A e \in terminal : e.id # 0 BY <1>2 DEF Settling
      <4>2. entry.id <= entry.id BY <2>4
      <4> QED BY <2>4, <2>8, <2>10, <4>1, <4>2
    <3>7. \A e \in terminal' : e.id = entry.id => e = entry BY <2>4, <2>8
    <3> QED BY <2>5, <2>8, <2>10, <3>2, <3>4, <3>5, <3>6, <3>7 DEF Settling
  <2>16. QueueAnswered BY <2>10 DEF QueueAnswered, Queues
  <2>17. LedgerStep
    <3>1. Open /\ Live = entry.id /\ Live # 0 BY <1>1, <2>2, <2>4, <2>5 DEF Open, Live
    <3>2. Ended' = Ended \cup {[id |-> entry.id, outcome |-> "device_detached"]}
      <4>1. entry.outcome = "device_detached" BY DEF entry, Entry
      <4> QED BY <2>8, <4>1 DEF Ended
    <3>3. CASE phase' = "panicked"
      <4>1. detached.id = entry.id BY <1>1, <2>1, <2>5, <3>3
      <4>2. entry \in terminal BY <1>2, <2>4, <4>1 DEF Settling, entry
      <4>3. terminal' = terminal BY <2>8, <4>2
      <4>4. ~ Open' /\ Live' = 0 /\ Ended' = Ended BY <3>3, <4>3 DEF Open, Live, Ended
      <4>5. Ledger!Halt
        BY <2>10, <3>1, <4>4 DEF Ledger!Halt, Open, Live, Ended
      <4> QED BY <4>5 DEF LedgerStep, Ledger!Next
    <3>4. CASE phase' # "panicked"
      <4>1. \A e \in terminal : e.id # entry.id BY <2>4, <2>7, <3>4
      <4>2. Open' /\ Live' = Live BY <1>1, <2>1, <2>10, <3>1, <3>4 DEF Open, Live
      <4>3. ~ Ledger!Recorded(Live)
        BY <3>1, <4>1 DEF Ledger!Recorded, Ended
      <4>4. Ledger!Announce("device_detached")
        BY <2>10, <3>1, <3>2, <4>2, <4>3 DEF Ledger!Announce, Open, Live, Ended
      <4> QED BY <2>3, <4>4 DEF LedgerStep, Ledger!Next
    <3> QED BY <3>3, <3>4
  <2> QED BY <1>4, <2>8, <2>11, <2>12, <2>13, <2>14, <2>15, <2>16, <2>17 DEF Kept, IInv
<1> QED BY <1>5, <1>6

(* After a session has ended the loop is idle, or the next one runs.       *)
LEMMA EndedInLedger ==
  ASSUME NEW n, n = loop.lastId, phase = "running", phase' = phase,
         Admission(loop'), loop.lastId \in Nat,
         \/ Idle(loop') /\ loop'.lastId = n
         \/ ~ Idle(loop') /\ loop'.lastId = n + 1 /\ loop'.session.id = loop'.lastId
  PROVE  /\ Open /\ Open'
         /\ \/ Live' = 0 /\ loop'.lastId \in {n, n + 1}
            \/ loop'.lastId = n + 1 /\ Live' = loop'.lastId
         /\ loop'.lastId = n => Live' = 0
<1>1. Open /\ Open' BY DEF Open
<1>2. CASE Idle(loop')
  <2>1. Live' = 0 BY <1>2 DEF Live, Idle, NoSession
  <2> QED BY <1>1, <1>2, <2>1
<1>3. CASE ~ Idle(loop')
  <2>1. loop'.session.kind \in {"sync", "scan"} BY <1>3 DEF Admission, Idle
  <2>2. loop'.session.kind = "sync" => Live' = loop'.lastId BY <1>1, <1>3 DEF Live
  <2>3. loop'.session.kind = "scan" => Live' = 0 BY DEF Live
  <2>4. loop'.lastId = n + 1 /\ n + 1 # n BY <1>3
  <2> QED BY <1>1, <2>1, <2>2, <2>3, <2>4
<1> QED BY <1>2, <1>3

(* What ends a session: it is told to, the sync it deferred is queued and  *)
(* the available source starts the next one.                               *)
LEMMA FinishedLoop ==
  ASSUME IInv, phase = "running", ~ Idle(loop), NEW reconciled \in BOOLEAN, NEW m,
         Coherent(m, source, left.requests),
         m.session = loop.session, m.lastId = loop.lastId, m.unscanned = loop.unscanned,
         m.recovery.scan = loop.recovery.scan, m.recovery.deferred = NoSync,
         m.recovery.attempt = loop.recovery.attempt,
         m.recovery.retries = loop.recovery.retries,
         Remembers(loop, m), \A r \in Requests : Queues(loop, r) <=> Queues(m, r),
         loop' = Continue(Finish(m), reconciled), UNCHANGED <<library, phase>>
  PROVE  /\ Coherent(loop', source', left.requests) /\ Steady(loop')
         /\ \/ Idle(loop') /\ loop'.lastId = loop.lastId
            \/ ~ Idle(loop') /\ loop'.lastId = loop.lastId + 1 /\ loop'.session.id = loop'.lastId
         /\ QueueAnswered /\ ChangeNotLost'
<1> DEFINE f == Finish(m)
<1>1. ~ Idle(m) BY DEF Idle
<1>2. /\ Coherent(f, source, left.requests) /\ Idle(f) /\ f.lastId = loop.lastId
      /\ f.recovery = m.recovery /\ f.unscanned = loop.unscanned /\ f.answers = m.answers
  BY <1>1, FinishCoherent
<1> HIDE DEF f
<1>3. source \in Nat /\ Steady(loop) /\ ChangeNotLost BY DEF IInv, Typed
<1>4. f.recovery.attempt = 0 => f.recovery.retries = <<>> BY <1>2, <1>3 DEF Steady
<1>5. /\ Coherent(loop', source, left.requests) /\ Steady(loop')
      /\ Advances(f, loop', source)
  <2>1. loop' = Continue(f, reconciled) BY DEF f
  <2> QED BY <1>2, <1>3, <1>4, <2>1, ContinueAdvances
<1>6. source' = source /\ watched' = watched /\ deadline' = deadline BY DEF library
<1>7. QueueAnswered
  <2>1. \A r \in Requests : Queues(loop, r) => Queues(f, r) BY <1>2 DEF Queues
  <2> QED BY <1>5, <1>6, <2>1 DEF QueueAnswered, Advances
<1>8. ChangeNotLost' BY <1>2, <1>3, <1>5, <1>6 DEF ChangeNotLost, Advances
<1>9. \/ Idle(loop') /\ loop'.lastId = loop.lastId
      \/ ~ Idle(loop') /\ loop'.lastId = loop.lastId + 1 /\ loop'.session.id = loop'.lastId
  BY <1>2, <1>5 DEF Advances, Launches, Idle
<1> QED BY <1>5, <1>6, <1>7, <1>8, <1>9

(* A worker's report ends its session with the outcome decided at the      *)
(* detach, if there was one, and else with the one reported.               *)
LEMMA SyncCompletedKept ==
  ASSUME IInv, NEW outcome \in Outcomes, SyncCompleted(outcome)
  PROVE  Kept
<1> DEFINE settled == SettledOutcome(outcome)
           entry == Entry(loop.session, settled)
<1>1. PICK reconciled \in Reconciles(loop.recovery.sync), ok \in Writes :
        /\ loop' = Continue(Finish(loop), reconciled)
        /\ left' = [left EXCEPT !.faults = Remaining(~ reconciled \/ ~ ok)]
        /\ detached' = NoIntent
        /\ IF AlreadySettled
           THEN ok /\ UNCHANGED <<terminal, saved, retained>>
           ELSE Persist(entry, ok)
  BY DEF SyncCompleted
<1>2. /\ phase = "running" /\ loop.session.kind = "sync"
      /\ UNCHANGED <<devices, library, hostPending, phase>>
  BY DEF SyncCompleted
<1>3. /\ Typed /\ Naming /\ Steady(loop) /\ Coherent(loop, source, left.requests)
      /\ loop \in Loops /\ left \in Spendings /\ Settling /\ HistoryKept
      /\ loop.lastId \in Nat /\ detached \in [id : Nat, saved : BOOLEAN]
  BY <1>2 DEF IInv, Typed, Coherent, Loops
<1>4. settled \in Outcomes BY DEF SettledOutcome, Outcomes
<1> HIDE DEF settled
<1>5. /\ entry \in [id : Nat, dev : Devices, outcome : Outcomes]
      /\ entry.id = loop.lastId /\ entry.id # 0 /\ ~ Idle(loop)
      /\ \A e \in terminal : e.id <= entry.id
      /\ \A e \in terminal : e.id = entry.id
           => detached.id = entry.id /\ e = Entry(loop.session, "device_detached")
      /\ entry.id \in Range(saved) => detached.id = entry.id /\ detached.saved
  BY <1>2, <1>4, RunningEntry
<1>6. entry.id = loop.session.id /\ entry.outcome = settled BY DEF Entry
<1>7. detached.id = entry.id
        => entry = Entry(loop.session, "device_detached") /\ entry \in terminal
  BY <1>3, <1>5, <1>6 DEF SettledOutcome, settled, Settling
<1> HIDE DEF entry
<1>8. left' \in Spendings /\ left'.requests = left.requests
  <2>1. /\ reconciled \in BOOLEAN /\ ok \in BOOLEAN /\ (~ reconciled \/ ~ ok) \in BOOLEAN
        /\ ~ reconciled \/ ~ ok => left.faults > 0
    BY SpendingTyped
  <2>2. Remaining(~ reconciled \/ ~ ok) \in Nat BY <2>1, SpendingTyped
  <2> QED BY <1>1, <1>3, <2>2 DEF Spendings
<1>9. /\ Coherent(loop', source', left'.requests) /\ Steady(loop')
      /\ \/ Idle(loop') /\ loop'.lastId = loop.lastId
         \/ ~ Idle(loop') /\ loop'.lastId = loop.lastId + 1 /\ loop'.session.id = loop'.lastId
      /\ QueueAnswered /\ ChangeNotLost'
  <2>1. reconciled \in BOOLEAN BY SpendingTyped
  <2>2. loop.recovery.deferred = NoSync BY <1>2, <1>3 DEF Steady
  <2>3. Remembers(loop, loop) BY DEF Remembers
  <2> QED BY <1>1, <1>2, <1>3, <1>5, <1>8, <2>1, <2>2, <2>3, FinishedLoop
<1>10. /\ HistoryKept' /\ saved' \in Seq(Nat)
       /\ terminal' = terminal \cup {entry} /\ retained' \in [Devices -> Nat]
       /\ \A i \in DOMAIN saved' : \E e \in terminal' : e.id = saved'[i]
  <2>1. CASE AlreadySettled
    <3>1. entry \in terminal BY <1>6, <1>7, <2>1 DEF AlreadySettled
    <3>2. UNCHANGED <<terminal, saved, retained, phase>> BY <1>1, <1>2, <2>1
    <3>3. \A i \in DOMAIN saved : \E e \in terminal : e.id = saved[i] BY <1>3 DEF Settling
    <3> QED BY <1>2, <1>3, <3>1, <3>2, <3>3 DEF HistoryKept, Typed
  <2>2. CASE ~ AlreadySettled
    <3>1. Persist(entry, ok) /\ ok \in BOOLEAN BY <1>1, <2>2, SpendingTyped
    <3>2. entry.id \notin Range(saved) BY <1>5, <1>6, <2>2 DEF AlreadySettled
    <3>3. \A e \in terminal : e.id <= entry.id /\ (e.id = entry.id => e = entry)
      BY <1>5, <1>7
    <3>4. phase # "panicked" BY <1>2
    <3> QED BY <1>5, <3>1, <3>2, <3>3, <3>4, PersistKeeps
  <2> QED BY <2>1, <2>2
<1>11. Typed'
  <2>1. terminal' \subseteq [id : Nat, dev : Devices, outcome : Outcomes]
    BY <1>3, <1>5, <1>10 DEF Typed
  <2>2. detached' \in [id : Nat, saved : BOOLEAN] BY <1>1 DEF NoIntent
  <2> QED BY <1>2, <1>3, <1>8, <1>10, <2>1, <2>2 DEF Typed, devices, library
<1>12. Naming' BY <1>2, <1>3 DEF Naming, devices
<1>13. Settling'
  <2>1. detached'.id = 0 BY <1>1 DEF NoIntent
  <2>2. ASSUME NEW e \in terminal'
        PROVE  e.id # 0 /\ e.id <= loop'.lastId /\ (~ Idle(loop') => e.id # loop'.session.id)
    <3>1. e.id \in Nat /\ e.id # 0 /\ e.id <= loop.lastId
      BY <1>3, <1>5, <1>10 DEF Typed, Settling
    <3> QED BY <1>3, <1>9, <3>1
  <2> QED BY <1>10, <2>1, <2>2 DEF Settling
<1>14. LedgerStep
  <2>1. Live = entry.id /\ Live # 0 BY <1>2, <1>5, <1>6 DEF Live, Open
  <2>2. /\ Open /\ Open'
        /\ \/ Live' = 0 /\ loop'.lastId \in {loop.lastId, loop.lastId + 1}
           \/ loop'.lastId = loop.lastId + 1 /\ Live' = loop'.lastId
    <3>1. Admission(loop') BY <1>9 DEF Coherent
    <3>2. phase' = phase BY <1>2
    <3> QED BY <1>2, <1>3, <1>9, <3>1, <3>2, EndedInLedger
  <2>3. Ended' = Ended \cup {[id |-> entry.id, outcome |-> settled]}
    BY <1>6, <1>10 DEF Ended
  <2>4. Ended' = IF Ledger!Recorded(Live) THEN Ended
                 ELSE Ended \cup {[id |-> Live, outcome |-> settled]}
    <3>1. CASE entry \in terminal
      <4>1. Ended' = Ended BY <1>10, <3>1 DEF Ended
      <4>2. [id |-> entry.id, outcome |-> entry.outcome] \in Ended BY <3>1 DEF Ended
      <4>3. Ledger!Recorded(Live) BY <2>1, <4>2 DEF Ledger!Recorded, Ended
      <4> QED BY <4>1, <4>3
    <3>2. CASE entry \notin terminal
      <4>1. \A e \in terminal : e.id # entry.id BY <1>5, <1>7, <3>2
      <4>2. ~ Ledger!Recorded(Live) BY <2>1, <4>1 DEF Ledger!Recorded, Ended
      <4> QED BY <2>1, <2>3, <4>2
    <3> QED BY <3>1, <3>2
  <2>5. PICK o \in Outcomes : o = settled BY <1>4
  <2>6. Ledger!End(o)
    BY <2>1, <2>2, <2>4, <2>5 DEF Ledger!End, Open, Live, Ended
  <2> QED BY <2>6 DEF LedgerStep, Ledger!Next
<1> QED BY <1>8, <1>9, <1>10, <1>11, <1>12, <1>13, <1>14 DEF Kept, IInv

(* A finished scan leaves no entry; what it deferred comes next.           *)
LEMMA ScanCompletedKept ==
  ASSUME IInv, ScanCompleted
  PROVE  Kept
<1> DEFINE m == Resumed(loop)
<1>1. PICK reconciled \in Reconciles(m.recovery.sync) :
        /\ loop' = Continue(Finish(m), reconciled)
        /\ left' = [left EXCEPT !.faults = Remaining(~ reconciled)]
  BY DEF ScanCompleted
<1>2. /\ phase = "running" /\ loop.session.kind = "scan"
      /\ UNCHANGED <<history, devices, library, hostPending, phase>>
  BY DEF ScanCompleted
<1>3. /\ Typed /\ Naming /\ Coherent(loop, source, left.requests)
      /\ left \in Spendings /\ Settling /\ HistoryKept /\ loop.lastId \in Nat
  BY <1>2 DEF IInv, Typed, Coherent, Loops
<1>4. ~ Idle(loop) BY <1>2 DEF Idle, NoSession
<1>5. reconciled \in BOOLEAN /\ (~ reconciled) \in BOOLEAN /\ (~ reconciled => left.faults > 0)
  BY SpendingTyped
<1>6. left' \in Spendings /\ left'.requests = left.requests
  <2>1. Remaining(~ reconciled) \in Nat BY <1>5, SpendingTyped
  <2> QED BY <1>1, <1>3, <2>1 DEF Spendings
<1>7. /\ Coherent(m, source, left.requests)
      /\ m.session = loop.session /\ m.lastId = loop.lastId /\ m.unscanned = loop.unscanned
      /\ m.recovery.scan = loop.recovery.scan /\ m.recovery.deferred = NoSync
      /\ m.recovery.attempt = loop.recovery.attempt
      /\ m.recovery.retries = loop.recovery.retries
      /\ Remembers(loop, m) /\ \A r \in Requests : Queues(loop, r) <=> Queues(m, r)
  BY <1>3, ResumedCoherent
<1> HIDE DEF m
<1>8. /\ Coherent(loop', source', left'.requests) /\ Steady(loop')
      /\ \/ Idle(loop') /\ loop'.lastId = loop.lastId
         \/ ~ Idle(loop') /\ loop'.lastId = loop.lastId + 1 /\ loop'.session.id = loop'.lastId
      /\ QueueAnswered /\ ChangeNotLost'
  BY <1>1, <1>2, <1>4, <1>5, <1>6, <1>7, FinishedLoop
<1>9. Typed' /\ Naming'
  BY <1>2, <1>3, <1>6 DEF Typed, Naming, history, devices, library
<1>10. HistoryKept' BY <1>2, <1>3 DEF HistoryKept, history
<1>11. Settling'
  <2>1. detached.id = 0 BY <1>2, <1>3 DEF Settling
  <2>2. ASSUME NEW e \in terminal
        PROVE  e.id # 0 /\ e.id <= loop'.lastId /\ (~ Idle(loop') => e.id # loop'.session.id)
    <3>1. e.id \in Nat /\ e.id # 0 /\ e.id <= loop.lastId BY <1>3 DEF Typed, Settling
    <3> QED BY <1>3, <1>8, <3>1
  <2> QED BY <1>2, <1>3, <2>1, <2>2 DEF Settling, history
<1>12. LedgerStep
  <2>1. Live = 0 /\ Ended' = Ended BY <1>2 DEF Live, Ended, history
  <2>2. /\ Open /\ Open'
        /\ \/ Live' = 0 /\ loop'.lastId \in {loop.lastId, loop.lastId + 1}
           \/ loop'.lastId = loop.lastId + 1 /\ Live' = loop'.lastId
    <3>1. Admission(loop') BY <1>8 DEF Coherent
    <3>2. phase' = phase BY <1>2
    <3> QED BY <1>2, <1>3, <1>8, <3>1, <3>2, EndedInLedger
  <2>3. CASE Live' = 0 /\ loop'.lastId = loop.lastId BY <2>1, <2>2, <2>3 DEF LedgerStep
  <2>4. CASE Live' = 0 /\ loop'.lastId = loop.lastId + 1
    <3>1. Ledger!Skip BY <2>1, <2>2, <2>4 DEF Ledger!Skip, Open, Live, Ended
    <3> QED BY <3>1 DEF LedgerStep, Ledger!Next
  <2>5. CASE loop'.lastId = loop.lastId + 1 /\ Live' = loop'.lastId
    <3>1. Ledger!Begin BY <2>1, <2>2, <2>5 DEF Ledger!Begin, Open, Live, Ended
    <3> QED BY <3>1 DEF LedgerStep, Ledger!Next
  <2> QED BY <2>2, <2>3, <2>4, <2>5
<1> QED BY <1>6, <1>8, <1>9, <1>10, <1>11, <1>12 DEF Kept, IInv

(* The daemon that ends leaves its files and answers as they are.          *)
LEMMA ExitKept ==
  ASSUME IInv, phase \in {"running", "draining"}, Exit("stopped"),
         UNCHANGED <<known, remembered, configured, generation, terminal, saved, retained,
                     source, watched, hostPending, left>>
  PROVE  Kept
<1>1. /\ phase' = "stopped"
      /\ loop' = [Startup EXCEPT !.answers = loop.answers, !.lastId = loop.lastId]
      /\ connection' = [d \in Devices |-> [gen |-> 0, name |-> 0]]
      /\ readers' = {} /\ detached' = NoIntent /\ deadline' = FALSE
  BY DEF Exit
<1>2. /\ Typed /\ Naming /\ Coherent(loop, source, left.requests) /\ loop \in Loops
      /\ Settling /\ HistoryKept
  BY DEF IInv, Coherent
<1>3. NewRecovery \in Recoveries
  <2>1. NoSync \in Syncs /\ "unavailable" \in States /\ <<>> \in Seq(Requests)
    BY DEF NoSync, Syncs, States
  <2> QED BY <2>1 DEF NewRecovery, Recoveries
<1>4. NoSession \in Sessions BY DEF NoSession, Sessions
<1>5. /\ loop' \in Loops /\ loop'.session = NoSession /\ loop'.workers = {}
      /\ loop'.lastId = loop.lastId /\ loop'.recovery = NewRecovery /\ loop'.attempts = {}
      /\ loop'.answers = loop.answers /\ loop'.unscanned = FALSE
  BY <1>1, <1>2, <1>3, <1>4 DEF Startup, Loops
<1>6. /\ NewRecovery.sync = NoSync /\ NewRecovery.deferred = NoSync
      /\ NewRecovery.attempt = 0 /\ NewRecovery.next = 1 /\ NewRecovery.retries = <<>>
      /\ NewRecovery.state = "unavailable"
  BY DEF NewRecovery
<1>7. Coherent(loop', source', left'.requests)
  <2>1. Admission(loop') BY <1>5 DEF Admission
  <2>2. Attempting(loop', source') BY <1>5, <1>6 DEF Attempting, SyncNamed
  <2>3. \A r \in Requests : ~ Waits(loop', r) /\ NoSync.req # r
    BY <1>5, <1>6, RangeOfEmpty, RuntimeAssumption DEF Waits, Queues, NoSync
  <2>4. \A r \in Requests : ~ Queues(loop', r) BY <2>3 DEF Waits
  <2>5. Answering(loop', left'.requests)
    BY <1>2, <1>5, <1>6, <2>3, <2>4 DEF Coherent, Answering, Fresh, Answered
  <2> QED BY <1>5, <2>1, <2>2, <2>5 DEF Coherent
<1>8. Steady(loop') BY <1>5, <1>6 DEF Steady
<1>9. Typed'
  <2>1. connection' \in [Devices -> [gen : Nat, name : Nat]] BY <1>1
  <2>2. detached' \in [id : Nat, saved : BOOLEAN] BY <1>1 DEF NoIntent
  <2> QED BY <1>1, <1>2, <2>1, <2>2 DEF Typed
<1>10. Naming'
  <2>1. \A d \in Devices : connection'[d].gen = 0 BY <1>1
  <2>2. generation \in Nat BY <1>2 DEF Typed
  <2> QED BY <1>1, <1>2, <2>1, <2>2 DEF Naming
<1>11. Settling' BY <1>1, <1>2, <1>5 DEF Settling, NoIntent, Idle
<1>12. HistoryKept'
  <2>1. phase # "panicked" /\ UNCHANGED <<terminal, saved, retained>> OBVIOUS
  <2> QED BY <1>2, <2>1 DEF HistoryKept
<1>13. ChangeNotLost' BY <1>5 DEF ChangeNotLost
<1>14. QueueAnswered BY <1>1 DEF QueueAnswered
<1>15. LedgerStep
  <2>1. Open /\ ~ Open' /\ Live' = 0 /\ Ended' = Ended BY <1>1 DEF Open, Live, Ended
  <2>2. Ledger!Halt BY <1>5, <2>1 DEF Ledger!Halt, Open, Live, Ended
  <2> QED BY <2>2 DEF LedgerStep, Ledger!Next
<1> QED BY <1>7, <1>8, <1>9, <1>10, <1>11, <1>12, <1>13, <1>14, <1>15 DEF Kept, IInv

(* A shutdown that finds a session drains it and records nothing.          *)
LEMMA ShutdownKept ==
  ASSUME IInv, Shutdown \/ Drained
  PROVE  Kept
<1>1. CASE Drained BY <1>1, ExitKept DEF Drained
<1>2. CASE Shutdown /\ Idle(loop) BY <1>2, ExitKept DEF Shutdown
<1>3. CASE Shutdown /\ ~ Idle(loop)
  <2>1. /\ phase = "running" /\ phase' = "draining"
        /\ loop' = [loop EXCEPT !.controls = @ \ {"cancel"}]
        /\ UNCHANGED <<connection, readers, detached, deadline>>
        /\ UNCHANGED <<known, remembered, configured, generation, terminal, saved, retained,
                       source, watched, hostPending, left>>
    BY <1>3 DEF Shutdown
  <2>2. /\ Typed /\ Naming /\ Coherent(loop, source, left.requests) /\ loop \in Loops
        /\ Steady(loop) /\ Settling /\ HistoryKept /\ ChangeNotLost
    BY <2>1 DEF IInv, Coherent
  <2>3. /\ loop' \in Loops /\ loop'.session = loop.session /\ loop'.lastId = loop.lastId
        /\ loop'.workers = loop.workers /\ loop'.recovery = loop.recovery
        /\ loop'.attempts = loop.attempts /\ loop'.answers = loop.answers
        /\ loop'.unscanned = loop.unscanned
    BY <2>1, <2>2 DEF Loops, Controls
  <2>4. Coherent(loop', source', left'.requests)
    BY <2>1, <2>2, <2>3
       DEF Coherent, Admission, Attempting, Answering, Waits, Queues, Fresh, Answered
  <2>5. Steady(loop') BY <2>2, <2>3 DEF Steady, Idle
  <2>6. Typed' BY <2>1, <2>2 DEF Typed
  <2>7. Naming' BY <2>1, <2>2 DEF Naming
  <2>8. Settling' BY <2>1, <2>2, <2>3 DEF Settling, Idle, Entry
  <2>9. HistoryKept' BY <2>1, <2>2 DEF HistoryKept
  <2>10. ChangeNotLost' BY <2>1, <2>2, <2>3 DEF ChangeNotLost
  <2>11. QueueAnswered BY <2>1 DEF QueueAnswered
  <2>12. LedgerStep BY <2>1, <2>3 DEF LedgerStep, Open, Live, Ended
  <2> QED BY <2>4, <2>5, <2>6, <2>7, <2>8, <2>9, <2>10, <2>11, <2>12 DEF Kept, IInv
<1> QED BY <1>1, <1>2, <1>3

(* The daemon starts with the source location of its configuration being   *)
(* opened for the startup scan.                                            *)
LEMMA InitIInv == Init => IInv
<1> SUFFICES ASSUME Init PROVE IInv
  OBVIOUS
<1> DEFINE first == [id |-> 1, root |-> 1]
           rec == [NewRecovery EXCEPT !.scan = TRUE, !.attempt = 1, !.next = 2,
                                      !.state = "remounting"]
<1>1. /\ source = 1 /\ watched = 1
      /\ loop = [Startup EXCEPT !.recovery = rec, !.attempts = {first}]
      /\ connection = [d \in Devices |-> [gen |-> 0, name |-> 0]]
      /\ known = InitialDevices /\ remembered = [d \in Devices |-> 0]
      /\ configured = InitialDevices /\ readers = {} /\ detached = NoIntent
      /\ terminal = {} /\ saved = <<>> /\ retained = [d \in Devices |-> 0]
      /\ deadline = FALSE /\ hostPending = "none" /\ phase = "running" /\ generation = 0
      /\ left \in Budgets
  BY DEF Init
<1>2. /\ NoSync \in Syncs /\ "unavailable" \in States /\ "remounting" \in States
      /\ <<>> \in Seq(Requests)
  BY DEF NoSync, Syncs, States
<1>3. NewRecovery \in Recoveries BY <1>2 DEF NewRecovery, Recoveries
<1>4. rec \in Recoveries BY <1>2, <1>3 DEF Recoveries
<1>5. /\ rec.sync = NoSync /\ rec.deferred = NoSync /\ rec.attempt = 1 /\ rec.next = 2
      /\ rec.retries = <<>> /\ rec.state = "remounting"
  BY DEF NewRecovery
<1> HIDE DEF rec
<1>6. first \in Attempts BY DEF Attempts
<1>7. NoSession \in Sessions BY DEF NoSession, Sessions
<1>8. [r \in Requests |-> <<>>] \in [Requests -> Seq(Replies)] OBVIOUS
<1>9. /\ loop \in Loops /\ loop.session = NoSession /\ loop.workers = {} /\ loop.lastId = 0
      /\ loop.recovery = rec /\ loop.attempts = {first} /\ loop.unscanned = FALSE
      /\ loop.answers = [r \in Requests |-> <<>>]
  BY <1>1, <1>4, <1>6, <1>7, <1>8 DEF Startup, Loops, NewRecovery
<1>10. Coherent(loop, source, left.requests)
  <2>1. Admission(loop) BY <1>9 DEF Admission
  <2>2. Attempting(loop, source) BY <1>1, <1>5, <1>9 DEF Attempting, SyncNamed
  <2>3. \A r \in Requests : ~ Queues(loop, r) /\ NoSync.req # r
    BY <1>5, <1>9, RuntimeAssumption DEF Queues, NoSync
  <2>4. \A r \in Requests : ~ Waits(loop, r) /\ loop.answers[r] = <<>>
    BY <1>5, <1>9, <2>3, RangeOfEmpty DEF Waits
  <2>5. \A r \in Requests : Len(loop.answers[r]) <= 1 BY <2>4
  <2>6. Answering(loop, left.requests)
    BY <1>5, <1>9, <2>3, <2>4, <2>5 DEF Answering, Fresh, Answered
  <2> QED BY <1>9, <2>1, <2>2, <2>6 DEF Coherent
<1>11. Steady(loop) BY <1>5, <1>9 DEF Steady
<1>12. Typed
  <2>1. left \in Spendings BY <1>1, RuntimeAssumption DEF Spendings
  <2>2. connection \in [Devices -> [gen : Nat, name : Nat]] BY <1>1
  <2>3. remembered \in [Devices -> Nat] /\ retained \in [Devices -> Nat] BY <1>1
  <2>4. known \subseteq Devices /\ configured \subseteq Devices BY <1>1, RuntimeAssumption
  <2>5. saved \in Seq(Nat) /\ detached \in [id : Nat, saved : BOOLEAN]
    BY <1>1 DEF NoIntent
  <2> QED BY <1>1, <2>1, <2>2, <2>3, <2>4, <2>5 DEF Typed
<1>13. Settling BY <1>1 DEF Settling, NoIntent
<1>14. Naming
  <2>1. \A d \in Devices : connection[d].gen = 0 /\ remembered[d] = 0 BY <1>1
  <2> QED BY <1>1, <2>1 DEF Naming
<1>15. HistoryKept BY <1>1 DEF HistoryKept
<1>16. ChangeNotLost BY <1>1, <1>9 DEF ChangeNotLost
<1> QED BY <1>10, <1>11, <1>12, <1>13, <1>14, <1>15, <1>16 DEF IInv

(* Every step keeps the invariant, answers what leaves the queue, and is a *)
(* step of the session ledger or none.                                     *)
LEMMA StepKept == IInv /\ [Next]_vars => Kept
<1> SUFFICES ASSUME IInv, [Next]_vars PROVE Kept
  OBVIOUS
<1>1. CASE UNCHANGED vars
  <2>1. /\ UNCHANGED <<loop, connection, known, remembered, configured, readers, detached>>
        /\ UNCHANGED <<terminal, saved, retained, source, watched, deadline, hostPending>>
        /\ UNCHANGED <<phase, generation, left>>
    BY <1>1 DEF vars
  <2>2. IInv'
    BY <2>1 DEF IInv, Typed, Steady, Settling, Naming, HistoryKept, ChangeNotLost, Entry, Idle
  <2>3. QueueAnswered BY <2>1 DEF QueueAnswered
  <2>4. LedgerStep BY <2>1 DEF LedgerStep, Open, Live, Ended
  <2> QED BY <2>2, <2>3, <2>4 DEF Kept
<1>2. ASSUME NEW request \in Requests, NEW dev \in Devices,
             TriggerSync(request, dev) \/ StartDirect(request, dev) \/ AddSelection(request, dev)
               \/ ForgetIpod(request, dev) \/ AdoptDevice(request, dev)
      PROVE  Kept
  BY <1>2, TriggerSyncKept, StartDirectKept, AddSelectionKept, RegistryKept
<1>3. ASSUME NEW request \in Requests, NEW id \in 1..loop.lastId, NEW control \in Controls,
             Stop(request, id, control)
      PROVE  Kept
  BY <1>3, StopKept
<1>4. ASSUME NEW request \in Requests, NEW location \in 0..MaxSources,
             SetSource(request, location)
      PROVE  Kept
  BY <1>4, SetSourceKept
<1>5. ASSUME NEW request \in Requests,
             (\E ui \in BOOLEAN : RetrySourceMount(request, ui)) \/ ScanLibrary(request)
      PROVE  Kept
  BY <1>5, SourceCommandKept
<1>6. ASSUME NEW kind \in {"library", "other"}, LeaveHostJournal(kind) PROVE Kept
  BY <1>6, LeaveHostJournalKept
<1>7. ASSUME NEW dev \in Devices, Connect(dev) \/ Disconnect(dev) \/ SchedulerTick(dev)
      PROVE  Kept
  BY <1>7, ConnectKept, DisconnectKept, SchedulerTickKept
<1>8. ASSUME NEW reader \in readers, NEW found \in BOOLEAN, NameResolved(reader, found)
      PROVE  Kept
  BY <1>8, NameResolvedKept
<1>9. ASSUME NEW outcome \in Outcomes, SyncCompleted(outcome) PROVE Kept
  BY <1>9, SyncCompletedKept
<1>10. CASE ScanCompleted BY <1>10, ScanCompletedKept
<1>11. ASSUME NEW attempt \in loop.attempts,
              NEW result \in {"present", "remounted", "auth_required", "unreachable"},
              AttemptFinished(attempt, result)
       PROVE  Kept
  BY <1>11, AttemptFinishedKept
<1>12. CASE LibraryChanged BY <1>12, LibraryChangedKept
<1>13. CASE DeadlineReached BY <1>13, DeadlineReachedKept
<1>14. CASE Shutdown \/ Drained BY <1>14, ShutdownKept
<1> QED BY <1>1, <1>2, <1>3, <1>4, <1>5, <1>6, <1>7, <1>8, <1>9, <1>10, <1>11, <1>12, <1>13,
           <1>14 DEF Next

------------------------------------------------------------------------------
(* The results.                                                              *)

\* The inductive invariant of the daemon's loop: whatever the clients, devices,
\* workers, mounts and failed writes do, every arm of the select loop leaves it.
THEOREM InvariantHolds == Spec => []IInv
<1>1. Init => IInv BY InitIInv
<1>2. IInv /\ [Next]_vars => IInv' BY StepKept DEF Kept
<1> QED BY <1>1, <1>2, PTL DEF Spec

\* At no time do two workers run, and the worker that runs is that of the
\* session admitted: admission is released only by the worker's own report.
THEOREM OneWorkerSafe == Spec => []OneWorker
<1>1. IInv => OneWorker
  <2> SUFFICES ASSUME IInv PROVE OneWorker
    OBVIOUS
  <2>1. Admission(loop) BY DEF IInv, Coherent
  <2>2. CASE loop.workers = {} BY <2>2, FS_EmptySet DEF OneWorker
  <2>3. CASE loop.workers = {loop.lastId} /\ loop.session.id = loop.lastId
    <3>1. Cardinality(loop.workers) = 1 BY <2>3, FS_Singleton
    <3> QED BY <2>3, <3>1 DEF OneWorker
  <2> QED BY <2>1, <2>2, <2>3 DEF Admission
<1> QED BY <1>1, InvariantHolds, PTL

\* A session has one outcome, and an entry the history file does not hold is
\* retained or superseded, though a detached session is settled before its worker
\* reports.  The file names a session twice in one case only, a device that goes
\* a second time while its worker drains: in the last write before the panic.
THEOREM HistoryKeptSafe == Spec => []HistoryKept
<1>1. IInv => HistoryKept BY DEF IInv
<1> QED BY <1>1, InvariantHolds, PTL

\* Nothing waits for a source without an attempt or a scan that will wake it,
\* and the source is available at the configured location only.
THEOREM SourceWorkSafe == Spec => []SourceWorkProceeds
<1>1. IInv => SourceWorkProceeds
  BY DEF IInv, Coherent, Attempting, Steady, SourceWorkProceeds
<1> QED BY <1>1, InvariantHolds, PTL

\* A library change noticed while a session runs keeps its rescan armed or
\* queued until a scan starts.
THEOREM ChangeSafe == Spec => []ChangeNotLost
<1>1. IInv => ChangeNotLost BY DEF IInv
<1> QED BY <1>1, InvariantHolds, PTL

\* The name found on an earlier connection never replaces that of a later one:
\* a reader's report is taken only for the connection it was started for.
THEOREM NamesSafe == Spec => NamesNeverRegress
<1>1. IInv /\ [Next]_vars => [\A d \in Devices : remembered'[d] >= remembered[d]]_vars
  <2> SUFFICES ASSUME IInv, Next PROVE \A d \in Devices : remembered'[d] >= remembered[d]
    BY DEF vars
  <2>1. remembered \in [Devices -> Nat] /\ Naming /\ readers \subseteq [dev : Devices, gen : Nat]
    BY DEF IInv, Typed
  <2>2. CASE UNCHANGED remembered BY <2>1, <2>2
  <2>3. ASSUME NEW reader \in readers, NEW found \in BOOLEAN, NameResolved(reader, found)
        PROVE  \A d \in Devices : remembered'[d] >= remembered[d]
    <3>1. CASE remembered' = remembered BY <2>1, <3>1
    <3>2. CASE Current(reader) /\ remembered' = [remembered EXCEPT ![reader.dev] = reader.gen]
      <4>1. reader.dev \in Devices /\ reader.gen \in Nat BY <2>1
      <4>2. connection[reader.dev].gen = reader.gen /\ reader.gen # 0
        BY <2>1, <3>2 DEF Current, Naming
      <4>3. remembered[reader.dev] <= reader.gen BY <2>1, <4>1, <4>2 DEF Naming
      <4> QED BY <2>1, <3>2, <4>1, <4>3
    <3> QED BY <2>3, <3>1, <3>2 DEF NameResolved
  <2> QED
    BY <2>2, <2>3
       DEF Next, TriggerSync, StartDirect, AddSelection, ForgetIpod, AdoptDevice, Stop,
           SetSource, RetrySourceMount, ScanLibrary, LeaveHostJournal, Connect, Disconnect,
           SchedulerTick, SyncCompleted, ScanCompleted, AttemptFinished, LibraryChanged,
           DeadlineReached, Shutdown, Drained, devices, history
<1> QED BY <1>1, InvariantHolds, PTL DEF Spec, NamesNeverRegress

\* A queued sync leaves the queue only with its answer, and no request is
\* answered twice.
THEOREM QueueSafe == Spec => QueueLeavesAnswered
<1>1. IInv /\ [Next]_vars =>
        [\A r \in Requests :
           /\ Len(loop'.answers[r]) <= 1
           /\ Queued(r) /\ ~ Queued(r)' /\ phase' = "running"
                => source' = 0 \/ loop'.answers[r] # <<>>]_vars
  <2> SUFFICES ASSUME IInv, [Next]_vars, NEW r \in Requests
               PROVE  /\ Len(loop'.answers[r]) <= 1
                      /\ Queued(r) /\ ~ Queued(r)' /\ phase' = "running"
                           => source' = 0 \/ loop'.answers[r] # <<>>
    OBVIOUS
  <2>1. IInv' /\ QueueAnswered BY StepKept DEF Kept
  <2>2. Answering(loop', left'.requests) BY <2>1 DEF IInv, Coherent
  <2>3. Queued(r) <=> Queues(loop, r) BY DEF Queued, Queues
  <2>4. Queued(r)' <=> Queues(loop', r) BY DEF Queued, Queues
  <2>5. Len(loop'.answers[r]) <= 1 BY <2>2 DEF Answering
  <2> QED BY <2>1, <2>3, <2>4, <2>5 DEF QueueAnswered, Answered
<1> QED BY <1>1, InvariantHolds, PTL DEF Spec, QueueLeavesAnswered

\* The daemon implements the session ledger: every arm of the loop starts, ends,
\* announces or skips a session as the ledger allows, or leaves it alone.
THEOREM LedgerImplemented == Spec => ImplementsLedger
<1>1. Init => Ledger!Init
  <2> SUFFICES ASSUME Init PROVE Ledger!Init
    OBVIOUS
  <2>1. phase = "running" /\ terminal = {} BY DEF Init
  <2>2. loop.lastId = 0 /\ loop.session = NoSession BY DEF Init, Startup
  <2> QED BY <2>1, <2>2 DEF Ledger!Init, NoSession
<1>2. IInv /\ [Next]_vars => [Ledger!Next]_(Ledger!vars)
  <2> SUFFICES ASSUME IInv, [Next]_vars PROVE [Ledger!Next]_(Ledger!vars)
    OBVIOUS
  <2>1. LedgerStep BY StepKept DEF Kept
  <2>2. CASE Ledger!Next BY <2>2
  <2>3. CASE UNCHANGED <<Open, loop.lastId, Live, Ended>>
    BY <2>3 DEF Ledger!vars, Open, Live, Ended
  <2> QED BY <2>1, <2>2, <2>3 DEF LedgerStep
<1> QED BY <1>1, <1>2, InvariantHolds, PTL DEF Spec, ImplementsLedger, Ledger!Spec
=============================================================================
